--------------------------- MODULE MCEvidenceUpload ---------------------------
(***************************************************************************)
(* Two interchangeable requests over one upload.                           *)
(***************************************************************************)
EXTENDS EvidenceUpload, TLC

CONSTANTS r1, r2, c1

MCSymmetry == Permutations(Requests)
===============================================================================
