--------------------------- MODULE MCRealtimeSession ---------------------------
(***************************************************************************)
(* One client of one stream that two projectors write to.                  *)
(***************************************************************************)
EXTENDS RealtimeSession, TLC

CONSTANTS p1, p2

MCSymmetry == Permutations(Projectors)
===============================================================================
