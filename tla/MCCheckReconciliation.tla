------------------------- MODULE MCCheckReconciliation -------------------------
(***************************************************************************)
(* Two workers over the reconciliations of two attempts.                   *)
(***************************************************************************)
EXTENDS CheckReconciliation

CONSTANTS a1, a2, w1, w2
===============================================================================
