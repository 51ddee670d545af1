--------------------------- MODULE MCCircuitBreaker ---------------------------
(***************************************************************************)
(* Four interchangeable calls through one worker.                          *)
(***************************************************************************)
EXTENDS CircuitBreaker, TLC

CONSTANTS c1, c2, c3, c4, w1

MCSymmetry == Permutations(Calls)
===============================================================================
