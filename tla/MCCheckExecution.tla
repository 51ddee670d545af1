-------------------------- MODULE MCCheckExecution --------------------------
(***************************************************************************)
(* Two deliveries of execution tasks and one service call on one check     *)
(* whose runner may complete, fail retryably, or report a cancellation     *)
(* that asks for a retry.                                                  *)
(***************************************************************************)
EXTENDS CheckExecution, TLC

CONSTANTS w1, w2, s1

MCResults ==
    { [class |-> "none", signals |-> {"satisfied"}],
      [class |-> "unavailable", retry |-> "backoff", after |-> 0, code |-> "runner"],
      [class |-> "cancelled", retry |-> "reconcile", after |-> 0, code |-> "runner"] }

Symmetry == Permutations(Workers)
=============================================================================
