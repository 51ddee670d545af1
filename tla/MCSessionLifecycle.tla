-------------------------- MODULE MCSessionLifecycle --------------------------
(***************************************************************************)
(* A small instance of SessionLifecycle: two writers, a few command        *)
(* identities, one decision, one failure reason.                           *)
(***************************************************************************)
EXTENDS SessionLifecycle, TLC

CONSTANTS w1, w2, e1, e2, e3, d1, f1

MCWriters == {w1, w2}
MCEvents == {e1, e2, e3}
MCDecisions == {d1}
MCFailures == {f1}
MCSymmetry == Permutations(MCWriters) \cup Permutations(MCEvents)
===============================================================================
