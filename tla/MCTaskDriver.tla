---------------------------- MODULE MCTaskDriver ----------------------------
(***************************************************************************)
(* Three tasks, two of which share an idempotency key, and two workers.    *)
(***************************************************************************)
EXTENDS TaskDriver

CONSTANTS t1, t2, t3, w1, w2

MCKey == [t \in Tasks |-> IF t = t3 THEN "other" ELSE "shared"]
MCScheduledAt == [t \in Tasks |-> 0]
MCDeadline == [t \in Tasks |-> IF t = t3 THEN 2 ELSE MaxTime]
=============================================================================
