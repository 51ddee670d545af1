-------------------------- MODULE CheckReconciliation --------------------------
(***************************************************************************)
(* Reconciliation of stale and conflicting check results                   *)
(* (internal/verification/task/reconcile.go and coordination.go): a row    *)
(* per check attempt, a periodic sweep that enqueues one task per row, and *)
(* a handler that first leases the row in a transaction of its own and     *)
(* then resolves it in the transaction that completes the task.            *)
(*                                                                         *)
(* Two leases are in play, the queue's on the task and the application's   *)
(* on the row, and a worker may stop between taking the second and using   *)
(* it.  The task's key is the attempt, so a task that ends early is never  *)
(* enqueued again.                                                         *)
(***************************************************************************)
EXTENDS Clock

CONSTANTS Attempts,   \* check attempts
          Reconcilers, \* workers of the task queue
          Lease,      \* ReconciliationItemLease
          Backoff,    \* ReconcileRetry's backoff, taken constant
          MaxTries,   \* ReconcileRetry.MaxAttempts
          MaxFaults,  \* bound on crashes, lost leases and slow workers
          Quiet       \* bound on the time of a diagnostic or of a fault

VARIABLES row,        \* verification_reconciliations: [Attempts -> None or row]
          queue,      \* the task queue: [Attempts -> None or task]
          run,        \* per worker: the attempt it works on and its claim
          faults

reconcileVars == <<now, row, queue, run, faults>>

Row == [status : {"pending", "claimed", "resolved"}, token : Nat, lease : Nat]

Task == [state : {"queued", "held", "done", "dead"}, holder : Reconcilers \cup {None},
         tries : Nat, at : Nat]

Run == [attempt : Attempts, step : {"prepare", "resolve"}, token : Nat]

ASSUME ReconciliationConstants ==
    /\ {Lease, Backoff, MaxTries} \subseteq Nat \ {0}
    /\ {MaxFaults, Quiet, MaxTime} \subseteq Nat
    /\ None \notin Row /\ None \notin Task /\ None \notin Run

CanFail == faults < MaxFaults /\ now <= Quiet

ReconcileInit ==
    /\ now = 0
    /\ row = [a \in Attempts |-> None]
    /\ queue = [a \in Attempts |-> None]
    /\ run = [w \in Reconcilers |-> None]
    /\ faults = 0

(***************************************************************************)
(* persistDiagnostics: a stale or a conflicting result asks for            *)
(* reconciliation; an attempt that has a row keeps it.                     *)
(***************************************************************************)
Diagnose(a) ==
    /\ now <= Quiet
    /\ row[a] = None
    /\ row' = [row EXCEPT ![a] = [status |-> "pending", token |-> 0, lease |-> 0]]
    /\ UNCHANGED <<now, queue, run, faults>>

(***************************************************************************)
(* The condition as it would be without the expired lease.                 *)
(***************************************************************************)
DuePending(a) == row[a] # None /\ row[a].status = "pending"

(***************************************************************************)
(* Pending, or claimed under a lease that ran out.                         *)
(***************************************************************************)
Due(a) ==
    /\ row[a] # None
    /\ \/ row[a].status = "pending"
       \/ row[a].status = "claimed" /\ row[a].lease <= now

(***************************************************************************)
(* ScheduleReconciliations: one task per attempt, ever.                    *)
(***************************************************************************)
Schedule(a) ==
    /\ Due(a) /\ queue[a] = None
    /\ queue' = [queue EXCEPT ![a] =
                   [state |-> "queued", holder |-> None, tries |-> 0, at |-> now]]
    /\ UNCHANGED <<now, row, run, faults>>

-----------------------------------------------------------------------------
(* The queue, as the handler sees it. *)

Working(w) == run[w] # None

Holds(w) ==
    /\ Working(w)
    /\ queue[run[w].attempt].state = "held" /\ queue[run[w].attempt].holder = w

Claim(w, a) ==
    /\ ~Working(w)
    /\ queue[a] # None /\ queue[a].state = "queued" /\ queue[a].at <= now
    /\ queue' = [queue EXCEPT ![a].state = "held", ![a].holder = w, ![a].tries = @ + 1]
    /\ run' = [run EXCEPT ![w] = [attempt |-> a, step |-> "prepare", token |-> 0]]
    /\ UNCHANGED <<now, row, faults>>

Ended(state) == [state |-> state, holder |-> None, tries |-> 0, at |-> 0]

Released(t, at) ==
    IF t.tries < MaxTries THEN [t EXCEPT !.state = "queued", !.holder = None, !.at = at]
                          ELSE Ended("dead")

Retry(w) ==
    IF Holds(w) THEN [queue EXCEPT ![run[w].attempt] = Released(@, now + Backoff)] ELSE queue

Completed(w) == [queue EXCEPT ![run[w].attempt] = Ended("done")]

Leave(w) == run' = [run EXCEPT ![w] = None]

(***************************************************************************)
(* The lease of a held task runs out.  Its worker is not told.             *)
(***************************************************************************)
LoseLease(a) ==
    /\ queue[a] # None /\ queue[a].state = "held"
    /\ CanFail
    /\ queue' = [queue EXCEPT ![a] = Released(@, now)]
    /\ faults' = faults + 1
    /\ UNCHANGED <<now, row, run>>

Crash(w) ==
    /\ Working(w) /\ CanFail
    /\ queue' = Retry(w)
    /\ Leave(w)
    /\ faults' = faults + 1
    /\ UNCHANGED <<now, row>>

-----------------------------------------------------------------------------
(* The handler: ReconcileHandler.Prepare and resolveWork. *)

(***************************************************************************)
(* ClaimReconciliationForAttempt leases the row under a fresh token.       *)
(***************************************************************************)
ClaimRow(w) ==
    LET a == run[w].attempt IN
    /\ Working(w) /\ run[w].step = "prepare"
    /\ Due(a)
    /\ row' = [row EXCEPT ![a] = [status |-> "claimed", token |-> @.token + 1,
                                  lease |-> now + Lease]]
    /\ run' = [run EXCEPT ![w].step = "resolve", ![w].token = row[a].token + 1]
    /\ UNCHANGED <<now, queue, faults>>

(***************************************************************************)
(* Nothing left to do, as it would be for any row that cannot be claimed.  *)
(***************************************************************************)
SettledUnclaimable(a) == ~Due(a)

Settled(a) == row[a] = None \/ row[a].status = "resolved"

(***************************************************************************)
(* The row is resolved, or there is none: the task has only to end.        *)
(***************************************************************************)
ClaimSettled(w) ==
    /\ Working(w) /\ run[w].step = "prepare"
    /\ Settled(run[w].attempt)
    /\ queue' = IF Holds(w) THEN Completed(w) ELSE queue
    /\ Leave(w)
    /\ UNCHANGED <<now, row, faults>>

(***************************************************************************)
(* Somebody else's lease on the row is live: ErrStaleAttempt.              *)
(***************************************************************************)
ClaimConflict(w) ==
    /\ Working(w) /\ run[w].step = "prepare"
    /\ ~Due(run[w].attempt) /\ ~Settled(run[w].attempt)
    /\ queue' = Retry(w)
    /\ Leave(w)
    /\ UNCHANGED <<now, row, faults>>

Resolvable(w) ==
    /\ row[run[w].attempt].status = "claimed"
    /\ row[run[w].attempt].token = run[w].token
    /\ now < row[run[w].attempt].lease

(***************************************************************************)
(* The fenced transaction: the row and the task end together, or the task  *)
(* is retried.                                                             *)
(***************************************************************************)
Resolve(w) ==
    /\ run[w] # None /\ run[w].step = "resolve" /\ Holds(w)
    /\ IF Resolvable(w)
         THEN /\ row' = [row EXCEPT ![run[w].attempt] =
                            [status |-> "resolved", token |-> 0, lease |-> 0]]
              /\ queue' = Completed(w)
         ELSE queue' = Retry(w) /\ UNCHANGED row
    /\ Leave(w)
    /\ UNCHANGED <<now, faults>>

(***************************************************************************)
(* A worker that lost the task has no transaction to end.                  *)
(***************************************************************************)
Superseded(w) ==
    /\ run[w] # None /\ run[w].step = "resolve" /\ ~Holds(w)
    /\ Leave(w)
    /\ UNCHANGED <<now, row, queue, faults>>

-----------------------------------------------------------------------------
(***************************************************************************)
(* Time passes while no worker works, or around a slow one.                *)
(***************************************************************************)
ReconcileTick ==
    /\ ClockAdvances
    /\ \A w \in Reconcilers : ~Working(w)
    /\ UNCHANGED <<row, queue, run, faults>>

SlowTick ==
    /\ ClockAdvances /\ CanFail
    /\ \E w \in Reconcilers : Working(w)
    /\ faults' = faults + 1
    /\ UNCHANGED <<row, queue, run>>

Handle(w) ==
    \/ ClaimRow(w) \/ ClaimSettled(w) \/ ClaimConflict(w)
    \/ Resolve(w) \/ Superseded(w)

ReconcileNext ==
    \/ \E a \in Attempts : Diagnose(a) \/ Schedule(a) \/ LoseLease(a)
    \/ \E w \in Reconcilers, a \in Attempts : Claim(w, a)
    \/ \E w \in Reconcilers : Handle(w) \/ Crash(w)
    \/ ReconcileTick \/ SlowTick

ReconcileSpec == ReconcileInit /\ [][ReconcileNext]_reconcileVars

(***************************************************************************)
(* The sweep repeats, live workers take what is queued and go on with what *)
(* they took, and the clock runs.                                          *)
(***************************************************************************)
FairReconcile ==
    /\ ReconcileSpec
    /\ WF_reconcileVars(\E a \in Attempts : Schedule(a))
    /\ WF_reconcileVars(\E w \in Reconcilers, a \in Attempts : Claim(w, a))
    /\ WF_reconcileVars(\E w \in Reconcilers : Handle(w))
    /\ WF_reconcileVars(ReconcileTick)

(***************************************************************************)
(* A task that ended well left its row resolved.  The key is used up by    *)
(* then, so a task that completed over a row another worker holds a lease  *)
(* on would leave the row behind for good should that worker stop.         *)
(***************************************************************************)
TaskEndsResolved ==
    \A a \in Attempts : queue[a] # None /\ queue[a].state = "done" =>
        row[a] # None /\ row[a].status = "resolved"

(***************************************************************************)
(* Every row is resolved in the end, although a worker may stop, fall      *)
(* behind or lose its task between leasing the row and resolving it: the   *)
(* lease runs out while tries are left.                                    *)
(***************************************************************************)
ReconciliationEnds ==
    \A a \in Attempts :
        row[a] # None ~> row[a] # None /\ row[a].status = "resolved"
===============================================================================
