------------------------------ MODULE CheckProofs ------------------------------
(***************************************************************************)
(* Proofs about the checks of a verification.                              *)
(***************************************************************************)
EXTENDS CheckReconciliation, CheckExecution, TLAPS

-----------------------------------------------------------------------------
(* Reconciliation. *)

ReconcileTypeOK ==
    /\ now \in Nat /\ faults \in Nat
    /\ row \in [Attempts -> Row \cup {None}]
    /\ queue \in [Attempts -> Task \cup {None}]
    /\ run \in [Reconcilers -> Run \cup {None}]

(***************************************************************************)
(* A task exists for a row only, and a worker works on a task only, so     *)
(* "there is no such row" never ends a task; what is then left of "settled"*)
(* is a row that was resolved, and nothing takes that back.                *)
(***************************************************************************)
ReconcileIInv ==
    /\ ReconcileTypeOK
    /\ \A a \in Attempts : queue[a] # None => row[a] # None
    /\ \A w \in Reconcilers : run[w] # None => queue[run[w].attempt] # None
    /\ TaskEndsResolved

-----------------------------------------------------------------------------
(***************************************************************************)
(* A task that is given back, to be tried again or never, is a task that   *)
(* did not end well.                                                       *)
(***************************************************************************)
LEMMA ReleasedFields ==
    ASSUME NEW t \in Task, NEW at \in Nat
    PROVE  /\ Released(t, at) \in Task
           /\ Released(t, at) # None
           /\ Released(t, at).state # "done"
  <1>1. CASE t.tries < MaxTries
    <2>1. Released(t, at) = [t EXCEPT !.state = "queued", !.holder = None, !.at = at]
      BY <1>1 DEF Released
    <2>2. Released(t, at) \in Task /\ Released(t, at).state = "queued"
      BY <2>1, Zenon DEF Task
    <2> QED BY <2>2, ReconciliationConstants
  <1>2. CASE ~(t.tries < MaxTries)
    <2>1. Released(t, at) = [state |-> "dead", holder |-> None, tries |-> 0, at |-> 0]
      BY <1>2 DEF Released, Ended
    <2>2. Released(t, at) \in Task /\ Released(t, at).state = "dead"
      BY <2>1 DEF Task
    <2> QED BY <2>2, ReconciliationConstants
  <1> QED BY <1>1, <1>2

(***************************************************************************)
(* A completed task.                                                       *)
(***************************************************************************)
LEMMA DoneType == Ended("done") \in Task
  BY DEF Ended, Task

(***************************************************************************)
(* Giving a task back, as a crash, a conflict or a failed resolution does  *)
(* it, changes no task but the worker's own, and ends none well.           *)
(***************************************************************************)
LEMMA RetryFields ==
    ASSUME ReconcileIInv, NEW w \in Reconcilers, run[w] # None
    PROVE  /\ Retry(w) \in [Attempts -> Task \cup {None}]
           /\ \A a \in Attempts : /\ Retry(w)[a] # None <=> queue[a] # None
                                  /\ Retry(w)[a] = queue[a] \/ Retry(w)[a].state # "done"
  <1>1. CASE ~Holds(w)
    BY <1>1 DEF Retry, ReconcileIInv, ReconcileTypeOK
  <1>2. CASE Holds(w)
    <2> DEFINE b == run[w].attempt
    <2>1. b \in Attempts /\ queue[b] \in Task /\ now + Backoff \in Nat
      BY ReconciliationConstants DEF ReconcileIInv, ReconcileTypeOK, Run
    <2>2. Retry(w) = [queue EXCEPT ![b] = Released(queue[b], now + Backoff)]
      BY <1>2 DEF Retry, ReconcileIInv, ReconcileTypeOK
    <2>3. /\ Released(queue[b], now + Backoff) \in Task
          /\ Released(queue[b], now + Backoff) # None
          /\ Released(queue[b], now + Backoff).state # "done"
      BY <2>1, ReleasedFields
    <2>4. queue \in [Attempts -> Task \cup {None}] /\ queue[b] # None
      BY <2>1, ReconciliationConstants DEF ReconcileIInv, ReconcileTypeOK
    <2> HIDE DEF b
    <2> QED BY <2>1, <2>2, <2>3, <2>4
  <1> QED BY <1>1, <1>2

(***************************************************************************)
(* The steps that only move a task or a row along.                         *)
(***************************************************************************)
LEMMA QueueKeeps ==
    ASSUME ReconcileIInv, NEW a \in Attempts, Diagnose(a) \/ Schedule(a) \/ LoseLease(a)
    PROVE  ReconcileIInv'
  <1> USE ReconciliationConstants
  <1>1. CASE Diagnose(a)
    BY <1>1 DEF ReconcileIInv, ReconcileTypeOK, Diagnose, Row, TaskEndsResolved
  <1>2. CASE Schedule(a)
    <2> DEFINE new == [state |-> "queued", holder |-> None, tries |-> 0, at |-> now]
    <2>1. new \in Task /\ new.state # "done" /\ row[a] # None
      BY <1>2 DEF ReconcileIInv, ReconcileTypeOK, Task, Schedule, Due
    <2>2. queue' = [queue EXCEPT ![a] = new] /\ UNCHANGED <<now, row, run, faults>>
      BY <1>2 DEF Schedule
    <2> HIDE DEF new
    <2> QED BY <2>1, <2>2 DEF ReconcileIInv, ReconcileTypeOK, TaskEndsResolved, Run
  <1>3. CASE LoseLease(a)
    <2> DEFINE new == Released(queue[a], now)
    <2>1. new \in Task /\ new # None /\ new.state # "done"
      BY <1>3, ReleasedFields, Zenon DEF ReconcileIInv, ReconcileTypeOK, LoseLease
    <2>2. queue' = [queue EXCEPT ![a] = new] /\ queue[a] # None
          /\ UNCHANGED <<now, row, run>> /\ faults' = faults + 1
      BY <1>3 DEF LoseLease, ReconcileIInv, ReconcileTypeOK
    <2> HIDE DEF new
    <2> QED BY <2>1, <2>2 DEF ReconcileIInv, ReconcileTypeOK, TaskEndsResolved, Run
  <1> QED BY <1>1, <1>2, <1>3

(***************************************************************************)
(* A worker takes a queued task.                                           *)
(***************************************************************************)
LEMMA ClaimKeeps ==
    ASSUME ReconcileIInv, NEW w \in Reconcilers, NEW a \in Attempts, Claim(w, a)
    PROVE  ReconcileIInv'
  <1> USE ReconciliationConstants
  <1> DEFINE new == [queue[a] EXCEPT !.state = "held", !.holder = w,
                                    !.tries = queue[a].tries + 1]
  <1>1. queue[a] \in Task /\ queue[a].tries + 1 \in Nat
    BY DEF ReconcileIInv, ReconcileTypeOK, Claim, Task
  <1>2. new \in Task /\ new.state = "held"
    BY <1>1, Zenon DEF Task
  <1>3. queue' = [queue EXCEPT ![a] = new] /\ queue[a] # None
    BY Zenon DEF Claim, ReconcileIInv, ReconcileTypeOK
  <1>4. [attempt |-> a, step |-> "prepare", token |-> 0] \in Run
    BY DEF Run
  <1>5. /\ run' = [run EXCEPT ![w] = [attempt |-> a, step |-> "prepare", token |-> 0]]
        /\ UNCHANGED <<now, row, faults>>
    BY DEF Claim
  <1> HIDE DEF new
  <1> QED BY <1>1, <1>2, <1>3, <1>4, <1>5
             DEF ReconcileIInv, ReconcileTypeOK, TaskEndsResolved, Run

(***************************************************************************)
(* A worker leases the row of its task, or gives the task back.            *)
(***************************************************************************)
LEMMA ClaimRowKeeps ==
    ASSUME ReconcileIInv, NEW w \in Reconcilers, ClaimRow(w) \/ ClaimConflict(w) \/ Crash(w)
    PROVE  ReconcileIInv'
  <1> USE ReconciliationConstants
  <1>1. CASE ClaimRow(w)
    <2> DEFINE a == run[w].attempt
               new == [run[w] EXCEPT !.step = "resolve", !.token = row[a].token + 1]
    <2>1. a \in Attempts /\ run[w] \in Run /\ row[a] \in Row /\ row[a].token + 1 \in Nat
          /\ now + Lease \in Nat
      BY <1>1 DEF ReconcileIInv, ReconcileTypeOK, ClaimRow, Working, Due, Run, Row
    <2>2. new \in Run /\ new.attempt = a
      BY <2>1, Zenon DEF Run
    <2>3. run' = [run EXCEPT ![w] = new] /\ run[w] # None /\ UNCHANGED <<now, queue, faults>>
      BY <1>1, Zenon DEF ClaimRow, Working, ReconcileIInv, ReconcileTypeOK
    <2>4. row' = [row EXCEPT ![a] = [status |-> "claimed", token |-> row[a].token + 1,
                                     lease |-> now + Lease]]
      BY <1>1 DEF ClaimRow, ReconcileIInv, ReconcileTypeOK
    <2>5. row[a].status # "resolved" /\ row[a] # None
      BY <1>1 DEF ClaimRow, Due
    <2>6. [status |-> "claimed", token |-> row[a].token + 1, lease |-> now + Lease] \in Row
      BY <2>1 DEF Row
    <2> HIDE DEF new, a
    <2>7. ReconcileTypeOK'
      BY <2>1, <2>2, <2>3, <2>4, <2>6 DEF ReconcileIInv, ReconcileTypeOK
    <2>8. \A b \in Attempts : /\ row'[b] # None <=> row[b] # None
                              /\ row[b].status = "resolved" => row'[b] = row[b]
      BY <2>1, <2>4, <2>5, <2>6 DEF ReconcileIInv, ReconcileTypeOK
    <2>9. \A v \in Reconcilers : run'[v] # None => run[v] # None /\ run'[v].attempt = run[v].attempt
      BY <2>2, <2>3 DEF ReconcileIInv, ReconcileTypeOK, a
    <2>10. UNCHANGED queue
      BY <2>3
    <2>11. TaskEndsResolved'
      BY <2>8, <2>10 DEF ReconcileIInv, ReconcileTypeOK, TaskEndsResolved
    <2>12. \A b \in Attempts : queue'[b] # None => row'[b] # None
      BY <2>8, <2>10 DEF ReconcileIInv, ReconcileTypeOK
    <2>13. \A v \in Reconcilers : run'[v] # None => queue'[run'[v].attempt] # None
      BY <2>9, <2>10 DEF ReconcileIInv
    <2> QED BY <2>7, <2>11, <2>12, <2>13, Zenon DEF ReconcileIInv
  <1>2. CASE ClaimConflict(w) \/ Crash(w)
    <2>1. /\ queue' = Retry(w) /\ run' = [run EXCEPT ![w] = None] /\ run[w] # None
          /\ UNCHANGED <<now, row>> /\ faults' \in Nat
      BY <1>2 DEF ClaimConflict, Crash, Working, Leave, ReconcileIInv, ReconcileTypeOK
    <2> QED BY <2>1, RetryFields DEF ReconcileIInv, ReconcileTypeOK, TaskEndsResolved, Run
  <1> QED BY <1>1, <1>2

(***************************************************************************)
(* A worker ends its task: over a row that is settled already, or together *)
(* with the row.                                                           *)
(***************************************************************************)
LEMMA EndKeeps ==
    ASSUME ReconcileIInv, NEW w \in Reconcilers, ClaimSettled(w) \/ Resolve(w) \/ Superseded(w)
    PROVE  ReconcileIInv'
  <1> USE ReconciliationConstants
  <1> DEFINE a == run[w].attempt
  <1>1. /\ run[w] # None /\ a \in Attempts /\ queue[a] # None /\ row[a] # None
        /\ run' = [run EXCEPT ![w] = None]
    BY DEF ClaimSettled, Resolve, Superseded, Working, Leave, ReconcileIInv, ReconcileTypeOK, Run
  <1>2. Ended("done") \in Task
    BY DoneType
  <1>3. CASE ClaimSettled(w)
    <2>1. row[a].status = "resolved" /\ UNCHANGED <<now, row, faults>>
      BY <1>1, <1>3 DEF ClaimSettled, Settled
    <2>2. queue' = queue \/ queue' = [queue EXCEPT ![a] = Ended("done")]
      BY <1>3 DEF ClaimSettled, Completed
    <2> HIDE DEF a
    <2>3. CASE queue' = queue
      BY <1>1, <2>1, <2>3 DEF ReconcileIInv, ReconcileTypeOK, TaskEndsResolved
    <2>4. CASE queue' = [queue EXCEPT ![a] = Ended("done")]
      BY <1>1, <1>2, <2>1, <2>4 DEF ReconcileIInv, ReconcileTypeOK, TaskEndsResolved
    <2> QED BY <2>2, <2>3, <2>4
  <1>4. CASE Resolve(w) /\ Resolvable(w)
    <2>1. /\ row' = [row EXCEPT ![a] = [status |-> "resolved", token |-> 0, lease |-> 0]]
          /\ queue' = [queue EXCEPT ![a] = Ended("done")] /\ UNCHANGED <<now, faults>>
      BY <1>4 DEF Resolve, Completed
    <2>2. [status |-> "resolved", token |-> 0, lease |-> 0] \in Row
      BY DEF Row
    <2> HIDE DEF a
    <2> QED BY <1>1, <1>2, <2>1, <2>2 DEF ReconcileIInv, ReconcileTypeOK, TaskEndsResolved
  <1>5. CASE Resolve(w) /\ ~Resolvable(w)
    <2>1. queue' = Retry(w) /\ UNCHANGED <<now, row, faults>>
      BY <1>5 DEF Resolve
    <2> HIDE DEF a
    <2> QED BY <1>1, <2>1, RetryFields DEF ReconcileIInv, ReconcileTypeOK, TaskEndsResolved, Run
  <1>6. CASE Superseded(w)
    BY <1>1, <1>6 DEF Superseded, ReconcileIInv, ReconcileTypeOK, TaskEndsResolved
  <1> QED BY <1>3, <1>4, <1>5, <1>6

(***************************************************************************)
(* Every step keeps the invariant.                                         *)
(***************************************************************************)
LEMMA ReconcileNextKeeps ==
    ASSUME ReconcileIInv, [ReconcileNext]_reconcileVars
    PROVE  ReconcileIInv'
  <1>1. CASE ReconcileTick \/ SlowTick \/ UNCHANGED reconcileVars
    BY <1>1
       DEF ReconcileIInv, ReconcileTypeOK, TaskEndsResolved, ReconcileTick, SlowTick, ClockAdvances,
                 reconcileVars
  <1>2. ASSUME NEW w \in Reconcilers, Handle(w) \/ Crash(w) PROVE ReconcileIInv'
    BY <1>2, ClaimRowKeeps, EndKeeps, Zenon DEF Handle
  <1> QED BY <1>1, <1>2, QueueKeeps, ClaimKeeps, Zenon DEF ReconcileNext

(***************************************************************************)
(* A reconciliation task that ended well left its row resolved, so the one *)
(* task a row ever gets is not used up while another worker's lease on the *)
(* row is live.                                                            *)
(***************************************************************************)
THEOREM TaskEndsCorrect == ReconcileSpec => []TaskEndsResolved
  <1>1. ReconcileInit => ReconcileIInv
    BY ReconciliationConstants DEF ReconcileInit, ReconcileIInv, ReconcileTypeOK, TaskEndsResolved
  <1>2. ReconcileIInv /\ [ReconcileNext]_reconcileVars => ReconcileIInv'
    BY ReconcileNextKeeps
  <1>3. ReconcileIInv => TaskEndsResolved
    BY DEF ReconcileIInv
  <1> QED BY <1>1, <1>2, <1>3, PTL DEF ReconcileSpec
-----------------------------------------------------------------------------
(* Execution. *)

(***************************************************************************)
(* Types of the check, its attempts and the rows saved with it.            *)
(***************************************************************************)
FinalStates == {"completed", "timed_out", "cancelled", "failed"}

Attempt ==
    [state : FinalStates \cup {"running"}, startedAt : Nat, deadline : Nat,
     finishedAt : Nat \cup {None}, result : Result \cup {None}]

Diagnostic == [attempt : Nat, kind : {"stale", "conflict", "duplicate"}, at : Nat]

Check ==
    [state : FinalStates \cup {"running", "skipped_by_policy"},
     outcome : {"passed", "not_passed", "inconclusive", None},
     version : Nat, updatedAt : Nat, attempts : Seq(Attempt),
     diagnostics : SUBSET Diagnostic]

Delivery == [attempt : Numbers, result : Results \cup {None}, at : Nat]

Call == [read : Check, attempt : Nat, result : Results, at : Nat]

ExecutionTypeOK ==
    /\ check \in Check
    /\ inbox \subseteq [attempt : Nat, result : Results, at : Nat]
    /\ reconciliations \subseteq Nat \X {"stale", "conflict"}
    /\ outbox \in Seq([version : Nat, state : FinalStates \cup {"running", "skipped_by_policy"}])
    /\ Len(outbox) > 0
    /\ task \in [Numbers -> {"none", "pending", "quarantined", "done"}]
    /\ work \in [Workers -> Delivery \cup {None}]
    /\ call \in [Services -> Call \cup {None}]

(***************************************************************************)
(* AttemptsAreChain of a check that is not, or not yet, the stored one.    *)
(***************************************************************************)
Chain(c) ==
    /\ Latest(c) \in Numbers
    /\ c.state = "running" <=> c.attempts[Latest(c)].state = "running"
    /\ c.state = "completed" <=> c.outcome # None
    /\ c.state \notin {"running", "skipped_by_policy"} =>
         c.state = c.attempts[Latest(c)].state
    /\ \A k \in 1 .. Latest(c) :
         /\ c.attempts[k].startedAt < c.attempts[k].deadline
         /\ c.attempts[k].deadline <= ExpiresAt
         /\ c.attempts[k].state # "running" <=> c.attempts[k].result # None
         /\ k < Latest(c) =>
              /\ c.attempts[k].state \in {"failed", "timed_out"}
              /\ c.attempts[k].result.retry # "never"
              /\ c.attempts[k].finishedAt <= c.attempts[k + 1].startedAt

(***************************************************************************)
(* A task exists for an attempt that exists.                               *)
(***************************************************************************)
TaskInv == \A k \in Numbers : task[k] # "none" => k <= Latest(check)

(***************************************************************************)
(* A receipt belongs to an attempt that has ended, so a replay can never   *)
(* complete the task of a running one.                                     *)
(***************************************************************************)
InboxInv ==
    \A r \in inbox : r.attempt \in 1 .. Latest(check) /\ At(r.attempt).state # "running"

(***************************************************************************)
(* A stale or conflicting diagnostic has its reconciliation, so one that   *)
(* is recorded again need not ask for it.                                  *)
(***************************************************************************)
DiagnosticInv ==
    \A d \in check.diagnostics :
        d.kind \in {"stale", "conflict"} => HasReconciliation(d.attempt)

(***************************************************************************)
(* The version stands for the whole check: a service call that still finds *)
(* the version it read holds the check as it is.                           *)
(***************************************************************************)
CallInv ==
    \A s \in Services : call[s] # None =>
        /\ call[s].read.version <= check.version
        /\ call[s].read.version = check.version => call[s].read = check
        /\ call[s].attempt \in 1 .. Latest(call[s].read)

ExecutionIInv ==
    /\ ExecutionTypeOK /\ Chain(check) /\ TaskInv /\ InboxInv /\ DiagnosticInv
    /\ CallInv /\ RunningIsDriven /\ ResultsAreAccounted /\ ProgressIsComplete
-------------------------------------------------------------------------------
(***************************************************************************)
(* Operators of the aggregate.                                             *)
(***************************************************************************)
LEMMA ResultKinds ==
    ASSUME NEW r \in Result
    PROVE  /\ r # None
           /\ IsFailure(r) => r \in Failure
           /\ ~IsFailure(r) => r \in Completion
           /\ FinalState(r) \in FinalStates
           /\ FinalState(r) = "completed" <=> ~IsFailure(r)
<1>1. r # None
  BY ExecutionConstants, Zenon
<1>2. IsFailure(r) => r \in Failure
  BY Zenon DEF Result, Completion, IsFailure
<1>3. ~IsFailure(r) => r \in Completion
  BY Zenon DEF Result, Failure, FailureClasses, IsFailure
<1>4. FinalState(r) \in FinalStates /\ (FinalState(r) = "completed" <=> ~IsFailure(r))
  BY Zenon DEF FinalState, FinalStates, IsFailure
<1> QED  BY <1>1, <1>2, <1>3, <1>4, Zenon

LEMMA NormaliseType ==
    ASSUME NEW r \in Result
    PROVE  Normalise(r) \in Result
<1>1. CASE RunnerKind = "provider" /\ IsFailure(r) /\ r.retry # "never"
  <2>1. r \in Failure
    BY <1>1, ResultKinds, Zenon
  <2>2. Clamp(r.after) \in Nat
    BY <2>1, ExecutionConstants, Zenon DEF Clamp, Failure
  <2>3. [r EXCEPT !.after = Clamp(r.after)] \in Failure
    BY <2>1, <2>2, Zenon DEF Failure
  <2> QED  BY <1>1, <2>3, Zenon DEF Normalise, Result
<1>2. CASE ~(RunnerKind = "provider" /\ IsFailure(r) /\ r.retry # "never")
  BY <1>2, Zenon DEF Normalise
<1> QED  BY <1>1, <1>2, Zenon

(***************************************************************************)
(* f is check c with attempt k ended by r, with a new attempt, or with one *)
(* more diagnostic.                                                        *)
(***************************************************************************)
Finished(f, c, k, r, at) ==
    /\ f \in Check
    /\ f.version = c.version + 1 /\ f.state = FinalState(r)
    /\ f.outcome = None <=> IsFailure(r)
    /\ f.diagnostics = c.diagnostics
    /\ Latest(f) = Latest(c)
    /\ \A j \in 1 .. Latest(c) : j # k => f.attempts[j] = c.attempts[j]
    /\ f.attempts[k].state = FinalState(r) /\ f.attempts[k].result = r
    /\ f.attempts[k].finishedAt = at
    /\ f.attempts[k].startedAt = c.attempts[k].startedAt
    /\ f.attempts[k].deadline = c.attempts[k].deadline

Begun(f, c, start, deadline) ==
    /\ f \in Check
    /\ f.version = c.version + 1 /\ f.state = "running" /\ f.outcome = None
    /\ f.diagnostics = c.diagnostics
    /\ Latest(f) = Latest(c) + 1
    /\ \A j \in 1 .. Latest(c) : f.attempts[j] = c.attempts[j]
    /\ f.attempts[Latest(c) + 1] =
         [state |-> "running", startedAt |-> start, deadline |-> deadline,
          finishedAt |-> None, result |-> None]

Recorded(f, c, k, kind, at) ==
    /\ f \in Check
    /\ f.version = c.version + 1 /\ f.state = c.state /\ f.outcome = c.outcome
    /\ f.attempts = c.attempts
    /\ f.diagnostics = c.diagnostics \cup {[attempt |-> k, kind |-> kind, at |-> at]}

LEMMA FinishFields ==
    ASSUME NEW c \in Check, NEW k \in 1 .. Latest(c), NEW r \in Result, NEW at \in Nat
    PROVE  Finished(FinishAttempt(c, k, r, at), c, k, r, at)
<1> DEFINE f == FinishAttempt(c, k, r, at)
<1> DEFINE a == [c.attempts[k] EXCEPT !.state = FinalState(r), !.finishedAt = at, !.result = r]
<1> DEFINE o == IF IsFailure(r) THEN None ELSE aggregateOutcome(r.signals)
<1> DEFINE attempts == [c.attempts EXCEPT ![k] = a]
<1>1. c.attempts \in Seq(Attempt) /\ c.version \in Nat /\ c.diagnostics \in SUBSET Diagnostic
  BY Zenon DEF Check
<1>2. c.attempts[k] \in Attempt
  BY <1>1 DEF Latest
<1>3. /\ a \in Attempt /\ a.state = FinalState(r) /\ a.result = r /\ a.finishedAt = at
      /\ a.startedAt = c.attempts[k].startedAt /\ a.deadline = c.attempts[k].deadline
  BY <1>2, ResultKinds, Zenon DEF Attempt
<1>4. /\ attempts \in Seq(Attempt) /\ Len(attempts) = Len(c.attempts)
      /\ attempts[k] = a /\ \A j \in 1 .. Len(c.attempts) : j # k => attempts[j] = c.attempts[j]
  BY <1>1, <1>3 DEF Latest
<1>5. o \in {"passed", "not_passed", "inconclusive", None} /\ (o = None <=> IsFailure(r))
  BY ExecutionConstants, Zenon DEF aggregateOutcome
<1>6. f = [c EXCEPT !.attempts = attempts, !.state = FinalState(r), !.outcome = o,
                    !.updatedAt = at, !.version = c.version + 1]
  BY Zenon DEF FinishAttempt
<1>7. /\ f.attempts = attempts /\ f.state = FinalState(r) /\ f.outcome = o
      /\ f.version = c.version + 1 /\ f.diagnostics = c.diagnostics
  BY <1>6, Zenon DEF Check
<1>8. f \in Check
  <2>1. FinalState(r) \in FinalStates /\ c.version + 1 \in Nat
    BY <1>1, ResultKinds
  <2> HIDE DEF attempts, o
  <2> QED  BY <1>4, <1>5, <1>6, <2>1, Zenon DEF Check
<1> HIDE DEF a, o, attempts, f
<1>9. Finished(f, c, k, r, at)
  BY <1>3, <1>4, <1>5, <1>7, <1>8, Zenon DEF Latest, Finished
<1> QED  BY <1>9, Zenon DEF f

LEMMA BeginFields ==
    ASSUME NEW c \in Check, NEW start \in Nat, NEW deadline \in Nat
    PROVE  Begun(BeginAttempt(c, start, deadline), c, start, deadline)
<1> DEFINE f == BeginAttempt(c, start, deadline)
<1> DEFINE a == [state |-> "running", startedAt |-> start, deadline |-> deadline,
                 finishedAt |-> None, result |-> None]
<1> DEFINE attempts == Append(c.attempts, a)
<1>1. c.attempts \in Seq(Attempt) /\ c.version \in Nat /\ c.diagnostics \in SUBSET Diagnostic
  BY Zenon DEF Check
<1>2. a \in Attempt
  BY Zenon DEF Attempt
<1>3. /\ attempts \in Seq(Attempt) /\ Len(attempts) = Len(c.attempts) + 1
      /\ attempts[Len(c.attempts) + 1] = a
      /\ \A j \in 1 .. Len(c.attempts) : attempts[j] = c.attempts[j]
  BY <1>1, <1>2
<1>4. f = [c EXCEPT !.attempts = attempts, !.state = "running", !.outcome = None,
                    !.updatedAt = start, !.version = c.version + 1]
  BY Zenon DEF BeginAttempt
<1>5. /\ f.attempts = attempts /\ f.state = "running" /\ f.outcome = None
      /\ f.version = c.version + 1 /\ f.diagnostics = c.diagnostics
  BY <1>4, Zenon DEF Check
<1>6. f \in Check
  <2>1. c.version + 1 \in Nat
    BY <1>1
  <2> HIDE DEF attempts
  <2> QED  BY <1>3, <1>4, <2>1, Zenon DEF Check
<1> HIDE DEF attempts, f
<1>7. Begun(f, c, start, deadline)
  BY <1>3, <1>5, <1>6, Zenon DEF Latest, Begun
<1> QED  BY <1>7, Zenon DEF f

LEMMA RecordFields ==
    ASSUME NEW c \in Check, NEW k \in Nat, NEW kind \in {"stale", "conflict", "duplicate"},
           NEW at \in Nat
    PROVE  Recorded(RecordDiagnostic(c, k, kind, at), c, k, kind, at)
<1> DEFINE f == RecordDiagnostic(c, k, kind, at)
<1> DEFINE ds == c.diagnostics \cup {[attempt |-> k, kind |-> kind, at |-> at]}
<1>1. c.version + 1 \in Nat /\ ds \in SUBSET Diagnostic
  BY DEF Check, Diagnostic
<1>2. f = [c EXCEPT !.diagnostics = ds, !.updatedAt = at, !.version = c.version + 1]
  BY Zenon DEF RecordDiagnostic
<1>3. /\ f.version = c.version + 1 /\ f.state = c.state /\ f.outcome = c.outcome
      /\ f.attempts = c.attempts /\ f.diagnostics = ds
  BY <1>2, Zenon DEF Check
<1>4. f \in Check
  <2> HIDE DEF ds
  <2> QED  BY <1>1, <1>2, Zenon DEF Check
<1> HIDE DEF f
<1>5. Recorded(f, c, k, kind, at)
  BY <1>3, <1>4, Zenon DEF Recorded
<1> QED  BY <1>5, Zenon DEF f
-------------------------------------------------------------------------------
(***************************************************************************)
(* What the aggregate's operations do to a chain of attempts.              *)
(***************************************************************************)
LEMMA LatestIsAttempt ==
    ASSUME NEW c \in Check, Chain(c)
    PROVE  /\ Latest(c) \in Nat /\ Latest(c) >= 1 /\ Latest(c) \in 1 .. Latest(c)
           /\ c.attempts \in Seq(Attempt)
           /\ \A k \in 1 .. Latest(c) : c.attempts[k] \in Attempt
<1>1. c.attempts \in Seq(Attempt) /\ Latest(c) \in 1 .. MaxSemantic
  BY Zenon DEF Check, Chain, Numbers
<1> QED  BY <1>1, ExecutionConstants DEF Latest

LEMMA FinishChain ==
    ASSUME NEW c \in Check, Chain(c), c.state = "running", NEW r \in Result, NEW at \in Nat,
           NEW f, Finished(f, c, Latest(c), r, at)
    PROVE  Chain(f)
<1> DEFINE n == Latest(c)
<1>1. n \in Nat /\ n >= 1 /\ n \in 1 .. n
  BY LatestIsAttempt, Zenon
<1>2. /\ f.state = FinalState(r) /\ (f.outcome = None <=> IsFailure(r)) /\ Latest(f) = n
      /\ \A j \in 1 .. n : j # n => f.attempts[j] = c.attempts[j]
      /\ f.attempts[n].state = FinalState(r) /\ f.attempts[n].result = r
      /\ f.attempts[n].startedAt = c.attempts[n].startedAt
      /\ f.attempts[n].deadline = c.attempts[n].deadline
  BY Zenon DEF Finished
<1>3. r # None /\ FinalState(r) \in FinalStates /\ (FinalState(r) = "completed" <=> ~IsFailure(r))
  BY ResultKinds, Zenon
<1>4. FinalState(r) # "running"
  BY <1>3, Zenon DEF FinalStates
<1> HIDE DEF n
<1>5. ASSUME NEW k \in 1 .. n
      PROVE  /\ f.attempts[k].startedAt < f.attempts[k].deadline
             /\ f.attempts[k].deadline <= ExpiresAt
             /\ f.attempts[k].state # "running" <=> f.attempts[k].result # None
  <2>1. CASE k = n
    BY <1>1, <1>2, <1>3, <1>4, <2>1, Zenon DEF Chain, n
  <2>2. CASE k # n
    BY <1>1, <1>2, <2>2, Zenon DEF Chain, n
  <2> QED  BY <2>1, <2>2, Zenon
<1>6. ASSUME NEW k \in 1 .. n, k < n
      PROVE  /\ f.attempts[k].state \in {"failed", "timed_out"}
             /\ f.attempts[k].result.retry # "never"
             /\ f.attempts[k].finishedAt <= f.attempts[k + 1].startedAt
  <2>1. f.attempts[k] = c.attempts[k] /\ k + 1 \in 1 .. n
    BY <1>1, <1>2, <1>6
  <2>2. f.attempts[k + 1].startedAt = c.attempts[k + 1].startedAt
    BY <1>2, <2>1, Zenon
  <2> QED  BY <1>6, <2>1, <2>2, Zenon DEF Chain, n
<1>7. Latest(f) \in Numbers
  BY <1>2, Zenon DEF Chain, n
<1> QED  BY <1>2, <1>3, <1>4, <1>5, <1>6, <1>7, Zenon DEF Chain

SkippedAs(g, f) ==
    /\ g \in Check /\ Chain(g)
    /\ g.version = f.version /\ g.state = "skipped_by_policy"
    /\ g.attempts = f.attempts /\ g.diagnostics = f.diagnostics

LEMMA SkipFields ==
    ASSUME NEW c \in Check, Chain(c), c.state = "running", NEW at \in Nat,
           NEW f, f = FinishAttempt(c, Latest(c), Cancellation("route_not_selected"), at)
    PROVE  Finished(f, c, Latest(c), Cancellation("route_not_selected"), at)
           /\ SkippedAs(SkipRunning(c, at), f)
<1> DEFINE g == [f EXCEPT !.state = "skipped_by_policy"]
<1> DEFINE r == Cancellation("route_not_selected")
<1>1. r \in Result /\ IsFailure(r)
  BY Zenon DEF Cancellation, Result, Failure, FailureClasses, IsFailure
<1>2. Finished(f, c, Latest(c), r, at)
  BY <1>1, FinishFields, LatestIsAttempt, Zenon
<1>3. /\ f \in Check /\ f.outcome = None
      /\ Chain(f) /\ f.state \in FinalStates
  <2> HIDE DEF r
  <2> QED  BY <1>1, <1>2, FinishChain, ResultKinds, ZenonT(30) DEF Finished
<1>4. g \in Check
  BY <1>3, Zenon DEF Check
<1>5. /\ g.version = f.version /\ g.state = "skipped_by_policy" /\ g.outcome = f.outcome
      /\ g.attempts = f.attempts /\ g.diagnostics = f.diagnostics
  BY <1>3, Zenon DEF Check
<1>6. Chain(g)
  <2> HIDE DEF g
  <2> QED  BY <1>3, <1>5 DEF Chain, Latest, FinalStates
<1>7. SkipRunning(c, at) = g
  BY Zenon DEF SkipRunning
<1>8. SkippedAs(g, f)
  <2> HIDE DEF g
  <2> QED  BY <1>4, <1>5, <1>6, Zenon DEF SkippedAs
<1> QED  BY <1>2, <1>7, <1>8, Zenon

LEMMA RetryChain ==
    ASSUME NEW c \in Check, Chain(c), NEW start \in Nat, NEW deadline \in Nat,
           Latest(c) < MaxSemantic, c.state \in {"failed", "timed_out"},
           c.attempts[Latest(c)].result.retry # "never",
           c.attempts[Latest(c)].finishedAt <= start, start < deadline, deadline <= ExpiresAt,
           NEW f, Begun(f, c, start, deadline)
    PROVE  Chain(f)
<1> DEFINE n == Latest(c)
<1>1. n \in Nat /\ n >= 1 /\ n \in 1 .. n
  BY LatestIsAttempt, Zenon
<1>2. /\ f.state = "running" /\ f.outcome = None /\ Latest(f) = n + 1
      /\ \A j \in 1 .. n : f.attempts[j] = c.attempts[j]
      /\ f.attempts[n + 1] = [state |-> "running", startedAt |-> start, deadline |-> deadline,
                              finishedAt |-> None, result |-> None]
  BY Zenon DEF Begun
<1>3. c.attempts[n].state \in {"failed", "timed_out"}
  BY Zenon DEF Chain
<1> HIDE DEF n
<1>4. ASSUME NEW k \in 1 .. n + 1
      PROVE  /\ f.attempts[k].startedAt < f.attempts[k].deadline
             /\ f.attempts[k].deadline <= ExpiresAt
             /\ f.attempts[k].state # "running" <=> f.attempts[k].result # None
  <2>1. CASE k = n + 1
    BY <1>2, <2>1
  <2>2. CASE k \in 1 .. n
    BY <1>2, <2>2, Zenon DEF Chain, n
  <2> QED  BY <1>1, <2>1, <2>2
<1>5. ASSUME NEW k \in 1 .. n + 1, k < n + 1
      PROVE  /\ f.attempts[k].state \in {"failed", "timed_out"}
             /\ f.attempts[k].result.retry # "never"
             /\ f.attempts[k].finishedAt <= f.attempts[k + 1].startedAt
  <2>1. k \in 1 .. n /\ f.attempts[k] = c.attempts[k]
    BY <1>1, <1>2, <1>5
  <2>2. CASE k = n
    BY <1>2, <1>3, <2>1, <2>2 DEF n
  <2>3. CASE k < n
    <3>1. f.attempts[k + 1] = c.attempts[k + 1]
      BY <1>1, <1>2, <2>3
    <3> QED  BY <2>1, <2>3, <3>1, Zenon DEF Chain, n
  <2> QED  BY <1>1, <2>1, <2>2, <2>3
<1>6. Latest(f) \in Numbers
  BY <1>1, <1>2, ExecutionConstants DEF n, Numbers
<1>7. f.attempts[Latest(f)].state = "running"
  BY <1>2
<1> QED  BY <1>2, <1>4, <1>5, <1>6, <1>7, Zenon DEF Chain

LEMMA RecordChain ==
    ASSUME NEW c \in Check, Chain(c), NEW f, f.state = c.state, f.outcome = c.outcome,
           f.attempts = c.attempts
    PROVE  Chain(f)
  BY Zenon DEF Chain, Latest
-------------------------------------------------------------------------------
(***************************************************************************)
(* A save that only adds: finished attempts and diagnostics stay.          *)
(***************************************************************************)
Grows(c) ==
    /\ c \in Check /\ Chain(c) /\ c.version > check.version
    /\ Latest(c) >= Latest(check)
    /\ \A j \in 1 .. Latest(check) : At(j).state # "running" => c.attempts[j] = At(j)
    /\ check.diagnostics \subseteq c.diagnostics

(***************************************************************************)
(* Attempt k of c ended with the result of this receipt.                   *)
(***************************************************************************)
Explains(c, r) ==
    /\ c.attempts[r.attempt].result # None
    /\ Digest(Normalise(r.result), r.at)
         = Digest(c.attempts[r.attempt].result, c.attempts[r.attempt].finishedAt)

FromRunner(c, k) ==
    /\ c.attempts[k].state # "running"
    /\ IsFailure(c.attempts[k].result) => c.attempts[k].result.code = "runner"

ReceiptOf(r, c, k) ==
    /\ r.attempt = k /\ r.at = c.attempts[k].finishedAt
    /\ Normalise(r.result) = c.attempts[k].result

Diagnosed(c, k) == \E d \in c.diagnostics : d.attempt = k /\ d.kind \in {"stale", "conflict"}

(***************************************************************************)
(* What a save owes the inbox: its receipts belong to ended attempts and   *)
(* are explained or diagnosed, and an attempt it ends for a runner has its *)
(* receipt among them.                                                     *)
(***************************************************************************)
Owes(c, receipts) ==
    /\ receipts \subseteq [attempt : Nat, result : Results, at : Nat]
    /\ \A r \in receipts :
         /\ r.attempt \in 1 .. Latest(c) /\ c.attempts[r.attempt].state # "running"
         /\ Explains(c, r) \/ Diagnosed(c, r.attempt)
    /\ \A k \in 1 .. Latest(c) : FromRunner(c, k) =>
         \/ k \in 1 .. Latest(check) /\ At(k).state # "running"
         \/ \E r \in receipts : ReceiptOf(r, c, k)

LEMMA SaveReconciles ==
    ASSUME ExecutionIInv, NEW c, Grows(c), NEW receipts, saveCheck(c, receipts)
    PROVE  /\ reconciliations \subseteq reconciliations'
           /\ reconciliations' \subseteq Nat \X {"stale", "conflict"}
           /\ DiagnosticInv'
           /\ \A k : Diagnosed(c, k) =>
                \E reason \in {"stale", "conflict"} : <<k, reason>> \in reconciliations'
<1> DEFINE New == {d \in c.diagnostics \ check.diagnostics :
                     d.kind \in {"stale", "conflict"} /\ ~HasReconciliation(d.attempt)}
<1>1. /\ reconciliations' = reconciliations \cup {<<d.attempt, d.kind>> : d \in New}
      /\ check' = c
  BY Zenon DEF saveCheck, NewReconciliations
<1>2. c.diagnostics \subseteq Diagnostic
  BY Zenon DEF Grows, Check
<1>3. \A d \in New : <<d.attempt, d.kind>> \in Nat \X {"stale", "conflict"}
  BY <1>2, Zenon DEF Diagnostic
<1>4. reconciliations' \subseteq Nat \X {"stale", "conflict"}
  <2> HIDE DEF New
  <2> QED  BY <1>1, <1>3 DEF ExecutionIInv, ExecutionTypeOK
<1>5. ASSUME NEW d \in c.diagnostics, d.kind \in {"stale", "conflict"}
      PROVE  \E reason \in {"stale", "conflict"} : <<d.attempt, reason>> \in reconciliations'
  <2>1. CASE HasReconciliation(d.attempt)
    <3>1. PICK x \in reconciliations : x[1] = d.attempt
      BY <2>1, Zenon DEF HasReconciliation
    <3>2. x \in Nat \X {"stale", "conflict"}
      BY Zenon DEF ExecutionIInv, ExecutionTypeOK
    <3>3. x = <<d.attempt, x[2]>> /\ x[2] \in {"stale", "conflict"}
      BY <3>1, <3>2
    <3>4. x \in reconciliations'
      BY <1>1, Zenon
    <3> QED  BY <3>3, <3>4, Zenon
  <2>2. CASE ~HasReconciliation(d.attempt)
    <3>1. d \in New
      BY <1>5, <2>2, Zenon DEF ExecutionIInv, DiagnosticInv
    <3> HIDE DEF New
    <3>2. <<d.attempt, d.kind>> \in reconciliations'
      BY <1>1, <3>1, Zenon
    <3> QED  BY <1>5, <3>2, Zenon
  <2> QED  BY <2>1, <2>2, Zenon
<1>6. DiagnosticInv'
  <2> SUFFICES ASSUME NEW d \in c.diagnostics, d.kind \in {"stale", "conflict"}
               PROVE  \E x \in reconciliations' : x[1] = d.attempt
    BY <1>1, Zenon DEF DiagnosticInv, HasReconciliation
  <2>1. PICK reason \in {"stale", "conflict"} : <<d.attempt, reason>> \in reconciliations'
    BY <1>5, Zenon
  <2> QED  BY <2>1, Zenon
<1>7. \A k : Diagnosed(c, k) =>
        \E reason \in {"stale", "conflict"} : <<k, reason>> \in reconciliations'
  BY <1>5, Zenon DEF Diagnosed
<1>8. reconciliations \subseteq reconciliations'
  <2> HIDE DEF New
  <2> QED  BY <1>1, Zenon
<1> QED  BY <1>4, <1>6, <1>7, <1>8, Zenon

LEMMA SaveProgresses ==
    ASSUME ExecutionIInv, NEW c, Grows(c), NEW receipts, saveCheck(c, receipts)
    PROVE  /\ ProgressIsComplete'
           /\ outbox' \in Seq([version : Nat, state : FinalStates \cup {"running", "skipped_by_policy"}])
           /\ Len(outbox') > 0
<1> DEFINE Rows == [version : Nat, state : FinalStates \cup {"running", "skipped_by_policy"}]
<1>1. outbox' = Append(outbox, Progress(c)) /\ check' = c
  BY Zenon DEF saveCheck
<1>2. outbox \in Seq(Rows) /\ Len(outbox) > 0
  BY Zenon DEF ExecutionIInv, ExecutionTypeOK
<1>3. Progress(c) \in Rows /\ Progress(c).version > check.version
  BY Zenon DEF Grows, Check, Progress
<1>4. outbox[Len(outbox)].version = check.version
  BY DEF ExecutionIInv, ProgressIsComplete, Progress
<1>5. \A i \in 1 .. Len(outbox) - 1 : outbox[i].version < outbox[i + 1].version
  BY Zenon DEF ExecutionIInv, ProgressIsComplete
<1>6. Progress(c)' = Progress(check)' /\ Progress(check)' = Progress(c)
  BY <1>1, Zenon DEF Progress
<1> HIDE DEF Rows
<1>7. /\ outbox' \in Seq(Rows) /\ Len(outbox') = Len(outbox) + 1
      /\ outbox'[Len(outbox) + 1] = Progress(c)
      /\ \A i \in 1 .. Len(outbox) : outbox'[i] = outbox[i]
  BY <1>1, <1>2, <1>3
<1>8. ASSUME NEW i \in 1 .. Len(outbox') - 1  PROVE outbox'[i].version < outbox'[i + 1].version
  <2>1. CASE i = Len(outbox)
    BY <1>2, <1>3, <1>4, <1>7, <2>1
  <2>2. CASE i \in 1 .. Len(outbox) - 1
    BY <1>2, <1>5, <1>7, <2>2
  <2> QED  BY <1>2, <1>7, <2>1, <2>2
<1>9. outbox'[Len(outbox')] = Progress(check)'
  BY <1>2, <1>6, <1>7, Zenon
<1>10. ProgressIsComplete'
  BY <1>8, <1>9, Zenon DEF ProgressIsComplete
<1> QED  BY <1>2, <1>7, <1>10 DEF Rows

LEMMA SaveAccounts ==
    ASSUME ExecutionIInv, NEW c, Grows(c), NEW receipts, saveCheck(c, receipts),
           Owes(c, receipts)
    PROVE  /\ inbox' \subseteq [attempt : Nat, result : Results, at : Nat]
           /\ InboxInv' /\ ResultsAreAccounted'
<1>1. check' = c /\ inbox' = inbox \cup receipts
  BY Zenon DEF saveCheck
<1>2. \A r \in inbox : r.attempt \in 1 .. Latest(check) /\ At(r.attempt).state # "running"
  BY Zenon DEF ExecutionIInv, InboxInv
<1>3. /\ Latest(check) \in Nat /\ Latest(c) \in Nat /\ Latest(c) >= Latest(check)
      /\ \A j \in 1 .. Latest(check) : At(j).state # "running" => c.attempts[j] = At(j)
  BY LatestIsAttempt, Zenon DEF ExecutionIInv, ExecutionTypeOK, Grows
<1>4. inbox' \subseteq [attempt : Nat, result : Results, at : Nat]
  BY <1>1, Zenon DEF Owes, ExecutionIInv, ExecutionTypeOK
<1>5. InboxInv'
  <2> SUFFICES ASSUME NEW r \in inbox'
               PROVE  r.attempt \in 1 .. Latest(c) /\ c.attempts[r.attempt].state # "running"
    BY <1>1, Zenon DEF InboxInv, At
  <2>1. CASE r \in inbox
    BY <1>2, <1>3, <2>1
  <2>2. CASE r \in receipts
    BY <2>2, Zenon DEF Owes
  <2> QED  BY <1>1, <2>1, <2>2, Zenon
<1>6. ASSUME NEW r \in inbox'
      PROVE  \/ Explains(c, r)
             \/ \E reason \in {"stale", "conflict"} : <<r.attempt, reason>> \in reconciliations'
  <2>1. CASE r \in inbox
    <3>1. \/ Explains(check, r)
          \/ \E reason \in {"stale", "conflict"} : <<r.attempt, reason>> \in reconciliations
      BY <2>1, Zenon DEF ExecutionIInv, ResultsAreAccounted, Explains, At
    <3>2. c.attempts[r.attempt] = check.attempts[r.attempt]
      BY <1>2, <1>3, <2>1, Zenon DEF At
    <3>3. Explains(check, r) => Explains(c, r)
      BY <3>2, Zenon DEF Explains
    <3> QED  BY <3>1, <3>3, SaveReconciles, Zenon
  <2>2. CASE r \in receipts
    BY <2>2, SaveReconciles, Zenon DEF Owes
  <2> QED  BY <1>1, <2>1, <2>2, Zenon
<1>7. ASSUME NEW k \in 1 .. Latest(c), FromRunner(c, k)
      PROVE  \E r \in inbox' : ReceiptOf(r, c, k)
  <2>1. CASE k \in 1 .. Latest(check) /\ At(k).state # "running"
    <3>1. c.attempts[k] = check.attempts[k]
      BY <1>3, <2>1, Zenon DEF At
    <3>2. FromRunner(check, k)
      BY <1>7, <3>1, Zenon DEF FromRunner
    <3>3. PICK r \in inbox : ReceiptOf(r, check, k)
      BY <2>1, <3>2, Zenon DEF ExecutionIInv, ResultsAreAccounted, FromRunner, ReceiptOf, At
    <3>4. ReceiptOf(r, c, k)
      BY <3>1, <3>3, Zenon DEF ReceiptOf
    <3> QED  BY <1>1, <3>4, Zenon
  <2>2. CASE \E r \in receipts : ReceiptOf(r, c, k)
    BY <1>1, <2>2, Zenon
  <2> QED  BY <1>7, <2>1, <2>2, Zenon DEF Owes
<1>8. ResultsAreAccounted'
  <2>1. \A r \in inbox' :
          \/ /\ At(r.attempt)'.result # None
             /\ Digest(Normalise(r.result), r.at)
                  = Digest(At(r.attempt)'.result, At(r.attempt)'.finishedAt)
          \/ \E reason \in {"stale", "conflict"} : <<r.attempt, reason>> \in reconciliations'
    BY <1>1, <1>6, Zenon DEF Explains, At
  <2>2. \A k \in 1 .. Latest(c) :
          At(k)'.state # "running" /\ (IsFailure(At(k)'.result) => At(k)'.result.code = "runner")
            => \E r \in inbox' : /\ r.attempt = k /\ r.at = At(k)'.finishedAt
                                 /\ Normalise(r.result) = At(k)'.result
    BY <1>1, <1>7, Zenon DEF FromRunner, ReceiptOf, At
  <2> QED  BY <1>1, <2>1, <2>2, Zenon DEF ResultsAreAccounted
<1> QED  BY <1>4, <1>5, <1>8, Zenon
-------------------------------------------------------------------------------
(***************************************************************************)
(* The saves of the handlers, one kind at a time.                          *)
(***************************************************************************)
LEMMA StoredChain ==
    ASSUME ExecutionIInv
    PROVE  /\ check \in Check /\ Chain(check)
           /\ Latest(check) \in Nat /\ Latest(check) >= 1
           /\ Latest(check) \in 1 .. Latest(check)
           /\ check.version \in Nat
           /\ \A k \in 1 .. Latest(check) : At(k) \in Attempt
           /\ \A k \in 1 .. Latest(check) : k # Latest(check) => At(k).state # "running"
           /\ check.state = "running" <=> At(Latest(check)).state = "running"
           /\ \A k \in 1 .. Latest(check) : At(k).state # "running" <=> At(k).result # None
<1>1. check \in Check /\ Chain(check)
  BY Zenon DEF ExecutionIInv, ExecutionTypeOK
<1>2. /\ Latest(check) \in Nat /\ Latest(check) >= 1
      /\ Latest(check) \in 1 .. Latest(check)
      /\ \A k \in 1 .. Latest(check) : At(k) \in Attempt
  BY <1>1, LatestIsAttempt, Zenon DEF At
<1>3. check.version \in Nat
  BY <1>1, Zenon DEF Check
<1>4. \A k \in 1 .. Latest(check) : k # Latest(check) => At(k).state # "running"
  BY <1>1, <1>2 DEF Chain, At
<1> QED  BY <1>1, <1>2, <1>3, <1>4, Zenon DEF Chain, At

LEMMA FinishGrows ==
    ASSUME ExecutionIInv, check.state = "running", NEW r \in Result, NEW at \in Nat,
           NEW f, Finished(f, check, Latest(check), r, at)
    PROVE  Grows(f)
<1>1. Chain(f)
  BY StoredChain, FinishChain, Zenon
<1>2. /\ f \in Check /\ f.version > check.version /\ Latest(f) >= Latest(check)
      /\ check.diagnostics \subseteq f.diagnostics
  BY StoredChain DEF Finished
<1>3. \A j \in 1 .. Latest(check) : At(j).state # "running" => f.attempts[j] = At(j)
  BY StoredChain, Zenon DEF Finished, At
<1> QED  BY <1>1, <1>2, <1>3, Zenon DEF Grows

LEMMA FinishOwes ==
    ASSUME ExecutionIInv, NEW r \in Results, NEW at \in Nat,
           NEW f, Finished(f, check, Latest(check), Normalise(r), at),
           NEW receipt, receipt = [attempt |-> Latest(check), result |-> r, at |-> at]
    PROVE  Owes(f, {receipt})
<1> DEFINE n == Latest(check)
<1>1. receipt.attempt = n /\ receipt.result = r /\ receipt.at = at
  BY Zenon
<1>2. {receipt} \subseteq [attempt : Nat, result : Results, at : Nat]
  BY StoredChain
<1>3. Normalise(r) \in Result
  BY NormaliseType, ExecutionConstants, Zenon
<1>4. /\ f.attempts[n].state # "running" /\ f.attempts[n].result = Normalise(r)
      /\ f.attempts[n].result # None /\ f.attempts[n].finishedAt = at /\ Latest(f) = n
  BY <1>3, ResultKinds, Zenon DEF Finished, FinalStates
<1>5. Explains(f, receipt) /\ ReceiptOf(receipt, f, n)
  BY <1>1, <1>4, Zenon DEF Explains, ReceiptOf
<1>6. \A k \in 1 .. n : k # n => At(k).state # "running"
  BY StoredChain, Zenon
<1>7. n \in 1 .. n
  BY StoredChain, Zenon
<1> HIDE DEF n
<1>8. /\ receipt.attempt \in 1 .. Latest(f) /\ f.attempts[receipt.attempt].state # "running"
      /\ Explains(f, receipt)
  BY <1>1, <1>4, <1>5, <1>7, Zenon
<1>9. \A k \in 1 .. Latest(f) :
        (k \in 1 .. Latest(check) /\ At(k).state # "running") \/ ReceiptOf(receipt, f, k)
  BY <1>4, <1>5, <1>6, Zenon DEF n
<1> QED  BY <1>2, <1>8, <1>9, Zenon DEF Owes

LEMMA CancelOwes ==
    ASSUME ExecutionIInv, NEW code \in {"route_not_selected", "verification_cancelled"},
           NEW at \in Nat, NEW f, Finished(f, check, Latest(check), Cancellation(code), at)
    PROVE  Owes(f, {})
<1> DEFINE n == Latest(check)
<1>1. IsFailure(Cancellation(code)) /\ Cancellation(code).code # "runner"
  BY Zenon DEF Cancellation, IsFailure
<1>2. Latest(f) = n /\ ~FromRunner(f, n)
  BY <1>1, Zenon DEF Finished, FromRunner
<1>3. \A k \in 1 .. n : k # n => At(k).state # "running"
  BY StoredChain, Zenon
<1> QED  BY <1>2, <1>3, Zenon DEF Owes

LEMMA SuccessorSaves ==
    ASSUME ExecutionIInv, NEW f, Grows(f), NEW receipts, Owes(f, receipts),
           NEW start \in Nat, NEW deadline \in Nat,
           NEW g, Begun(g, f, start, deadline), Chain(g)
    PROVE  Grows(g) /\ Owes(g, receipts)
<1> DEFINE n == Latest(f)
<1>1. f \in Check /\ Chain(f) /\ f.version \in Nat /\ check.version \in Nat
  BY StoredChain, Zenon DEF Grows, Check
<1>2. n \in Nat /\ n >= Latest(check) /\ Latest(check) \in Nat
  BY <1>1, LatestIsAttempt, StoredChain, Zenon DEF Grows
<1>3. /\ g \in Check /\ g.version = f.version + 1 /\ g.diagnostics = f.diagnostics
      /\ Latest(g) = n + 1 /\ \A j \in 1 .. n : g.attempts[j] = f.attempts[j]
      /\ g.attempts[n + 1].state = "running"
  BY SMTT(20) DEF Begun
<1> HIDE DEF n
<1>4. g.version > check.version
  BY <1>1, <1>3 DEF Grows
<1>5. \A j \in 1 .. Latest(check) : At(j).state # "running" => g.attempts[j] = At(j)
  BY <1>2, <1>3 DEF Grows
<1>6. Grows(g)
  BY <1>2, <1>3, <1>4, <1>5 DEF Grows
<1>7. \A r \in receipts :
         /\ r.attempt \in 1 .. Latest(g) /\ g.attempts[r.attempt].state # "running"
         /\ Explains(g, r) \/ Diagnosed(g, r.attempt)
  <2> SUFFICES ASSUME NEW r \in receipts
               PROVE  /\ r.attempt \in 1 .. Latest(g)
                      /\ g.attempts[r.attempt].state # "running"
                      /\ Explains(g, r) \/ Diagnosed(g, r.attempt)
    BY Zenon
  <2>1. /\ r.attempt \in 1 .. n /\ f.attempts[r.attempt].state # "running"
        /\ Explains(f, r) \/ Diagnosed(f, r.attempt)
    BY Zenon DEF Owes, n
  <2>2. g.attempts[r.attempt] = f.attempts[r.attempt] /\ r.attempt \in 1 .. Latest(g)
    BY <1>2, <1>3, <2>1
  <2>3. Explains(f, r) => Explains(g, r)
    BY <2>2, Zenon DEF Explains
  <2>4. Diagnosed(f, r.attempt) => Diagnosed(g, r.attempt)
    BY <1>3, Zenon DEF Diagnosed
  <2> QED  BY <2>1, <2>2, <2>3, <2>4, Zenon
<1>8. ASSUME NEW k \in 1 .. Latest(g), FromRunner(g, k)
      PROVE  \/ k \in 1 .. Latest(check) /\ At(k).state # "running"
             \/ \E r \in receipts : ReceiptOf(r, g, k)
  <2>1. k # n + 1
    BY <1>3, <1>8, Zenon DEF FromRunner
  <2>2. k \in 1 .. n /\ g.attempts[k] = f.attempts[k]
    BY <1>2, <1>3, <2>1
  <2>3. FromRunner(f, k) /\ \A r \in receipts : ReceiptOf(r, f, k) => ReceiptOf(r, g, k)
    BY <1>8, <2>2, Zenon DEF FromRunner, ReceiptOf
  <2> QED  BY <2>2, <2>3, Zenon DEF Owes, n
<1>9. receipts \subseteq [attempt : Nat, result : Results, at : Nat]
  BY Zenon DEF Owes
<1> QED  BY <1>6, <1>7, <1>8, <1>9, Zenon DEF Owes

LEMMA RecordSaves ==
    ASSUME ExecutionIInv, NEW k \in 1 .. Latest(check), NEW r \in Results, NEW at \in Nat,
           Disposition(check, k) # "apply",
           NEW kind, kind = DeliveryKind(check, k, Normalise(r), at),
           NEW f, Recorded(f, check, k, kind, at),
           NEW receipt, receipt = [attempt |-> k, result |-> r, at |-> at]
    PROVE  Grows(f) /\ Owes(f, {receipt})
<1> DEFINE d == [attempt |-> k, kind |-> kind, at |-> at]
<1>1. /\ f \in Check /\ f.version = check.version + 1 /\ f.attempts = check.attempts
      /\ f.state = check.state /\ f.outcome = check.outcome
      /\ f.diagnostics = check.diagnostics \cup {d}
  BY Zenon DEF Recorded
<1>2. Chain(f)
  BY <1>1, StoredChain, RecordChain, Zenon
<1>3. Grows(f)
  BY <1>1, <1>2, StoredChain DEF Grows, Latest, At
<1>4. At(k).state # "running" /\ At(k).result # None
  BY StoredChain, Zenon DEF Disposition
<1>5. receipt.attempt = k /\ receipt.result = r /\ receipt.at = at
  BY Zenon
<1>6. Explains(f, receipt) \/ Diagnosed(f, k)
  <2>1. CASE kind \in {"stale", "conflict"}
    <3>1. d \in f.diagnostics /\ d.attempt = k /\ d.kind = kind
      BY <1>1, Zenon
    <3> QED  BY <2>1, <3>1, Zenon DEF Diagnosed
  <2>2. CASE kind \notin {"stale", "conflict"}
    <3>1. /\ Disposition(check, k) = "duplicate"
          /\ Digest(check.attempts[k].result, check.attempts[k].finishedAt)
               = Digest(Normalise(r), at)
      BY <2>2, Zenon DEF DeliveryKind, Disposition
    <3>2. Digest(Normalise(receipt.result), receipt.at)
            = Digest(f.attempts[receipt.attempt].result, f.attempts[receipt.attempt].finishedAt)
      BY <1>1, <1>5, <3>1, Zenon
    <3>3. f.attempts[receipt.attempt].result # None
      BY <1>1, <1>4, <1>5, Zenon DEF At
    <3> QED  BY <3>2, <3>3, Zenon DEF Explains
  <2> QED  BY <2>1, <2>2, Zenon
<1>7. {receipt} \subseteq [attempt : Nat, result : Results, at : Nat]
  BY StoredChain
<1>8. \A j \in 1 .. Latest(f) : FromRunner(f, j) =>
        j \in 1 .. Latest(check) /\ At(j).state # "running"
  BY <1>1, Zenon DEF FromRunner, At, Latest
<1>9. /\ receipt.attempt \in 1 .. Latest(f) /\ f.attempts[receipt.attempt].state # "running"
      /\ Explains(f, receipt) \/ Diagnosed(f, receipt.attempt)
  BY <1>1, <1>4, <1>5, <1>6, Zenon DEF Latest, At
<1> QED  BY <1>3, <1>7, <1>8, <1>9, Zenon DEF Owes

(***************************************************************************)
(* ApplyResult on the stored check, from a worker or from a service.       *)
(***************************************************************************)
LEMMA ApplySaves ==
    ASSUME ExecutionIInv, NEW k \in 1 .. Latest(check), NEW r \in Results, NEW at \in Nat,
           NEW f, f = ApplyResult(check, k, r, at),
           NEW receipt, receipt = [attempt |-> k, result |-> r, at |-> at]
    PROVE  /\ Grows(f) /\ Owes(f, {receipt}) /\ Latest(f) = Latest(check)
           /\ f.state = "running" => check.state = "running" /\ k # Latest(check)
           /\ Disposition(check, k) = "apply" =>
                Finished(f, check, k, Normalise(r), at) /\ k = Latest(check)
<1>1. Normalise(r) \in Result
  BY NormaliseType, ExecutionConstants, Zenon
<1>2. CASE Disposition(check, k) = "apply"
  <2>1. k = Latest(check) /\ check.state = "running"
    BY <1>2, Zenon DEF Disposition
  <2>2. f = FinishAttempt(check, k, Normalise(r), at)
    BY <1>2, Zenon DEF ApplyResult
  <2>3. Finished(f, check, k, Normalise(r), at)
    BY <1>1, <2>2, StoredChain, FinishFields, Zenon
  <2>4. Grows(f) /\ Owes(f, {receipt})
    BY <1>1, <2>1, <2>3, FinishGrows, FinishOwes, Zenon
  <2>5. Latest(f) = Latest(check) /\ f.state # "running"
    BY <1>1, <2>3, ResultKinds, Zenon DEF Finished, FinalStates
  <2> QED  BY <2>1, <2>3, <2>4, <2>5, Zenon
<1>3. CASE Disposition(check, k) # "apply"
  <2> PICK kind : kind = DeliveryKind(check, k, Normalise(r), at)
    BY Zenon
  <2>1. kind \in {"stale", "conflict", "duplicate"}
    BY <1>3, Zenon DEF DeliveryKind, Disposition
  <2>2. f = RecordDiagnostic(check, k, kind, at)
    BY <1>3, Zenon DEF ApplyResult
  <2>3. k \in Nat
    BY StoredChain
  <2>4. Recorded(f, check, k, kind, at)
    BY <2>1, <2>2, <2>3, StoredChain, RecordFields, Zenon
  <2>5. Grows(f) /\ Owes(f, {receipt})
    BY <1>3, <2>4, RecordSaves, Zenon
  <2>6. Latest(f) = Latest(check) /\ f.state = check.state
    BY <2>4, Zenon DEF Recorded, Latest
  <2>7. check.state = "running" => k # Latest(check)
    BY <1>3, Zenon DEF Disposition
  <2> QED  BY <1>3, <2>5, <2>6, <2>7, Zenon
<1> QED  BY <1>2, <1>3, Zenon

(***************************************************************************)
(* A save keeps the invariant, given what its action does to the tasks.    *)
(***************************************************************************)
TaskTypes ==
    /\ task' \in [Numbers -> {"none", "pending", "quarantined", "done"}]
    /\ work' \in [Workers -> Delivery \cup {None}]
    /\ call' \in [Services -> Call \cup {None}]
    /\ \A s \in Services : call'[s] \in {None, call[s]}

Settles(f, k, r, at) ==
    /\ Grows(f) /\ Owes(f, {[attempt |-> k, result |-> r, at |-> at]})
    /\ Latest(f) = Latest(check)
    /\ f.state = "running" => check.state = "running" /\ k # Latest(check)

LEMMA ApplySettles ==
    ASSUME ExecutionIInv, NEW k \in 1 .. Latest(check), NEW r \in Results, NEW at \in Nat
    PROVE  Settles(ApplyResult(check, k, r, at), k, r, at)
<1> PICK f, receipt : /\ f = ApplyResult(check, k, r, at)
                      /\ receipt = [attempt |-> k, result |-> r, at |-> at]
  BY Zenon
<1>1. /\ Grows(f) /\ Owes(f, {receipt}) /\ Latest(f) = Latest(check)
      /\ f.state = "running" => check.state = "running" /\ k # Latest(check)
  BY ApplySaves, Zenon
<1> QED  BY <1>1, Zenon DEF Settles

LEMMA SaveKeeps ==
    ASSUME ExecutionIInv, NEW c, Grows(c), NEW receipts, saveCheck(c, receipts),
           Owes(c, receipts), TaskTypes, TaskInv', RunningIsDriven'
    PROVE  ExecutionIInv'
<1>1. check' = c /\ c \in Check /\ Chain(c) /\ c.version > check.version
  BY Zenon DEF saveCheck, Grows
<1>2. ExecutionTypeOK'
  BY <1>1, SaveReconciles, SaveProgresses, SaveAccounts, ZenonT(30) DEF ExecutionTypeOK, TaskTypes
<1>3. CallInv'
  <2> SUFFICES ASSUME NEW s \in Services, call'[s] # None
               PROVE  /\ call'[s].read.version <= c.version
                      /\ call'[s].read.version = c.version => call'[s].read = c
                      /\ call'[s].attempt \in 1 .. Latest(call'[s].read)
    BY <1>1, Zenon DEF CallInv
  <2>1. call'[s] = call[s]
    BY Zenon DEF TaskTypes
  <2>2. call[s] \in Call /\ call[s].read \in Check
    BY <2>1, Zenon DEF ExecutionIInv, ExecutionTypeOK, Call
  <2>3. call[s].read.version \in Nat /\ check.version \in Nat /\ c.version \in Nat
    BY <1>1, <2>2, StoredChain, Zenon DEF Check
  <2>4. call[s].read.version <= check.version /\ call[s].attempt \in 1 .. Latest(call[s].read)
    BY <2>1, Zenon DEF ExecutionIInv, CallInv
  <2> QED  BY <1>1, <2>1, <2>3, <2>4
<1>4. Chain(check)'
  BY <1>1, Zenon DEF Chain, Latest
<1> QED  BY <1>2, <1>3, <1>4, SaveReconciles, SaveProgresses, SaveAccounts, Zenon
            DEF ExecutionIInv

LEMMA NoSaveKeeps ==
    ASSUME ExecutionIInv, UNCHANGED rowVars,
           task' \in [Numbers -> {"none", "pending", "quarantined", "done"}],
           work' \in [Workers -> Delivery \cup {None}],
           call' \in [Services -> Call \cup {None}],
           CallInv', TaskInv', RunningIsDriven'
    PROVE  ExecutionIInv'
<1>1. UNCHANGED <<check, inbox, reconciliations, outbox>>
  BY Zenon DEF rowVars
<1>2. ExecutionTypeOK'
  BY <1>1, Zenon DEF ExecutionIInv, ExecutionTypeOK
<1>3. Chain(check)'
  BY <1>1, Zenon DEF ExecutionIInv, Chain, Latest
<1>4. InboxInv' /\ DiagnosticInv'
  BY <1>1, Zenon DEF ExecutionIInv, InboxInv, DiagnosticInv, HasReconciliation, At, Latest
<1>5. ResultsAreAccounted'
  BY <1>1, Zenon DEF ExecutionIInv, ResultsAreAccounted, At
<1>6. ProgressIsComplete'
  BY <1>1, Zenon DEF ExecutionIInv, ProgressIsComplete
<1> QED  BY <1>2, <1>3, <1>4, <1>5, <1>6, Zenon DEF ExecutionIInv

(***************************************************************************)
(* A step that ends, or gives back, the task of attempt k and nothing      *)
(* else: it may complete the task only of an attempt that has ended.       *)
(***************************************************************************)
LEMMA TaskStep ==
    ASSUME ExecutionIInv, NEW w \in Workers, work' = [work EXCEPT ![w] = None],
           UNCHANGED <<rowVars, call>>, NEW k \in 1 .. Latest(check),
           NEW s \in {"pending", "quarantined", "done"}, task' = [task EXCEPT ![k] = s],
           s = "done" => At(k).state # "running"
    PROVE  ExecutionIInv'
<1>0. k \in Numbers /\ UNCHANGED <<check, call>>
  BY StoredChain, ExecutionConstants DEF Chain, Numbers, rowVars
<1>1. /\ task' \in [Numbers -> {"none", "pending", "quarantined", "done"}]
      /\ work' \in [Workers -> Delivery \cup {None}]
      /\ call' \in [Services -> Call \cup {None}]
  BY <1>0, Zenon DEF ExecutionIInv, ExecutionTypeOK
<1>2. CallInv'
  BY <1>0, Zenon DEF ExecutionIInv, CallInv, Latest
<1>3. TaskInv'
  BY <1>0 DEF ExecutionIInv, ExecutionTypeOK, TaskInv, Latest
<1>4. RunningIsDriven'
  <2> SUFFICES ASSUME check.state = "running"
               PROVE  task'[Latest(check)] \in {"pending", "quarantined"}
    BY <1>0, Zenon DEF RunningIsDriven, Latest
  <2>1. At(Latest(check)).state = "running" /\ Latest(check) \in Numbers
    BY StoredChain, Zenon DEF Chain
  <2>2. task[Latest(check)] \in {"pending", "quarantined"}
    BY Zenon DEF ExecutionIInv, RunningIsDriven
  <2> QED  BY <1>0, <2>1, <2>2, Zenon DEF ExecutionIInv, ExecutionTypeOK
<1> QED  BY <1>1, <1>2, <1>3, <1>4, NoSaveKeeps, Zenon
-------------------------------------------------------------------------------
(***************************************************************************)
(* The actions, one by one.                                                *)
(***************************************************************************)
LEMMA PrepareKeeps ==
    ASSUME ExecutionIInv, NEW w \in Workers, Prepare(w)
    PROVE  ExecutionIInv'
<1>1. PICK k \in Numbers :
        /\ task[k] = "pending"
        /\ \/ /\ \E r \in Results \cup {None}, at \in Times :
                   work' = [work EXCEPT ![w] = [attempt |-> k, result |-> r, at |-> at]]
              /\ UNCHANGED task
           \/ task' = [task EXCEPT ![k] = "quarantined"] /\ UNCHANGED work
        /\ UNCHANGED <<rowVars, call, live>>
  BY Zenon DEF Prepare
<1>2. UNCHANGED <<rowVars, check, call>>
  BY <1>1, Zenon DEF rowVars
<1>3. work' \in [Workers -> Delivery \cup {None}]
  BY <1>1, ExecutionConstants DEF ExecutionIInv, ExecutionTypeOK, Delivery, Times
<1>4. /\ task' \in [Numbers -> {"none", "pending", "quarantined", "done"}]
      /\ call' \in [Services -> Call \cup {None}]
      /\ \A j \in Numbers : task'[j] = task[j] \/ (task[j] = "pending" /\ task'[j] = "quarantined")
  BY <1>1, <1>2, Zenon DEF ExecutionIInv, ExecutionTypeOK
<1>5. CallInv'
  BY <1>2, Zenon DEF ExecutionIInv, CallInv, Latest
<1>6. TaskInv'
  BY <1>2, <1>4, Zenon DEF ExecutionIInv, TaskInv, Latest
<1>7. RunningIsDriven'
  <2>1. Latest(check) \in Numbers
    BY Zenon DEF ExecutionIInv, Chain
  <2> QED  BY <1>2, <1>4, <2>1, Zenon DEF ExecutionIInv, RunningIsDriven, Latest
<1> QED  BY <1>2, <1>3, <1>4, <1>5, <1>6, <1>7, NoSaveKeeps, Zenon

(***************************************************************************)
(* A save that starts no attempt, with at most the task of attempt k       *)
(* completed: the check may run on only if k is not its latest attempt.    *)
(***************************************************************************)
LEMMA PlainSave ==
    ASSUME ExecutionIInv, NEW c, Grows(c), NEW receipts, saveCheck(c, receipts),
           Owes(c, receipts), Latest(c) = Latest(check), TaskTypes,
           NEW k, \A j \in Numbers : task'[j] = task[j] \/ (j = k /\ task[j] # "none"),
           c.state = "running" => check.state = "running" /\ k # Latest(check)
    PROVE  ExecutionIInv'
<1>1. check' = c /\ Latest(check) \in Numbers
  BY Zenon DEF saveCheck, ExecutionIInv, Chain
<1>2. TaskInv'
  BY <1>1, Zenon DEF ExecutionIInv, TaskInv, Latest
<1>3. RunningIsDriven'
  <2> SUFFICES ASSUME c.state = "running"
               PROVE  task'[Latest(check)] \in {"pending", "quarantined"}
    BY <1>1, Zenon DEF RunningIsDriven, Latest
  <2> QED  BY <1>1, Zenon DEF ExecutionIInv, RunningIsDriven
<1> QED  BY <1>2, <1>3, SaveKeeps, Zenon

LEMMA SkipKeeps ==
    ASSUME ExecutionIInv, NEW w \in Workers, work' = [work EXCEPT ![w] = None],
           UNCHANGED call, NEW job \in Delivery, job.attempt \in 1 .. Latest(check),
           task[job.attempt] = "pending", CommitSkip(job)
    PROVE  ExecutionIInv'
<1>0. job.attempt \in Numbers /\ job.at \in Nat
  BY Zenon DEF Delivery
<1>1. CASE CanSkipRunning(check, job.at) /\ live
  <2> PICK f : f = FinishAttempt(check, Latest(check), Cancellation("route_not_selected"), job.at)
    BY Zenon
  <2> PICK g : g = SkipRunning(check, job.at)
    BY Zenon
  <2>1. check.state = "running"
    BY <1>1, Zenon DEF CanSkipRunning
  <2>2. /\ Finished(f, check, Latest(check), Cancellation("route_not_selected"), job.at)
        /\ SkippedAs(g, f)
    BY <1>0, <2>1, StoredChain, SkipFields, Zenon
  <2>3. Cancellation("route_not_selected") \in Result
    BY Zenon DEF Cancellation, Result, Failure, FailureClasses
  <2>4. Grows(f) /\ Owes(f, {})
    BY <1>0, <2>1, <2>2, <2>3, FinishGrows, CancelOwes, Zenon
  <2>5. Grows(g)
    BY <2>2, <2>4, Zenon DEF Grows, SkippedAs, Latest
  <2>6. Latest(g) = Latest(check) /\ g.state # "running"
    BY <2>2, Zenon DEF SkippedAs, Latest, Finished
  <2>7. Owes(g, {})
    <3>1. g.attempts = f.attempts /\ Latest(g) = Latest(f)
      BY <2>2, Zenon DEF SkippedAs, Latest
    <3>2. \A k \in 1 .. Latest(f) : FromRunner(g, k) => FromRunner(f, k)
      BY <3>1, Zenon DEF FromRunner
    <3>3. \A k \in 1 .. Latest(f) : FromRunner(f, k) =>
            k \in 1 .. Latest(check) /\ At(k).state # "running"
      BY <2>4, Zenon DEF Owes
    <3> QED  BY <3>1, <3>2, <3>3, Zenon DEF Owes
  <2>8. saveCheck(g, {}) /\ task' = [task EXCEPT ![job.attempt] = "done"]
    BY <1>1, Zenon DEF CommitSkip
  <2>9. TaskTypes /\ \A j \in Numbers : task'[j] = task[j] \/ (j = job.attempt /\ task[j] # "none")
    BY <1>0, <2>8, Zenon DEF TaskTypes, ExecutionIInv, ExecutionTypeOK
  <2> QED  BY <2>5, <2>6, <2>7, <2>8, <2>9, PlainSave, Zenon
<1>2. CASE ~(CanSkipRunning(check, job.at) /\ live)
  BY <1>2, TaskStep, Zenon DEF CommitSkip
<1> QED  BY <1>1, <1>2, Zenon

(***************************************************************************)
(* The successor of a retryable failure continues the chain.               *)
(***************************************************************************)
LEMMA SuccessorChain ==
    ASSUME ExecutionIInv, NEW k \in 1 .. Latest(check), NEW r \in Results, NEW at \in Nat,
           NEW f, f = ApplyResult(check, k, r, at), Disposition(check, k) = "apply",
           MayRetry(f, k, at),
           CanBeginAttempt(f, RetryStart(f, k, at), RetryDeadline(f, k, at)),
           NEW g, g = WithSuccessor(f, k, at)
    PROVE  /\ RetryStart(f, k, at) \in Nat /\ RetryDeadline(f, k, at) \in Nat
           /\ Begun(g, f, RetryStart(f, k, at), RetryDeadline(f, k, at)) /\ Chain(g)
           /\ k = Latest(check) /\ Latest(g) = k + 1
<1> PICK receipt : receipt = [attempt |-> k, result |-> r, at |-> at]
  BY Zenon
<1>1. /\ Grows(f) /\ Finished(f, check, k, Normalise(r), at) /\ k = Latest(check)
      /\ Latest(f) = Latest(check)
  BY ApplySaves, Zenon
<1>2. Normalise(r) \in Result
  BY NormaliseType, ExecutionConstants, Zenon
<1>3. f.attempts[k].result = Normalise(r) /\ f.attempts[k].finishedAt = at
  BY <1>1, Zenon DEF Finished
<1>4. f.attempts[k].result \in Failure
  BY <1>2, <1>3, ResultKinds, Zenon DEF MayRetry
<1>5. f.attempts[k].result.after \in Nat
  BY <1>4, ZenonT(30) DEF Failure
<1>6. RetryStart(f, k, at) \in Nat /\ RetryStart(f, k, at) >= at
  BY <1>5 DEF RetryStart
<1>7. RetryDeadline(f, k, at) \in Nat /\ RetryDeadline(f, k, at) <= ExpiresAt
  BY <1>6, ExecutionConstants DEF RetryDeadline, Minimum
<1>8. f \in Check /\ Chain(f)
  BY <1>1, Zenon DEF Grows
<1>9. f.state \in {"failed", "timed_out"}
  <2>1. f.state \in FinalStates \cup {"running", "skipped_by_policy"}
    BY <1>8, Zenon DEF Check
  <2> QED  BY <2>1, Zenon DEF CanBeginAttempt, FinalStates
<1>10. /\ Latest(f) < MaxSemantic /\ k = Latest(f)
       /\ f.attempts[k].result.retry # "never"
       /\ RetryStart(f, k, at) < RetryDeadline(f, k, at)
  BY <1>6, <1>7, Zenon DEF MayRetry, CanBeginAttempt
<1>11. Begun(g, f, RetryStart(f, k, at), RetryDeadline(f, k, at))
  BY <1>6, <1>7, <1>8, BeginFields, Zenon DEF WithSuccessor
<1>12. Chain(g)
  <2> PICK start \in Nat, deadline \in Nat :
        start = RetryStart(f, k, at) /\ deadline = RetryDeadline(f, k, at)
    BY <1>6, <1>7, Zenon
  <2>1. /\ f.attempts[Latest(f)].result.retry # "never"
        /\ f.attempts[Latest(f)].finishedAt <= start /\ start < deadline
        /\ deadline <= ExpiresAt /\ Begun(g, f, start, deadline) /\ Latest(f) < MaxSemantic
    BY <1>3, <1>6, <1>7, <1>10, <1>11, Zenon
  <2> QED  BY <1>8, <1>9, <2>1, RetryChain, Zenon
<1> QED  BY <1>1, <1>6, <1>7, <1>11, <1>12, Zenon DEF Begun

LEMMA SavingKeeps ==
    ASSUME ExecutionIInv, NEW w \in Workers, work' = [work EXCEPT ![w] = None],
           UNCHANGED call, NEW job \in Delivery, job.attempt \in 1 .. Latest(check),
           job.result # None, task[job.attempt] = "pending", CommitSave(job)
    PROVE  ExecutionIInv'
<1> PICK k \in 1 .. Latest(check), r \in Results, at \in Nat :
      k = job.attempt /\ r = job.result /\ at = job.at
  BY Zenon DEF Delivery
<1> PICK f : f = ApplyResult(check, k, r, at)
  BY Zenon
<1> PICK receipt : receipt = [attempt |-> k, result |-> r, at |-> at]
  BY Zenon
<1>1. /\ Grows(f) /\ Owes(f, {receipt}) /\ Latest(f) = Latest(check)
      /\ f.state = "running" => check.state = "running" /\ k # Latest(check)
  <2>1. Settles(f, k, r, at)
    BY ApplySettles, Zenon
  <2> QED  BY <2>1, Zenon DEF Settles
<1>2. Applied(job) = f /\ Receipt(job) = receipt
  BY Zenon DEF Applied, Receipt
<1>3. k \in Numbers
  BY Zenon DEF Delivery
<1>4. CASE ~Retries(job)
  <2>1. saveCheck(f, {receipt})
    BY <1>2, <1>4, Zenon DEF CommitSave
  <2>2. task' = [j \in Numbers |-> IF j = k THEN "done" ELSE task[j]]
    BY <1>4, Zenon DEF CommitSave
  <2>3. TaskTypes /\ \A j \in Numbers : task'[j] = task[j] \/ (j = k /\ task[j] # "none")
    BY <2>2, Zenon DEF TaskTypes, ExecutionIInv, ExecutionTypeOK
  <2> QED  BY <1>1, <2>1, <2>3, PlainSave, Zenon
<1>5. CASE Retries(job)
  <2> PICK g : g = WithSuccessor(f, k, at)
    BY Zenon
  <2>1. Disposition(check, k) = "apply" /\ MayRetry(f, k, at)
    BY <1>2, <1>5, Zenon DEF Retries, Applies
  <2>2. CanBeginAttempt(f, RetryStart(f, k, at), RetryDeadline(f, k, at))
    BY <1>2, <1>5, Zenon DEF CommitSave, Refused
  <2>3. /\ RetryStart(f, k, at) \in Nat /\ RetryDeadline(f, k, at) \in Nat
        /\ Begun(g, f, RetryStart(f, k, at), RetryDeadline(f, k, at)) /\ Chain(g)
        /\ k = Latest(check) /\ Latest(g) = k + 1
    BY <2>1, <2>2, SuccessorChain, Zenon
  <2>4. Grows(g) /\ Owes(g, {receipt})
    BY <1>1, <2>3, SuccessorSaves, Zenon
  <2>5. saveCheck(g, {receipt})
    BY <1>2, <1>5, Zenon DEF CommitSave
  <2>6. task' = [j \in Numbers |-> IF j = k THEN "done"
                                   ELSE IF j = k + 1 THEN "pending" ELSE task[j]]
    BY <1>5, Zenon DEF CommitSave
  <2>7. TaskTypes
    BY <2>6, Zenon DEF TaskTypes, ExecutionIInv, ExecutionTypeOK
  <2>8. check' = g /\ k + 1 \in Numbers /\ k \in Nat
    <3>1. check' = g
      BY <2>5, Zenon DEF saveCheck
    <3>2. Latest(g) \in Numbers
      BY <2>3, Zenon DEF Chain
    <3>3. k \in Nat
      BY <2>3, StoredChain, ZenonT(30)
    <3> QED  BY <2>3, <3>1, <3>2, <3>3, Zenon
  <2>9. TaskInv'
    <3> SUFFICES ASSUME NEW j \in Numbers, task'[j] # "none"  PROVE j <= k + 1
      BY <2>3, <2>8, Zenon DEF TaskInv, Latest
    <3>1. j \in Nat
      BY ExecutionConstants DEF Numbers
    <3>2. task[j] # "none" => j <= k
      BY <2>3, Zenon DEF ExecutionIInv, TaskInv
    <3> QED  BY <2>6, <2>8, <3>1, <3>2
  <2>10. RunningIsDriven'
    <3>1. task'[k + 1] = "pending"
      BY <2>6, <2>8
    <3> QED  BY <2>3, <2>8, <3>1, Zenon DEF RunningIsDriven, Latest
  <2> QED  BY <2>4, <2>5, <2>7, <2>9, <2>10, SaveKeeps, Zenon
<1> QED  BY <1>4, <1>5, Zenon

LEMMA CommitKeeps ==
    ASSUME ExecutionIInv, NEW w \in Workers, Commit(w)
    PROVE  ExecutionIInv'
<1> PICK job : job = work[w]
  BY Zenon
<1>1. /\ job # None /\ work' = [work EXCEPT ![w] = None] /\ UNCHANGED call
      /\ job \in Delivery
  BY Zenon DEF Commit, ExecutionIInv, ExecutionTypeOK
<1>2. CASE UNCHANGED <<rowVars, task>>
  <2>1. UNCHANGED <<check, task, call>>
    BY <1>1, <1>2, Zenon DEF rowVars
  <2>2. /\ task' \in [Numbers -> {"none", "pending", "quarantined", "done"}]
        /\ work' \in [Workers -> Delivery \cup {None}]
        /\ call' \in [Services -> Call \cup {None}]
    BY <1>1, <2>1, Zenon DEF ExecutionIInv, ExecutionTypeOK
  <2>3. CallInv' /\ TaskInv' /\ RunningIsDriven'
    BY <2>1, Zenon DEF ExecutionIInv, CallInv, TaskInv, RunningIsDriven, Latest
  <2> QED  BY <1>2, <2>2, <2>3, NoSaveKeeps, Zenon
<1>3. CASE /\ task[job.attempt] = "pending"
           /\ IF job.result = None
                THEN CommitSkip(job)
                ELSE \/ CommitQuarantine(job) \/ CommitRetry(job)
                     \/ CommitReplay(job) \/ CommitSave(job)
  <2>1. job.attempt \in 1 .. Latest(check)
    <3>1. job.attempt \in Numbers
      BY <1>1, Zenon DEF Delivery
    <3> QED  BY <1>3, <3>1, StoredChain, ExecutionConstants DEF ExecutionIInv, TaskInv, Numbers
  <2>2. CASE job.result = None
    BY <1>1, <1>3, <2>1, <2>2, SkipKeeps, Zenon
  <2>3. CASE job.result # None /\ CommitSave(job)
    BY <1>1, <1>3, <2>1, <2>3, SavingKeeps, Zenon
  <2>4. CASE CommitQuarantine(job)
    BY <1>1, <2>1, <2>4, TaskStep, Zenon DEF CommitQuarantine
  <2>5. CASE CommitRetry(job)
    <3>1. PICK s \in {"pending", "quarantined"} : task' = [task EXCEPT ![job.attempt] = s]
      BY <2>5, Zenon DEF CommitRetry
    <3> QED  BY <1>1, <2>1, <2>5, <3>1, TaskStep, Zenon DEF CommitRetry
  <2>6. CASE CommitReplay(job)
    <3>1. Receipt(job) \in inbox /\ Receipt(job).attempt = job.attempt
      BY <2>6, Zenon DEF CommitReplay, Receipt
    <3>2. At(job.attempt).state # "running"
      BY <3>1, Zenon DEF ExecutionIInv, InboxInv
    <3> QED  BY <1>1, <2>1, <2>6, <3>2, TaskStep, Zenon DEF CommitReplay
  <2> QED  BY <1>3, <2>2, <2>3, <2>4, <2>5, <2>6, Zenon
<1> QED  BY <1>2, <1>3, Zenon DEF Commit

LEMMA ServiceFindKeeps ==
    ASSUME ExecutionIInv, NEW s \in Services, ServiceFind(s)
    PROVE  ExecutionIInv'
<1> PICK k \in 1 .. Latest(check), r \in Results, at \in Times :
      call' = [call EXCEPT ![s] = [read |-> check, attempt |-> k, result |-> r, at |-> at]]
  BY Zenon DEF ServiceFind
<1> DEFINE new == [read |-> check, attempt |-> k, result |-> r, at |-> at]
<1>1. UNCHANGED <<rowVars, check, task, work>>
  BY Zenon DEF ServiceFind, rowVars
<1>2. new \in Call /\ new.read = check /\ new.attempt = k
  BY StoredChain, ExecutionConstants DEF Call, Times
<1>3. /\ task' \in [Numbers -> {"none", "pending", "quarantined", "done"}]
      /\ work' \in [Workers -> Delivery \cup {None}]
      /\ call' \in [Services -> Call \cup {None}]
  BY <1>1, <1>2, Zenon DEF ExecutionIInv, ExecutionTypeOK
<1>4. call'[s] = new /\ \A v \in Services \ {s} : call'[v] = call[v]
  BY Zenon DEF ExecutionIInv, ExecutionTypeOK
<1>5. CallInv'
  <2> SUFFICES ASSUME NEW v \in Services, call'[v] # None
               PROVE  /\ call'[v].read.version <= check.version
                      /\ call'[v].read.version = check.version => call'[v].read = check
                      /\ call'[v].attempt \in 1 .. Latest(call'[v].read)
    BY <1>1, ZenonT(30) DEF CallInv
  <2> HIDE DEF new
  <2>1. CASE v = s
    BY <1>2, <1>4, <2>1, StoredChain
  <2>2. CASE v # s
    BY <1>4, <2>2, Zenon DEF ExecutionIInv, CallInv
  <2> QED  BY <2>1, <2>2, Zenon
<1>6. TaskInv' /\ RunningIsDriven'
  BY <1>1, Zenon DEF ExecutionIInv, TaskInv, RunningIsDriven, Latest
<1> QED  BY <1>1, <1>3, <1>5, <1>6, NoSaveKeeps, Zenon

LEMMA ServiceSaveKeeps ==
    ASSUME ExecutionIInv, NEW s \in Services, ServiceSave(s)
    PROVE  ExecutionIInv'
<1> PICK c : c = call[s]
  BY Zenon
<1>1. /\ c # None /\ c \in Call /\ call' = [call EXCEPT ![s] = None]
      /\ UNCHANGED <<task, work>>
  BY Zenon DEF ServiceSave, ExecutionIInv, ExecutionTypeOK
<1>2. TaskTypes
  BY <1>1, Zenon DEF TaskTypes, ExecutionIInv, ExecutionTypeOK
<1>3. CASE /\ InWindow(c.read, c.attempt, c.at)
           /\ Receipt(c) \notin inbox /\ live /\ VersionMatches(c)
  <2>1. c.read = check
    BY <1>1, <1>3, Zenon DEF ExecutionIInv, CallInv, VersionMatches
  <2> PICK k \in 1 .. Latest(check), r \in Results, at \in Nat :
        k = c.attempt /\ r = c.result /\ at = c.at
    BY <1>1, <2>1, Zenon DEF Call, ExecutionIInv, CallInv
  <2> PICK f : f = ApplyResult(check, k, r, at)
    BY Zenon
  <2> PICK receipt : receipt = [attempt |-> k, result |-> r, at |-> at]
    BY Zenon
  <2>2. saveCheck(f, {receipt})
    BY <1>3, <2>1, Zenon DEF ServiceSave, Receipt
  <2>3. /\ Grows(f) /\ Owes(f, {receipt}) /\ Latest(f) = Latest(check)
        /\ f.state = "running" => check.state = "running" /\ k # Latest(check)
    <3>1. Settles(f, k, r, at)
      BY ApplySettles, Zenon
    <3> QED  BY <3>1, Zenon DEF Settles
  <2> QED  BY <1>1, <1>2, <2>2, <2>3, PlainSave, Zenon
<1>4. CASE UNCHANGED rowVars
  <2>1. UNCHANGED <<check, task>>
    BY <1>1, <1>4, Zenon DEF rowVars
  <2>2. CallInv'
    BY <1>2, <2>1, Zenon DEF TaskTypes, ExecutionIInv, CallInv, Latest
  <2>3. TaskInv' /\ RunningIsDriven'
    BY <2>1, Zenon DEF ExecutionIInv, TaskInv, RunningIsDriven, Latest
  <2> QED  BY <1>2, <1>4, <2>2, <2>3, NoSaveKeeps, Zenon DEF TaskTypes
<1> QED  BY <1>3, <1>4, Zenon DEF ServiceSave

LEMMA StopKeeps ==
    ASSUME ExecutionIInv, Stop \/ UNCHANGED vars
    PROVE  ExecutionIInv'
<1>1. UNCHANGED <<task, work, call>>
  BY Zenon DEF Stop, vars
<1>2. TaskTypes
  BY <1>1, Zenon DEF TaskTypes, ExecutionIInv, ExecutionTypeOK
<1>3. CASE UNCHANGED rowVars
  <2>1. UNCHANGED <<check, task, call>>
    BY <1>1, <1>3, Zenon DEF rowVars
  <2>2. CallInv' /\ TaskInv' /\ RunningIsDriven'
    BY <2>1, Zenon DEF ExecutionIInv, CallInv, TaskInv, RunningIsDriven, Latest
  <2> QED  BY <1>2, <1>3, <2>2, NoSaveKeeps, Zenon DEF TaskTypes
<1>4. ASSUME check.state = "running", NEW at \in Times, saveCheck(CancelRunning(check, at), {})
      PROVE  ExecutionIInv'
  <2> DEFINE r == Cancellation("verification_cancelled")
  <2> PICK f : f = FinishAttempt(check, Latest(check), r, at)
    BY ZenonT(30)
  <2>1. at \in Nat /\ r \in Result
    BY ExecutionConstants DEF Times, Cancellation, Result, Failure, FailureClasses
  <2>2. saveCheck(f, {})
    BY <1>4, Zenon DEF CancelRunning
  <2> HIDE DEF r
  <2>3. Finished(f, check, Latest(check), r, at)
    BY <2>1, StoredChain, FinishFields, Zenon
  <2>4. Grows(f) /\ Owes(f, {})
    BY <1>4, <2>1, <2>3, FinishGrows, CancelOwes, Zenon DEF r
  <2>5. Latest(f) = Latest(check) /\ f.state # "running"
    BY <2>1, <2>3, ResultKinds, Zenon DEF Finished, FinalStates
  <2> QED  BY <1>1, <1>2, <2>2, <2>4, <2>5, PlainSave, Zenon
<1>5. Stop => \/ UNCHANGED rowVars
              \/ /\ check.state = "running"
                 /\ \E at \in Times : saveCheck(CancelRunning(check, at), {})
  BY Zenon DEF Stop
<1>6. UNCHANGED vars => UNCHANGED rowVars
  BY Zenon DEF vars, rowVars
<1> QED  BY <1>3, <1>4, <1>5, <1>6, Zenon

(***************************************************************************)
(* The whole specification.                                                *)
(***************************************************************************)
LEMMA InitHolds ==
    ASSUME Init
    PROVE  ExecutionIInv
<1> DEFINE deadline == Minimum(MaxDuration, ExpiresAt)
<1>1. /\ deadline \in Nat /\ 0 < deadline /\ deadline <= ExpiresAt
  BY ExecutionConstants DEF Minimum
<1> HIDE DEF deadline
<1> DEFINE first == [state |-> "running", startedAt |-> 0, deadline |-> deadline,
                     finishedAt |-> None, result |-> None]
<1>2. /\ check.state = "running" /\ check.outcome = None /\ check.attempts = <<first>>
      /\ check.version \in Nat /\ check.diagnostics = {} /\ check \in Check
  <2>1. first \in Attempt
    BY <1>1, Zenon DEF Attempt
  <2>2. Append(<< >>, first) = <<first>> /\ <<first>> \in Seq(Attempt)
    BY <2>1
  <2> DEFINE new == [state |-> "queued", outcome |-> None, version |-> 1, updatedAt |-> 0,
                     attempts |-> << >>, diagnostics |-> {}]
  <2>3. check = [new EXCEPT !.attempts = Append(@, first), !.state = "running",
                            !.outcome = None, !.updatedAt = 0, !.version = @ + 1]
    BY Zenon DEF Init, BeginAttempt, NewCheck, deadline
  <2>4. check = [state |-> "running", outcome |-> None, version |-> 1 + 1, updatedAt |-> 0,
                 attempts |-> Append(<< >>, first), diagnostics |-> {}]
    <3> HIDE DEF first
    <3> QED  BY <2>3, Zenon
  <2> HIDE DEF first
  <2> QED  BY <2>2, <2>4 DEF Check
<1>3. /\ Latest(check) = 1 /\ At(1).state = "running" /\ At(1).result = None
      /\ At(1).startedAt = 0 /\ At(1).deadline = deadline
  BY <1>2 DEF Latest, At
<1>4. 1 \in Numbers
  BY ExecutionConstants DEF Numbers
<1> HIDE DEF first
<1>5. Chain(check)
  BY <1>1, <1>2, <1>3, <1>4 DEF Chain, At
<1>6. /\ outbox = <<Progress(check)>> /\ Len(outbox) = 1 /\ outbox[1] = Progress(check)
      /\ Progress(check) \in [version : Nat, state : FinalStates \cup {"running", "skipped_by_policy"}]
  BY <1>2, Zenon DEF Init, Progress
<1>7. ExecutionTypeOK
  BY <1>2, <1>6 DEF ExecutionTypeOK, Init
<1>8. TaskInv /\ RunningIsDriven
  BY <1>3, <1>4 DEF TaskInv, RunningIsDriven, Init
<1>9. InboxInv /\ DiagnosticInv /\ CallInv
  BY <1>2, ZenonT(30) DEF InboxInv, DiagnosticInv, CallInv, Init
<1>10. ResultsAreAccounted
  BY <1>3 DEF ResultsAreAccounted, Init
<1>11. ProgressIsComplete
  BY <1>6 DEF ProgressIsComplete
<1> QED  BY <1>5, <1>7, <1>8, <1>9, <1>10, <1>11, Zenon DEF ExecutionIInv

LEMMA NextKeeps == ExecutionIInv /\ [Next]_vars => ExecutionIInv'
  BY PrepareKeeps, CommitKeeps, ServiceFindKeeps, ServiceSaveKeeps, StopKeeps, Zenon DEF Next

LEMMA ExecutionInvariance == Spec => []ExecutionIInv
  BY InitHolds, NextKeeps, PTL DEF Spec

(***************************************************************************)
(* For any number of workers and service callers, any retry limits and any *)
(* results: whatever the interleaving of applyResult, semanticRetry,       *)
(* skipRouteWork and the session's end, the attempts that saveCheck stores *)
(* form the chain that RestoreCheck requires.                              *)
(***************************************************************************)
THEOREM ChainCorrect == Spec => []AttemptsAreChain
<1>1. ExecutionIInv => AttemptsAreChain
  BY Zenon DEF ExecutionIInv, Chain, AttemptsAreChain, At
<1> QED  BY <1>1, ExecutionInvariance, PTL

(***************************************************************************)
(* For the same instances: the task of a running attempt is never          *)
(* completed, so no check is left running with nothing to drive it; the    *)
(* successor of semanticRetry is committed with its task, and a replayed   *)
(* receipt only completes the task of an attempt that has ended.           *)
(***************************************************************************)
THEOREM DrivenCorrect == Spec => []RunningIsDriven
<1>1. ExecutionIInv => RunningIsDriven
  BY Zenon DEF ExecutionIInv
<1> QED  BY <1>1, ExecutionInvariance, PTL

(***************************************************************************)
(* For the same instances: a result whose receipt committed is the result  *)
(* of its attempt or has left a reconciliation, and a runner's result in   *)
(* an attempt has its receipt.  The workers and the service callers race   *)
(* on one receipt; what a caller read before the race is used only if the  *)
(* version still matches.                                                  *)
(***************************************************************************)
THEOREM AccountedCorrect == Spec => []ResultsAreAccounted
<1>1. ExecutionIInv => ResultsAreAccounted
  BY Zenon DEF ExecutionIInv
<1> QED  BY <1>1, ExecutionInvariance, PTL

(***************************************************************************)
(* For the same instances: the progress rows written by saveCheck have     *)
(* increasing versions and the last one shows the stored check.            *)
(***************************************************************************)
THEOREM ProgressCorrect == Spec => []ProgressIsComplete
<1>1. ExecutionIInv => ProgressIsComplete
  BY Zenon DEF ExecutionIInv
<1> QED  BY <1>1, ExecutionInvariance, PTL
-------------------------------------------------------------------------------
(***************************************************************************)
(* The check implements the contract of a session's checks.  A step moves  *)
(* it when it leaves state and attempt, ends the running attempt, or       *)
(* starts the next one.                                                    *)
(***************************************************************************)
Ends(c, d) ==
    /\ c.state = "running" /\ d.state \in FinalStates \cup {"skipped_by_policy"}
    /\ Latest(d) = Latest(c)

Retried(c, d) ==
    /\ c.state = "running" /\ d.state = "running"
    /\ Latest(c) < MaxSemantic /\ Latest(d) = Latest(c) + 1

Same(c, d) == d.state = c.state /\ Latest(d) = Latest(c)

(***************************************************************************)
(* The state of a plan of one check is a sequence of length one.           *)
(***************************************************************************)
LEMMA OneCheck ==
    ASSUME NEW x, NEW y
    PROVE  /\ <<x>>[1] = x /\ [<<x>> EXCEPT ![1] = y] = <<y>> /\ [c \in {1} |-> x] = <<x>>
  OBVIOUS

(***************************************************************************)
(* The same for the number of its latest attempt.                          *)
(***************************************************************************)
LEMMA OneCheckNext ==
    ASSUME NEW n \in Nat
    PROVE  [<<n>> EXCEPT ![1] = @ + 1] = <<n + 1>>
  OBVIOUS

(***************************************************************************)
(* Each of these moves is a step of the contract, the last two in a live   *)
(* session only.                                                           *)
(***************************************************************************)
LEMMA MoveImplements ==
    ASSUME ExecutionIInv, live' = live,
           Same(check, check') \/ (live /\ (Ends(check, check') \/ Retried(check, check')))
    PROVE  [CheckPromise!ChecksNext]_(CheckPromise!checkContractVars)
<1>1. CASE Same(check, check')
  BY <1>1, Zenon DEF Same, CheckPromise!checkContractVars, Latest
<1>2. CASE live /\ Ends(check, check')
  <2>1. <<check.state>>[1] = "running" /\ UNCHANGED <<Latest(check)>>
    BY <1>2, OneCheck, Zenon DEF Ends, Latest
  <2>2. PICK t \in CheckPromise!FinishedStates : check'.state = t
    BY <1>2, Zenon DEF Ends, FinalStates, CheckPromise!FinishedStates
  <2>3. <<check.state>>' = [<<check.state>> EXCEPT ![1] = t]
    BY <2>2, OneCheck, Zenon
  <2>4. CheckPromise!FinishCheck(1)
    BY <2>1, <2>2, <2>3, Zenon DEF CheckPromise!FinishCheck
  <2> QED  BY <1>2, <2>4, Zenon DEF CheckPromise!ChecksNext
<1>3. CASE live /\ Retried(check, check')
  <2>1. /\ <<check.state>>[1] = "running" /\ <<check.state>>' = <<check.state>>
        /\ <<Latest(check)>>[1] < MaxSemantic
    BY <1>3, OneCheck, Zenon DEF Retried
  <2>2. <<Latest(check)>>' = [<<Latest(check)>> EXCEPT ![1] = @ + 1]
    <3>1. Latest(check) \in Nat /\ Latest(check)' = Latest(check) + 1
      BY <1>3, StoredChain, Zenon DEF Retried, Latest
    <3> QED  BY <3>1, OneCheckNext, Zenon
  <2>3. CheckPromise!RetryCheck(1)
    BY <2>1, <2>2, Zenon DEF CheckPromise!RetryCheck
  <2> QED  BY <1>3, <2>3, Zenon DEF CheckPromise!ChecksNext
<1> QED  BY <1>1, <1>2, <1>3, Zenon

(***************************************************************************)
(* ApplyResult ends the running attempt or records a diagnostic.           *)
(***************************************************************************)
LEMMA ApplyMoves ==
    ASSUME ExecutionIInv, NEW k \in 1 .. Latest(check), NEW r \in Results, NEW at \in Nat,
           NEW f, f = ApplyResult(check, k, r, at)
    PROVE  Same(check, f) \/ Ends(check, f)
<1>1. CASE Disposition(check, k) = "apply"
  <2>1. check.state = "running"
    BY <1>1, Zenon DEF Disposition
  <2>2. Finished(f, check, k, Normalise(r), at)
    <3> PICK receipt : receipt = [attempt |-> k, result |-> r, at |-> at]
      BY Zenon
    <3> QED  BY <1>1, ApplySaves, Zenon
  <2>3. Normalise(r) \in Result
    BY NormaliseType, ExecutionConstants, Zenon
  <2> QED  BY <2>1, <2>2, <2>3, ResultKinds, Zenon DEF Finished, Ends
<1>2. CASE Disposition(check, k) # "apply"
  <2>1. PICK kind : f = RecordDiagnostic(check, k, kind, at)
    BY <1>2, Zenon DEF ApplyResult
  <2>2. f.state = check.state /\ f.attempts = check.attempts
    BY <2>1, StoredChain, Zenon DEF RecordDiagnostic, Check
  <2> QED  BY <2>2, Zenon DEF Same, Latest
<1> QED  BY <1>1, <1>2, Zenon

(***************************************************************************)
(* CommitSave also begins the successor of an attempt to be retried.       *)
(***************************************************************************)
LEMMA SaveMoves ==
    ASSUME ExecutionIInv, NEW job \in Delivery, job.attempt \in 1 .. Latest(check),
           job.result # None, CommitSave(job)
    PROVE  Same(check, check') \/ Ends(check, check') \/ Retried(check, check')
<1>1. PICK k \in 1 .. Latest(check), r \in Results, at \in Nat :
        k = job.attempt /\ r = job.result /\ at = job.at
  BY Zenon DEF Delivery
<1>2. PICK f : f = ApplyResult(check, k, r, at)
  BY Zenon
<1>3. Applied(job) = f
  BY <1>1, <1>2, Zenon DEF Applied
<1>4. CASE ~Retries(job)
  BY <1>2, <1>3, <1>4, ApplyMoves, Zenon DEF CommitSave, saveCheck
<1>5. CASE Retries(job)
  <2>1. PICK g : g = WithSuccessor(f, k, at)
    BY Zenon
  <2>2. check' = g
    BY <1>1, <1>3, <1>5, <2>1, Zenon DEF CommitSave, saveCheck
  <2>3. /\ Disposition(check, k) = "apply" /\ MayRetry(f, k, at)
        /\ CanBeginAttempt(f, RetryStart(f, k, at), RetryDeadline(f, k, at))
    BY <1>1, <1>3, <1>5, Zenon DEF Retries, Applies, CommitSave, Refused
  <2>4. /\ Begun(g, f, RetryStart(f, k, at), RetryDeadline(f, k, at))
        /\ k = Latest(check) /\ Latest(g) = k + 1
    BY <1>2, <2>1, <2>3, SuccessorChain, Zenon
  <2>5. check.state = "running" /\ g.state = "running" /\ Latest(f) < MaxSemantic /\ k = Latest(f)
    BY <2>3, <2>4, Zenon DEF Disposition, Begun, MayRetry
  <2> QED  BY <2>2, <2>4, <2>5, Zenon DEF Retried
<1> QED  BY <1>4, <1>5, Zenon

(***************************************************************************)
(* SkipRunning ends the check.                                             *)
(***************************************************************************)
LEMMA SkipMoves ==
    ASSUME ExecutionIInv, NEW at \in Nat, CanSkipRunning(check, at),
           saveCheck(SkipRunning(check, at), {})
    PROVE  Ends(check, check')
<1>1. PICK f : f = FinishAttempt(check, Latest(check), Cancellation("route_not_selected"), at)
  BY Zenon
<1>2. check.state = "running"
  BY Zenon DEF CanSkipRunning
<1>3. PICK g : g = SkipRunning(check, at)
  BY Zenon
<1>4. /\ Finished(f, check, Latest(check), Cancellation("route_not_selected"), at)
      /\ SkippedAs(g, f)
  BY <1>1, <1>2, <1>3, StoredChain, SkipFields, Zenon
<1>5. check' = g
  BY <1>3, Zenon DEF saveCheck
<1> QED  BY <1>2, <1>4, <1>5, Zenon DEF Finished, SkippedAs, Ends, Latest

(***************************************************************************)
(* The transaction of the execution task moves the check only while the    *)
(* session is live.                                                        *)
(***************************************************************************)
LEMMA CommitImplements ==
    ASSUME ExecutionIInv, NEW w \in Workers, Commit(w)
    PROVE  [CheckPromise!ChecksNext]_(CheckPromise!checkContractVars)
<1>1. PICK job : job = work[w]
  BY Zenon
<1>2. job \in Delivery /\ live' = live
  BY <1>1, Zenon DEF Commit, ExecutionIInv, ExecutionTypeOK
<1>3. CASE UNCHANGED rowVars
  BY <1>2, <1>3, MoveImplements, Zenon DEF rowVars, Same
<1>4. CASE task[job.attempt] = "pending" /\ job.result # None /\ CommitSave(job)
  <2>1. job.attempt \in 1 .. Latest(check)
    <3>1. job.attempt \in Numbers
      BY <1>2, Zenon DEF Delivery
    <3> QED  BY <1>4, <3>1, StoredChain, ExecutionConstants DEF ExecutionIInv, TaskInv, Numbers
  <2>2. live
    BY <1>4, Zenon DEF CommitSave
  <2>3. Same(check, check') \/ Ends(check, check') \/ Retried(check, check')
    BY <1>2, <1>4, <2>1, SaveMoves, Zenon
  <2> QED  BY <1>2, <2>2, <2>3, MoveImplements, Zenon
<1>5. CASE /\ CanSkipRunning(check, job.at) /\ live
           /\ saveCheck(SkipRunning(check, job.at), {})
  <2>1. job.at \in Nat
    BY <1>2, Zenon DEF Delivery
  <2> QED  BY <1>2, <1>5, <2>1, SkipMoves, MoveImplements, Zenon
<1> QED  BY <1>1, <1>3, <1>4, <1>5, Zenon
         DEF Commit, CommitSkip, CommitQuarantine, CommitRetry, CommitReplay, rowVars

(***************************************************************************)
(* An optimistic save that finds its version replaces the check it read.   *)
(***************************************************************************)
LEMMA ServiceSaveImplements ==
    ASSUME ExecutionIInv, NEW s \in Services, ServiceSave(s)
    PROVE  [CheckPromise!ChecksNext]_(CheckPromise!checkContractVars)
<1>1. PICK c : c = call[s]
  BY Zenon
<1>2. c # None /\ c \in Call /\ live' = live
  BY <1>1, Zenon DEF ServiceSave, ExecutionIInv, ExecutionTypeOK
<1>3. CASE live /\ VersionMatches(c)
           /\ saveCheck(ApplyResult(c.read, c.attempt, c.result, c.at), {Receipt(c)})
  <2>1. c.read = check
    BY <1>1, <1>2, <1>3, Zenon DEF ExecutionIInv, CallInv, VersionMatches
  <2>2. PICK k \in 1 .. Latest(check), r \in Results, at \in Nat :
          k = c.attempt /\ r = c.result /\ at = c.at
    BY <1>1, <1>2, <2>1, Zenon DEF Call, ExecutionIInv, CallInv
  <2>3. check' = ApplyResult(check, k, r, at)
    BY <1>3, <2>1, <2>2, Zenon DEF saveCheck
  <2>4. Same(check, check') \/ Ends(check, check')
    BY <2>3, ApplyMoves, Zenon
  <2> QED  BY <1>2, <1>3, <2>4, MoveImplements, Zenon
<1>4. CASE UNCHANGED rowVars
  BY <1>2, <1>4, MoveImplements, Zenon DEF rowVars, Same
<1> QED  BY <1>1, <1>3, <1>4, Zenon DEF ServiceSave

(***************************************************************************)
(* Stopping the session closes it, with or without cancelling the check.   *)
(***************************************************************************)
LEMMA StopImplements ==
    ASSUME ExecutionIInv, Stop
    PROVE  CheckPromise!ChecksNext
<1> DEFINE Cancelled(S) == [c \in {1} |-> IF c \in S THEN "cancelled" ELSE <<check.state>>[c]]
<1>1. live /\ live' = FALSE
  BY Zenon DEF Stop
<1>2. Cancelled({}) = <<check.state>> /\ Cancelled({1}) = <<"cancelled">>
  OBVIOUS
<1>3. CASE UNCHANGED rowVars
  <2>1. <<check.state>>' = Cancelled({}) /\ <<Latest(check)>>' = <<Latest(check)>>
    BY <1>2, <1>3, Zenon DEF rowVars, Latest
  <2>2. {} \in SUBSET {c \in {1} : <<check.state>>[c] = "running"}
    BY Zenon
  <2> QED  BY <1>1, <2>1, <2>2, Zenon DEF CheckPromise!CloseSession, CheckPromise!ChecksNext
<1>4. ASSUME check.state = "running", NEW at \in Times, saveCheck(CancelRunning(check, at), {})
      PROVE  CheckPromise!ChecksNext
  <2> DEFINE r == Cancellation("verification_cancelled")
  <2>1. at \in Nat /\ r \in Result
    BY ExecutionConstants DEF Times, Cancellation, Result, Failure, FailureClasses
  <2>2. FinalState(r) = "cancelled"
    BY Zenon DEF Cancellation, FinalState, IsFailure
  <2>3. check' = FinishAttempt(check, Latest(check), r, at)
    BY <1>4, Zenon DEF CancelRunning, saveCheck
  <2> HIDE DEF r
  <2>4. Finished(check', check, Latest(check), r, at)
    BY <2>1, <2>3, StoredChain, FinishFields, Zenon
  <2>5. check'.state = "cancelled" /\ Latest(check') = Latest(check)
    BY <2>2, <2>4, Zenon DEF Finished
  <2>6. <<check.state>>' = Cancelled({1}) /\ <<Latest(check)>>' = <<Latest(check)>>
    BY <1>2, <2>5, Zenon DEF Latest
  <2>7. {1} \in SUBSET {c \in {1} : <<check.state>>[c] = "running"}
    BY <1>4, OneCheck, Zenon
  <2> QED  BY <1>1, <2>6, <2>7, Zenon DEF CheckPromise!CloseSession, CheckPromise!ChecksNext
<1> QED  BY <1>3, <1>4, Zenon DEF Stop

(***************************************************************************)
(* The check starts planned, with its first attempt running.               *)
(***************************************************************************)
LEMMA InitImplements == Init => CheckPromise!ChecksInit
<1> SUFFICES ASSUME Init PROVE CheckPromise!ChecksInit
  BY Zenon
<1>1. live = TRUE
  BY Zenon DEF Init
<1>2. check.state = "running"
  BY Zenon DEF Init, BeginAttempt, NewCheck
<1>3. \E a : check.attempts = Append(<< >>, a)
  BY Zenon DEF Init, BeginAttempt, NewCheck
<1>4. Latest(check) = 1
  BY <1>3 DEF Latest
<1> QED  BY <1>1, <1>2, <1>4, OneCheck, Zenon DEF CheckPromise!ChecksInit, CheckPromise!Planned

(***************************************************************************)
(* For any number of workers and service callers and any results: what the *)
(* execution task, ExecutionService.apply, skipRouteWork and the session's *)
(* end do to the check is what the contract of a session's checks allows.  *)
(* Attempts are counted one by one up to the limit, an ended check keeps   *)
(* its state, and nothing is applied after the session has stopped.        *)
(***************************************************************************)
THEOREM CheckImplements == Spec => ImplementsChecks
<1>1. ExecutionIInv /\ [Next]_vars
        => [CheckPromise!ChecksNext]_(CheckPromise!checkContractVars)
  <2> SUFFICES ASSUME ExecutionIInv, [Next]_vars
               PROVE  [CheckPromise!ChecksNext]_(CheckPromise!checkContractVars)
    BY Zenon
  <2>1. CASE \E w \in Workers : Prepare(w)
    BY <2>1, MoveImplements, Zenon DEF Prepare, rowVars, Same
  <2>2. CASE \E w \in Workers : Commit(w)
    BY <2>2, CommitImplements, Zenon
  <2>3. CASE \E c \in Services : ServiceFind(c)
    BY <2>3, MoveImplements, Zenon DEF ServiceFind, rowVars, Same
  <2>4. CASE \E c \in Services : ServiceSave(c)
    BY <2>4, ServiceSaveImplements, Zenon
  <2>5. CASE Stop
    BY <2>5, StopImplements, Zenon
  <2>6. CASE UNCHANGED vars
    BY <2>6, MoveImplements, Zenon DEF vars, Same
  <2> QED  BY <2>1, <2>2, <2>3, <2>4, <2>5, <2>6, Zenon DEF Next
<1> QED  BY <1>1, InitImplements, ExecutionInvariance, PTL
         DEF Spec, ImplementsChecks, CheckPromise!ChecksSpec
===============================================================================
