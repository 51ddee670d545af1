---------------------------- MODULE CheckExecution ----------------------------
(***************************************************************************)
(* One verification check from planning to its last result: the execution  *)
(* task of internal/verification/task/execute.go, the application service  *)
(* of internal/verification/execution_service.go, and the store both write *)
(* through, internal/verification/postgres/execution_store.go.             *)
(*                                                                         *)
(* A worker prepares a result outside any transaction and commits it in    *)
(* one serializable transaction together with the completion of its task.  *)
(* The task queue delivers at least once: two workers may prepare the same *)
(* attempt, and the queue's fence lets one of them commit.  The service    *)
(* reads the check in one transaction and saves it in another.  The        *)
(* session may stop (cancellation, expiry, withdrawn authority) at any     *)
(* time.                                                                   *)
(***************************************************************************)
EXTENDS CheckAggregate

CONSTANTS Workers,          \* deliveries of execution tasks in progress
          Services,         \* callers of ExecutionService.ApplyResult
          Results,          \* results a runner may report, a subset of Result
          MaxSemantic,      \* semantic attempts allowed (3 in the code)
          MaxDuration,      \* MaximumExecuteDuration
          ExpiresAt,        \* the session's deadline
          MaxInstant,       \* bound on instants reported by runners
          MaxSaves          \* bound: no service call after this many saves

Times == 0 .. MaxInstant

VARIABLES check,            \* the check, its attempts and diagnostics
          inbox,            \* verification_result_inbox
          reconciliations,  \* verification_reconciliations: <<attempt, reason>>
          outbox,           \* check progress rows, in commit order
          task,             \* the execution task of every attempt
          work,             \* per worker: the prepared result
          call,             \* per service call: the check it read, the result
          live              \* ValidateExecutionWithin permits execution

vars == <<check, inbox, reconciliations, outbox, task, work, call, live>>

Numbers == 1 .. MaxSemantic

ASSUME ExecutionConstants ==
    /\ MaxSemantic \in Nat \ {0} /\ MaxDuration \in Nat \ {0}
    /\ ExpiresAt \in Nat \ {0} /\ MaxInstant \in Nat /\ MaxSaves \in Nat
    /\ MinRetryAfter \in Nat \ {0} /\ MaxRetryAfter \in Nat
    /\ MinRetryAfter <= MaxRetryAfter
    /\ RunnerKind \in {"provider", "model"}
    /\ Results \subseteq Result /\ None \notin Result
    /\ None \notin {"passed", "not_passed", "inconclusive"}

Minimum(a, b) == IF a < b THEN a ELSE b

Progress(c) == [version |-> c.version, state |-> c.state]

(***************************************************************************)
(* persistPlannedCheck: the check is stored with its first attempt running *)
(* and its task enqueued.                                                  *)
(***************************************************************************)
Init ==
    /\ check = BeginAttempt(NewCheck(0), 0, Minimum(MaxDuration, ExpiresAt))
    /\ inbox = {}
    /\ reconciliations = {}
    /\ outbox = << Progress(check) >>
    /\ task = [k \in Numbers |-> IF k = 1 THEN "pending" ELSE "none"]
    /\ work = [w \in Workers |-> None]
    /\ call = [s \in Services |-> None]
    /\ live = TRUE

HasReconciliation(k) == \E r \in reconciliations : r[1] = k

(***************************************************************************)
(* Reconciliation rows as they would be if only conflicts were recorded.   *)
(***************************************************************************)
NewReconciliationsConflictOnly(c) ==
    {<<d.attempt, d.kind>> : d \in {d \in c.diagnostics \ check.diagnostics :
        d.kind = "conflict" /\ ~HasReconciliation(d.attempt)}}

(***************************************************************************)
(* persistDiagnostics: a diagnostic row that is new asks for               *)
(* reconciliation when it is stale or conflicting.  An attempt has one     *)
(* reconciliation, whatever its reason: a second insert does nothing.      *)
(***************************************************************************)
NewReconciliations(c) ==
    {<<d.attempt, d.kind>> : d \in {d \in c.diagnostics \ check.diagnostics :
        d.kind \in {"stale", "conflict"} /\ ~HasReconciliation(d.attempt)}}

(***************************************************************************)
(* saveCheck as it would be if a save that leaves the check's state alone  *)
(* published no progress.                                                  *)
(***************************************************************************)
saveCheckQuietly(c, receipts) ==
    /\ check' = c
    /\ inbox' = inbox \cup receipts
    /\ reconciliations' = reconciliations \cup NewReconciliations(c)
    /\ outbox' = IF c.state = check.state THEN outbox ELSE Append(outbox, Progress(c))

(***************************************************************************)
(* saveCheck: inbox claim, check, attempts, diagnostics, reconciliation    *)
(* intents and one progress row in the caller's transaction.               *)
(***************************************************************************)
saveCheck(c, receipts) ==
    /\ check' = c
    /\ inbox' = inbox \cup receipts
    /\ reconciliations' = reconciliations \cup NewReconciliations(c)
    /\ outbox' = Append(outbox, Progress(c))

rowVars == <<check, inbox, reconciliations, outbox>>

Receipt(job) == [attempt |-> job.attempt, result |-> job.result, at |-> job.at]

(***************************************************************************)
(* The attempt limit of semanticRetry, off by one.                         *)
(***************************************************************************)
MayRetryOnceMore(c, k, at) ==
    /\ Latest(c) <= MaxSemantic /\ k = Latest(c)
    /\ IsFailure(c.attempts[k].result)
    /\ c.attempts[k].result.retry \in {"backoff", "reconcile"}
    /\ at + c.attempts[k].result.after < ExpiresAt

(***************************************************************************)
(* semanticRetry: whether the failure just applied gets a successor.       *)
(***************************************************************************)
MayRetry(c, k, at) ==
    /\ Latest(c) < MaxSemantic /\ k = Latest(c)
    /\ IsFailure(c.attempts[k].result)
    /\ c.attempts[k].result.retry \in {"backoff", "reconcile"}
    /\ at + c.attempts[k].result.after < ExpiresAt

RetryStart(c, k, at) == at + c.attempts[k].result.after

RetryDeadline(c, k, at) == Minimum(RetryStart(c, k, at) + MaxDuration, ExpiresAt)

WithSuccessor(c, k, at) ==
    BeginAttempt(c, RetryStart(c, k, at), RetryDeadline(c, k, at))

(***************************************************************************)
(* Prepare: the check is found in a live session and the runner answers;   *)
(* or route admission says skip.  A stopped session quarantines the task.  *)
(***************************************************************************)
Prepare(w) ==
    \E k \in Numbers :
        /\ work[w] = None /\ task[k] = "pending"
        /\ IF live
             THEN /\ \E r \in Results \cup {None}, at \in Times :
                       work' = [work EXCEPT ![w] = [attempt |-> k, result |-> r, at |-> at]]
                  /\ UNCHANGED task
             ELSE /\ task' = [task EXCEPT ![k] = "quarantined"]
                  /\ UNCHANGED work
        /\ UNCHANGED <<rowVars, call, live>>

(***************************************************************************)
(* What the fenced transaction of a worker does with its prepared job.     *)
(* The applied check is the one read in that transaction.                  *)
(***************************************************************************)
Applied(job) == ApplyResult(check, job.attempt, job.result, job.at)

Applies(job) == Disposition(check, job.attempt) = "apply"

Retries(job) == Applies(job) /\ MayRetry(Applied(job), job.attempt, job.at)

(***************************************************************************)
(* A retryable failure whose successor BeginAttempt refuses.               *)
(***************************************************************************)
Refused(job) ==
    Retries(job) /\ ~CanBeginAttempt(Applied(job), RetryStart(Applied(job), job.attempt, job.at),
                                     RetryDeadline(Applied(job), job.attempt, job.at))

(***************************************************************************)
(* The errors that end the task: a result outside its attempt's window, a  *)
(* receipt not yet committed in a session that has stopped.                *)
(***************************************************************************)
CommitQuarantine(job) ==
    /\ \/ ~InWindow(check, job.attempt, job.at)
       \/ ~Refused(job) /\ Receipt(job) \notin inbox /\ ~live
    /\ task' = [task EXCEPT ![job.attempt] = "quarantined"]
    /\ UNCHANGED rowVars

(***************************************************************************)
(* A refused successor rolls the transaction back, and the queue retries   *)
(* the task or, its attempts used up, quarantines it.                      *)
(***************************************************************************)
CommitRetry(job) ==
    /\ InWindow(check, job.attempt, job.at) /\ Refused(job)
    /\ \E s \in {"pending", "quarantined"} : task' = [task EXCEPT ![job.attempt] = s]
    /\ UNCHANGED rowVars

(***************************************************************************)
(* findResultReplay: a committed receipt completes the task, no effects.   *)
(***************************************************************************)
CommitReplay(job) ==
    /\ InWindow(check, job.attempt, job.at) /\ ~Refused(job)
    /\ Receipt(job) \in inbox
    /\ task' = [task EXCEPT ![job.attempt] = "done"]
    /\ UNCHANGED rowVars

(***************************************************************************)
(* The save as it would be if the successor's task were enqueued later.    *)
(***************************************************************************)
CommitSaveNoEnqueue(job) ==
    LET c == Applied(job) IN
    /\ InWindow(check, job.attempt, job.at) /\ ~Refused(job)
    /\ Receipt(job) \notin inbox /\ live
    /\ saveCheck(IF Retries(job) THEN WithSuccessor(c, job.attempt, job.at) ELSE c,
                 {Receipt(job)})
    /\ task' = [task EXCEPT ![job.attempt] = "done"]

(***************************************************************************)
(* The save: result, successor attempt, its task and the completion of     *)
(* this one commit together.                                               *)
(***************************************************************************)
CommitSave(job) ==
    LET c == Applied(job) IN
    /\ InWindow(check, job.attempt, job.at) /\ ~Refused(job)
    /\ Receipt(job) \notin inbox /\ live
    /\ saveCheck(IF Retries(job) THEN WithSuccessor(c, job.attempt, job.at) ELSE c,
                 {Receipt(job)})
    /\ task' = [k \in Numbers |->
                  IF k = job.attempt THEN "done"
                  ELSE IF Retries(job) /\ k = job.attempt + 1 THEN "pending"
                  ELSE task[k]]

(***************************************************************************)
(* The skip as it would be if only Prepare looked at the session.          *)
(***************************************************************************)
CommitSkipLate(job) ==
    IF CanSkipRunning(check, job.at)
      THEN /\ saveCheck(SkipRunning(check, job.at), {})
           /\ task' = [task EXCEPT ![job.attempt] = "done"]
      ELSE /\ task' = [task EXCEPT ![job.attempt] = "quarantined"]
           /\ UNCHANGED rowVars

(***************************************************************************)
(* skipRouteWork: SkipRunning at the worker's own clock, or quarantine.    *)
(***************************************************************************)
CommitSkip(job) ==
    IF CanSkipRunning(check, job.at) /\ live
      THEN /\ saveCheck(SkipRunning(check, job.at), {})
           /\ task' = [task EXCEPT ![job.attempt] = "done"]
      ELSE /\ task' = [task EXCEPT ![job.attempt] = "quarantined"]
           /\ UNCHANGED rowVars

(***************************************************************************)
(* The end of a delivery.  When the task is no longer pending the queue's  *)
(* fence rejects the completion and the transaction rolls back; a worker   *)
(* may also crash before its transaction.                                  *)
(***************************************************************************)
Commit(w) ==
    LET job == work[w] IN
    /\ job # None
    /\ work' = [work EXCEPT ![w] = None]
    /\ \/ UNCHANGED <<rowVars, task>>
       \/ /\ task[job.attempt] = "pending"
          /\ IF job.result = None
               THEN CommitSkip(job)
               ELSE \/ CommitQuarantine(job) \/ CommitRetry(job)
                    \/ CommitReplay(job) \/ CommitSave(job)
    /\ UNCHANGED <<call, live>>

(***************************************************************************)
(* ExecutionService.apply, first transaction: FindCheck in a live session, *)
(* and the delivery the caller wants applied.                              *)
(***************************************************************************)
ServiceFind(s) ==
    /\ call[s] = None /\ live /\ Len(outbox) < MaxSaves
    /\ \E k \in 1 .. Latest(check), r \in Results, at \in Times :
         call' = [call EXCEPT ![s] = [read |-> check, attempt |-> k,
                                      result |-> r, at |-> at]]
    /\ UNCHANGED <<rowVars, task, work, live>>

(***************************************************************************)
(* LockVerificationCheck and the comparison with ExpectedVersion.          *)
(***************************************************************************)
VersionMatches(c) == check.version = c.read.version

(***************************************************************************)
(* ExecutionService.apply, second transaction: the aggregate read earlier  *)
(* takes the result; the save claims the receipt and compares versions.    *)
(* Every other answer changes nothing.                                     *)
(***************************************************************************)
ServiceSave(s) ==
    LET c == call[s] IN
    /\ c # None
    /\ call' = [call EXCEPT ![s] = None]
    /\ IF /\ InWindow(c.read, c.attempt, c.at)
          /\ Receipt(c) \notin inbox /\ live /\ VersionMatches(c)
         THEN saveCheck(ApplyResult(c.read, c.attempt, c.result, c.at), {Receipt(c)})
         ELSE UNCHANGED rowVars
    /\ UNCHANGED <<task, work, live>>

(***************************************************************************)
(* The session stops.  A cancellation closes a running check that was not  *)
(* dispatched (cancelUndispatchedChecksWithin); expiry, and a dispatched   *)
(* check, leave it running.                                                *)
(***************************************************************************)
Stop ==
    /\ live /\ live' = FALSE
    /\ \/ UNCHANGED rowVars
       \/ /\ check.state = "running"
          /\ \E at \in Times :
               /\ at >= check.updatedAt
               /\ at >= check.attempts[Latest(check)].startedAt
               /\ saveCheck(CancelRunning(check, at), {})
    /\ UNCHANGED <<task, work, call>>

Next ==
    \/ \E w \in Workers : Prepare(w) \/ Commit(w)
    \/ \E s \in Services : ServiceFind(s) \/ ServiceSave(s)
    \/ Stop

Spec == Init /\ [][Next]_vars
-------------------------------------------------------------------------------
At(k) == check.attempts[k]

(***************************************************************************)
(* The attempts form one chain.  There are at most MaxSemantic of them;    *)
(* only the last may be running, and it is running exactly when the check  *)
(* is; every earlier one failed or timed out with a retryable failure, its *)
(* successor starts at or after its end, and no attempt outlives the       *)
(* session.  RestoreCheck would refuse to load anything else.              *)
(***************************************************************************)
AttemptsAreChain ==
    /\ Latest(check) \in Numbers
    /\ check.state = "running" <=> At(Latest(check)).state = "running"
    /\ check.state = "completed" <=> check.outcome # None
    /\ check.state \notin {"running", "skipped_by_policy"} =>
         check.state = At(Latest(check)).state
    /\ \A k \in 1 .. Latest(check) :
         /\ At(k).startedAt < At(k).deadline /\ At(k).deadline <= ExpiresAt
         /\ At(k).state # "running" <=> At(k).result # None
         /\ k < Latest(check) =>
              /\ At(k).state \in {"failed", "timed_out"}
              /\ At(k).result.retry # "never"
              /\ At(k).finishedAt <= At(k + 1).startedAt

(***************************************************************************)
(* A running check is still driven: the task of its running attempt has    *)
(* not been completed.  The successor of a retried attempt and its task    *)
(* appear together, and no replay or late delivery completes the task of   *)
(* an attempt that has no result yet.                                      *)
(***************************************************************************)
RunningIsDriven ==
    check.state = "running" => task[Latest(check)] \in {"pending", "quarantined"}

(***************************************************************************)
(* No accepted result is lost or applied twice: every receipt in the inbox *)
(* is the result of its attempt (in the sense of digestResult), or its     *)
(* attempt has a reconciliation for a stale or a conflicting delivery.     *)
(* Conversely an attempt that a runner finished has its receipt.           *)
(***************************************************************************)
ResultsAreAccounted ==
    /\ \A row \in inbox :
         \/ /\ At(row.attempt).result # None
            /\ Digest(Normalise(row.result), row.at)
                 = Digest(At(row.attempt).result, At(row.attempt).finishedAt)
         \/ \E reason \in {"stale", "conflict"} :
              <<row.attempt, reason>> \in reconciliations
    /\ \A k \in 1 .. Latest(check) :
         At(k).state # "running" /\ (IsFailure(At(k).result) => At(k).result.code = "runner")
           => \E row \in inbox : /\ row.attempt = k /\ row.at = At(k).finishedAt
                                 /\ Normalise(row.result) = At(k).result

(***************************************************************************)
(* The progress rows grow in version, and the last one shows the check as  *)
(* it is: a consumer that replays them in order ends in the current state, *)
(* whichever path saved it.                                                *)
(***************************************************************************)
ProgressIsComplete ==
    /\ outbox[Len(outbox)] = Progress(check)
    /\ \A i \in 1 .. Len(outbox) - 1 : outbox[i].version < outbox[i + 1].version

(***************************************************************************)
(* The check in full detail keeps what the checks of a session promise:    *)
(* whatever is delivered twice, late or by the service beside the worker,  *)
(* its attempts are counted one by one up to the limit, a finished check   *)
(* stays as it is, and a stopped session changes nothing more.             *)
(***************************************************************************)
CheckPromise == INSTANCE CheckContract WITH
    Checks <- {1}, state <- <<check.state>>, attempt <- <<Latest(check)>>, open <- live

ImplementsChecks == CheckPromise!ChecksSpec

===============================================================================
