--------------------------- MODULE ProviderDispatch ---------------------------
(***************************************************************************)
(* How an attempt of a provider check reaches the provider, and how its    *)
(* one result comes back: internal/provider/execution.go (a provider that  *)
(* answers at once), internal/provider/async.go (one that is polled),      *)
(* internal/provider/callback.go (one that calls back), and the rows they  *)
(* share, internal/provider/postgres.  The caller is the provider branch   *)
(* of internal/verification/task/execute.go.                               *)
(*                                                                         *)
(* The remote call cannot be part of a transaction.  A worker may die      *)
(* after the provider has accepted the job and before anything is stored;  *)
(* the task is then delivered again.  A poll, a callback and the attempt's *)
(* deadline race for the result.                                           *)
(***************************************************************************)
EXTENDS Integers

CONSTANTS Workers,      \* deliveries of execution tasks in progress
          Callers,      \* callback requests in progress
          ReplayIDs,    \* provider replay identities, ordered like strings
          Jobs,         \* provider job references
          Answers,      \* terminal results a provider may report
          Retryable,    \* the answers that ask for another attempt
          MaxSemantic,  \* semantic attempts allowed (3 in the code)
          Deadline,     \* the deadline of the first attempt
          PollLease,    \* how long a poller owns the operation (45 s)
          PollDelay,    \* pause between polls (5 s)
          MaxTime,      \* bound on the clock
          None

Numbers == 1 .. MaxSemantic
Times == 0 .. MaxTime
Keys == {"execute", "async"}

(***************************************************************************)
(* DurableExecutor.uncertain and the deadline result of Expire; both ask   *)
(* for reconciliation.                                                     *)
(***************************************************************************)
Uncertain == "dispatch_requires_reconciliation"
Unresolved == "provider_job_unresolved"
Results == Answers \cup {Uncertain, Unresolved}

Progress == [job : Jobs \cup {None}, result : Answers \cup {None}]

(***************************************************************************)
(* provider_async_operations, provider_callback_receipts, a delivery in    *)
(* progress and a verified callback.                                       *)
(***************************************************************************)
Operation == [fence : Nat, lease : Nat \cup {None}, next : Nat, job : Jobs \cup {None}]
Receipt == [job : Jobs \cup {None}, result : Answers \cup {None}, at : Nat]
Steps == {"loaded", "claimed", "called", "prepared"}
Delivery == [attempt : Numbers, key : Keys, step : Steps, fence : Nat,
             initial : BOOLEAN, result : Results \cup {None}]
Inbound == [attempt : Numbers, replay : ReplayIDs, progress : Progress]

ASSUME DispatchConstants ==
    /\ MaxSemantic \in Nat \ {0} /\ Deadline \in Nat \ {0}
    /\ PollLease \in Nat \ {0} /\ PollDelay \in Nat \ {0}
    /\ MaxTime \in Nat /\ ReplayIDs \subseteq Nat
    /\ Retryable \subseteq Answers
    /\ None \notin Jobs /\ None \notin Results
    /\ None \notin Operation /\ None \notin Receipt
    /\ None \notin Delivery /\ None \notin Inbound
    /\ {"none", "pending", Uncertain, Unresolved} \cap Answers = {}

VARIABLES executor,     \* which executor the deployment's adapter selects
          request,      \* attempts that have a provider_requests row
          running,      \* attempts that are running; the newest at most
          task,         \* per attempt and key, the execution task
          dispatch,     \* provider_dispatches: "none", "pending" or a result
          operation,    \* provider_async_operations
          receipts,     \* provider_callback_receipts
          usage,        \* usage_receipts: <<attempt, event>>
          submitted,    \* external: submissions the provider received
          work,         \* per worker: how far its delivery has come
          callback,     \* per callback request: the verified progress
          applied,      \* the result the check accepted for the attempt
          active,       \* the session is processing or awaiting_external
          permitted,    \* current authority permits processing
          now

rows == <<request, running, task, dispatch, operation, receipts, usage, applied>>
vars == <<executor, rows, submitted, work, callback, active, permitted, now>>

NewTasks(key) == [q \in Keys |-> IF q = key THEN "pending" ELSE "none"]

(***************************************************************************)
(* persistPlannedCheck with Preparation.Prepare and SaveWithin: the first  *)
(* attempt, its request row and its task are stored together.  The key of  *)
(* the task follows the adapter.                                           *)
(***************************************************************************)
Init ==
    /\ executor \in {"durable", "async"}
    /\ request = {1}
    /\ running = {1}
    /\ task = [k \in Numbers |->
                 IF k > 1 THEN [q \in Keys |-> "none"]
                 ELSE NewTasks(IF executor = "async" THEN "async" ELSE "execute")]
    /\ dispatch = [k \in Numbers |-> "none"]
    /\ operation = [k \in Numbers |-> None]
    /\ receipts = [k \in Numbers |-> [i \in ReplayIDs |-> None]]
    /\ usage = {}
    /\ submitted = [k \in Numbers |-> 0]
    /\ work = [w \in Workers |-> None]
    /\ callback = [c \in Callers |-> None]
    /\ applied = [k \in Numbers |-> None]
    /\ active = TRUE
    /\ permitted = TRUE
    /\ now = 0

(***************************************************************************)
(* ValidateExecutionWithin.                                                *)
(***************************************************************************)
MayExecute == active /\ permitted

Stored(k) == dispatch[k] \notin {"none", "pending"}

(***************************************************************************)
(* adoptCallbackReceipt: the terminal receipt received last, the smaller   *)
(* replay identity first among equals.                                     *)
(***************************************************************************)
Terminal(k) == {i \in ReplayIDs : /\ receipts[k][i] # None
                                  /\ receipts[k][i].result # None}

LatestTerminal(k) ==
    CHOOSE i \in Terminal(k) : \A j \in Terminal(k) :
        \/ receipts[k][j].at < receipts[k][i].at
        \/ receipts[k][j].at = receipts[k][i].at /\ i <= j

(***************************************************************************)
(* Claim that recovers no existing row.                                    *)
(***************************************************************************)
MayClaimOnce(k) == dispatch[k] = "none" /\ active /\ k \in running

(***************************************************************************)
(* RequestStore.Claim.  A dispatch row that exists is recovered whatever   *)
(* the session does; a new one needs an active parent and a running        *)
(* newest attempt.                                                         *)
(***************************************************************************)
MayClaim(k) == dispatch[k] # "none" \/ (active /\ k \in running)

(***************************************************************************)
(* The result Claim returns: the stored one, or an adopted receipt.        *)
(***************************************************************************)
Claimed(k) == IF Stored(k) THEN dispatch[k]
              ELSE IF Terminal(k) # {} THEN receipts[k][LatestTerminal(k)].result
              ELSE None

(***************************************************************************)
(* appendProviderUsage inserts: a second row of one event would abort the  *)
(* transaction.                                                            *)
(***************************************************************************)
AppendUsage(events) == /\ events \cap usage = {}
                       /\ usage' = usage \cup events

(***************************************************************************)
(* What a transaction that claims attempt k leaves in the dispatch row and *)
(* the usage ledger: the row exists, with the result if there is one.      *)
(***************************************************************************)
ClaimRow(k) ==
    /\ dispatch' = [dispatch EXCEPT ![k] = IF Claimed(k) = None THEN "pending" ELSE Claimed(k)]
    /\ AppendUsage((IF dispatch[k] = "none" THEN {<<k, "provider_dispatch">>} ELSE {})
                   \cup (IF Claimed(k) # None /\ ~Stored(k)
                           THEN {<<k, "provider_terminal">>} ELSE {}))

(***************************************************************************)
(* Complete without its first-result-wins condition.                       *)
(***************************************************************************)
CompleteOverwriting(k, r) ==
    /\ dispatch[k] # "none"
    /\ dispatch' = [dispatch EXCEPT ![k] = r]
    /\ usage' = usage \cup {<<k, "provider_terminal">>}

(***************************************************************************)
(* Complete that meters nothing.                                           *)
(***************************************************************************)
CompleteUnmetered(k, r) ==
    /\ dispatch[k] = "pending"
    /\ dispatch' = [dispatch EXCEPT ![k] = r]
    /\ UNCHANGED usage

(***************************************************************************)
(* RequestStore.Complete: the first result is kept.                        *)
(***************************************************************************)
Complete(k, r) ==
    /\ dispatch[k] = "pending"
    /\ dispatch' = [dispatch EXCEPT ![k] = r]
    /\ AppendUsage({<<k, "provider_terminal">>})

Idle(w) == work' = [work EXCEPT ![w] = None]
At(w, step) == work[w] # None /\ work[w].step = step

Job(k, key, step, fence, initial, result) ==
    [attempt |-> k, key |-> key, step |-> step, fence |-> fence,
     initial |-> initial, result |-> result]

(***************************************************************************)
(* Prepare up to RequestStore.Load: the check is found, the session may    *)
(* execute and the attempt has its request.  A task without a request row  *)
(* is retried and changes nothing.  An asynchronous task past the deadline *)
(* goes to Expire instead.                                                 *)
(***************************************************************************)
Load(w) ==
    \E k \in Numbers, key \in Keys :
        /\ work[w] = None /\ task[k][key] = "pending"
        /\ MayExecute /\ k \in request
        /\ key = "async" => now < Deadline
        /\ work' = [work EXCEPT ![w] = Job(k, key, "loaded", 0, FALSE, None)]
        /\ UNCHANGED <<executor, rows, submitted, callback, active, permitted, now>>

(***************************************************************************)
(* Prepare when the session may no longer execute: FindCheck refuses and   *)
(* the task is quarantined.                                                *)
(***************************************************************************)
PrepareStopped ==
    \E k \in Numbers, key \in Keys :
        /\ task[k][key] = "pending" /\ ~MayExecute
        /\ task' = [task EXCEPT ![k][key] = "quarantined"]
        /\ UNCHANGED <<executor, request, running, dispatch, operation, receipts, usage,
                       applied, submitted, work, callback, active, permitted, now>>

(***************************************************************************)
(* DurableExecutor.Execute until the remote call: a result is returned, a  *)
(* claim that is not ours is pending, our claim calls the provider.        *)
(***************************************************************************)
ClaimDispatch(w) ==
    /\ executor = "durable" /\ At(w, "loaded")
    /\ LET k == work[w].attempt
           r == Claimed(k)
       IN  IF ~MayClaim(k)
             THEN Idle(w) /\ UNCHANGED <<dispatch, usage>>
             ELSE /\ ClaimRow(k)
                  /\ work' = [work EXCEPT ![w] =
                       IF r # None
                         THEN [work[w] EXCEPT !.step = "prepared", !.result = r]
                       ELSE IF dispatch[k] = "none"
                         THEN [work[w] EXCEPT !.step = "claimed", !.initial = TRUE]
                       ELSE None]
    /\ UNCHANGED <<executor, request, running, task, operation, receipts, applied,
                   submitted, callback, active, permitted, now>>

(***************************************************************************)
(* ClaimAsync's lease that keeps the fence of its predecessor.             *)
(***************************************************************************)
LeaseKeepingFence(o) == [o EXCEPT !.lease = now + PollLease]

(***************************************************************************)
(* ClaimAsync: the poller takes the operation under a new fence.           *)
(***************************************************************************)
Lease(o) == [o EXCEPT !.fence = @ + 1, !.lease = now + PollLease]

NewOperation == [fence |-> 0, lease |-> None, next |-> now, job |-> None]

Leased(o) == o.lease # None /\ o.lease > now

(***************************************************************************)
(* AsyncExecutor.Execute and ClaimAsync until the remote call: the first   *)
(* claim submits, every later one asks for the status.  The claim, the     *)
(* adopted receipt and the lease are one transaction.                      *)
(***************************************************************************)
ClaimAsync(w) ==
    /\ executor = "async" /\ At(w, "loaded")
    /\ LET k == work[w].attempt
           r == Claimed(k)
           o == IF operation[k] = None THEN NewOperation ELSE operation[k]
           taken == o.next > now \/ Leased(o)
       IN  IF ~(now < Deadline /\ MayExecute /\ k \in running /\ MayClaim(k))
             THEN Idle(w) /\ UNCHANGED <<dispatch, usage, operation>>
             ELSE /\ ClaimRow(k)
                  /\ operation' = IF r # None THEN operation
                                  ELSE [operation EXCEPT ![k] = IF taken THEN o ELSE Lease(o)]
                  /\ work' = [work EXCEPT ![w] =
                       IF r # None
                         THEN [work[w] EXCEPT !.step = "prepared", !.result = r]
                       ELSE IF taken THEN None
                       ELSE [work[w] EXCEPT !.step = "claimed", !.fence = Lease(o).fence,
                                            !.initial = (dispatch[k] = "none")]]
    /\ UNCHANGED <<executor, request, running, task, receipts, applied, submitted,
                   callback, active, permitted, now>>

(***************************************************************************)
(* Advance called without its resume flag: every call submits.             *)
(***************************************************************************)
CallAfresh(w) ==
    /\ At(w, "claimed")
    /\ work' = [work EXCEPT ![w].step = "called"]
    /\ submitted' = [submitted EXCEPT ![work[w].attempt] = @ + 1]
    /\ UNCHANGED <<executor, rows, callback, active, permitted, now>>

(***************************************************************************)
(* The call leaves for the provider.  Execute and an initial Advance       *)
(* submit; a later Advance has resume set and submits nothing.             *)
(***************************************************************************)
Call(w) ==
    /\ At(w, "claimed")
    /\ work' = [work EXCEPT ![w].step = "called"]
    /\ submitted' = IF work[w].initial
                      THEN [submitted EXCEPT ![work[w].attempt] = @ + 1]
                      ELSE submitted
    /\ UNCHANGED <<executor, rows, callback, active, permitted, now>>

(***************************************************************************)
(* DurableExecutor.Execute after the call: a valid answer, or the stable   *)
(* ambiguity outcome when the reply was lost or invalid.  When another     *)
(* result was stored first Complete fails and the task is retried.         *)
(***************************************************************************)
AnswerDispatch(w) ==
    /\ executor = "durable" /\ At(w, "called")
    /\ LET k == work[w].attempt
       IN  \E r \in Answers \cup {Uncertain} :
              \/ /\ Complete(k, r)
                 /\ work' = [work EXCEPT ![w].step = "prepared", ![w].result = r]
              \/ /\ ~(dispatch[k] = "pending")
                 /\ Idle(w) /\ UNCHANGED <<dispatch, usage>>
    /\ UNCHANGED <<executor, request, running, task, operation, receipts, applied,
                   submitted, callback, active, permitted, now>>

(***************************************************************************)
(* SaveProgress's update condition: the current fence, inside its lease,   *)
(* with no other job recorded.                                             *)
(***************************************************************************)
MaySave(w, p) ==
    LET o == operation[work[w].attempt]
    IN  /\ o.fence = work[w].fence /\ Leased(o)
        /\ o.job = None \/ p.job = None \/ o.job = p.job

(***************************************************************************)
(* AsyncExecutor.Execute after the call.  A failed or invalid answer is    *)
(* empty progress.  Releasing the operation and storing a result are one   *)
(* transaction: when another result was stored first both roll back.       *)
(***************************************************************************)
SaveProgress(w) ==
    /\ executor = "async" /\ At(w, "called")
    /\ LET k == work[w].attempt
           o == operation[k]
       IN  \E p \in Progress :
              \/ /\ MaySave(w, p)
                 /\ operation' = [operation EXCEPT ![k] =
                      [o EXCEPT !.job = IF o.job = None THEN p.job ELSE o.job,
                                !.lease = None, !.next = now + PollDelay]]
                 /\ IF p.result = None
                      THEN Idle(w) /\ UNCHANGED <<dispatch, usage>>
                      ELSE /\ Complete(k, p.result)
                           /\ work' = [work EXCEPT ![w].step = "prepared", ![w].result = p.result]
              \/ /\ ~MaySave(w, p) \/ (p.result # None /\ ~(dispatch[k] = "pending"))
                 /\ Idle(w) /\ UNCHANGED <<dispatch, usage, operation>>
    /\ UNCHANGED <<executor, request, running, task, receipts, applied, submitted,
                   callback, active, permitted, now>>

(***************************************************************************)
(* The result Expire leaves: what was received, or the unresolved timeout. *)
(***************************************************************************)
ExpireResult(k) == IF Claimed(k) # None THEN Claimed(k) ELSE Unresolved

(***************************************************************************)
(* Prepare of an asynchronous task past the attempt's deadline:            *)
(* RequestStore.Expire loads the request and, in one transaction, claims   *)
(* the dispatch and completes it unless a result was received.             *)
(***************************************************************************)
Expire(w) ==
    \E k \in Numbers :
        /\ work[w] = None /\ task[k]["async"] = "pending"
        /\ now >= Deadline /\ MayExecute /\ k \in request /\ MayClaim(k)
        /\ dispatch' = [dispatch EXCEPT ![k] = ExpireResult(k)]
        /\ AppendUsage((IF dispatch[k] = "none" THEN {<<k, "provider_dispatch">>} ELSE {})
                       \cup (IF Stored(k) THEN {} ELSE {<<k, "provider_terminal">>}))
        /\ work' = [work EXCEPT ![w] = Job(k, "async", "prepared", 0, FALSE, ExpireResult(k))]
        /\ UNCHANGED <<executor, request, running, task, operation, receipts, applied,
                       submitted, callback, active, permitted, now>>

AsksRetry(r) == r \in Retryable \cup {Uncertain, Unresolved}

(***************************************************************************)
(* The fenced transaction of ExecuteHandler.commit, as far as dispatch     *)
(* sees it.  The check accepts the result for a running attempt and        *)
(* ignores one for a finished attempt.  A failure that asks for it starts  *)
(* the next attempt with its task (semanticRetry); no request row is       *)
(* written.  A result outside the attempt's window quarantines the task,   *)
(* as does a stopped session; Unresolved is stamped with the deadline and  *)
(* is never outside.                                                       *)
(***************************************************************************)
Commit(w) ==
    /\ At(w, "prepared")
    /\ LET k == work[w].attempt
           key == work[w].key
           r == work[w].result
       IN  \/ /\ task[k][key] = "pending" /\ MayExecute
              /\ IF k \notin running
                   THEN /\ task' = [task EXCEPT ![k][key] = "done"]
                        /\ UNCHANGED <<running, applied>>
                   ELSE /\ applied' = [applied EXCEPT ![k] = r]
                        /\ \/ /\ AsksRetry(r) /\ k < MaxSemantic
                              /\ running' = (running \ {k}) \cup {k + 1}
                              /\ \E next \in IF r \in Retryable THEN Keys ELSE {"async"} :
                                   task' = [task EXCEPT ![k][key] = "done",
                                                        ![k + 1] = NewTasks(next)]
                           \/ /\ running' = running \ {k}
                              /\ task' = [task EXCEPT ![k][key] = "done"]
           \/ /\ task[k][key] = "pending"
              /\ ~MayExecute \/ (k \in running /\ r # Unresolved)
              /\ task' = [task EXCEPT ![k][key] = "quarantined"]
              /\ UNCHANGED <<running, applied>>
           \/ /\ task[k][key] # "pending"
              /\ UNCHANGED <<task, running, applied>>
    /\ Idle(w)
    /\ UNCHANGED <<executor, request, dispatch, operation, receipts, usage, submitted,
                   callback, active, permitted, now>>

(***************************************************************************)
(* A worker dies, or its lease on the task lapses: the task is delivered   *)
(* again.                                                                  *)
(***************************************************************************)
Crash(w) ==
    /\ work[w] # None
    /\ Idle(w)
    /\ UNCHANGED <<executor, rows, submitted, callback, active, permitted, now>>

(***************************************************************************)
(* CallbackService.Handle until the receipt is saved: ResolveCallback      *)
(* finds the request of a running attempt before its deadline, and the     *)
(* adapter verifies the envelope.                                          *)
(***************************************************************************)
ResolveCallback(c) ==
    \E k \in running \cap request, i \in ReplayIDs, p \in Progress :
        /\ callback[c] = None /\ now < Deadline
        /\ callback' = [callback EXCEPT ![c] = [attempt |-> k, replay |-> i, progress |-> p]]
        /\ UNCHANGED <<executor, rows, submitted, work, active, permitted, now>>

(***************************************************************************)
(* SaveCallbackProgress: a new identity is inserted, a pending receipt is  *)
(* replaced by a terminal one, anything else is a duplicate or a conflict  *)
(* and changes nothing.                                                    *)
(***************************************************************************)
Accepts(old, p) == old = None \/ (old.result = None /\ p.result # None)

(***************************************************************************)
(* SaveCallbackProgress and the wake-up: an accepted terminal receipt      *)
(* enqueues the asynchronous task of the attempt unless its key was used   *)
(* before; the wake-up may fail.                                           *)
(***************************************************************************)
SaveCallback(c) ==
    /\ callback[c] # None
    /\ LET k == callback[c].attempt
           i == callback[c].replay
           p == callback[c].progress
           old == receipts[k][i]
       IN  IF ~Accepts(old, p)
             THEN UNCHANGED <<receipts, task>>
             ELSE /\ receipts' = [receipts EXCEPT ![k][i] =
                       [job |-> IF old # None /\ old.job # None THEN old.job ELSE p.job,
                        result |-> p.result, at |-> now]]
                  /\ \/ UNCHANGED task
                     \/ /\ p.result # None /\ now < Deadline
                        /\ task[k]["async"] = "none"
                        /\ task' = [task EXCEPT ![k]["async"] = "pending"]
    /\ callback' = [callback EXCEPT ![c] = None]
    /\ UNCHANGED <<executor, request, running, dispatch, operation, usage, applied,
                   submitted, work, active, permitted, now>>

(***************************************************************************)
(* The session stops (cancelled, expired, failed), or authority is         *)
(* withdrawn.                                                              *)
(***************************************************************************)
Stop ==
    /\ \/ active /\ active' = FALSE /\ UNCHANGED permitted
       \/ permitted /\ permitted' = FALSE /\ UNCHANGED active
    /\ UNCHANGED <<executor, rows, submitted, work, callback, now>>

Tick ==
    /\ now < MaxTime
    /\ now' = now + 1
    /\ UNCHANGED <<executor, rows, submitted, work, callback, active, permitted>>

Step(w) ==
    \/ Load(w) \/ ClaimDispatch(w) \/ ClaimAsync(w) \/ Call(w)
    \/ AnswerDispatch(w) \/ SaveProgress(w) \/ Expire(w) \/ Commit(w)

Next ==
    \/ \E w \in Workers : Step(w) \/ Crash(w)
    \/ \E c \in Callers : ResolveCallback(c) \/ SaveCallback(c)
    \/ PrepareStopped \/ Stop \/ Tick

Spec == Init /\ [][Next]_vars

(***************************************************************************)
(* The queue redelivers a task until it is done, and a running worker goes *)
(* on; the clock runs.  Crashes and callbacks are not owed.                *)
(***************************************************************************)
FairSpec == Spec /\ WF_vars(Tick) /\ \A w \in Workers : WF_vars(Step(w))

(***************************************************************************)
(* An attempt is submitted to the provider at most once, however often its *)
(* task is delivered and wherever workers die (AsyncExecutor.Execute,      *)
(* DurableExecutor.Execute over RequestStore.Claim).                       *)
(***************************************************************************)
SubmittedOnce == \A k \in Numbers : submitted[k] <= 1

(***************************************************************************)
(* Usage is metered exactly: a dispatch row has one dispatch event, a      *)
(* stored result one terminal event, and nothing else is metered.          *)
(***************************************************************************)
UsageIsExact ==
    \A k \in Numbers :
        /\ <<k, "provider_dispatch">> \in usage <=> dispatch[k] # "none"
        /\ <<k, "provider_terminal">> \in usage <=> Stored(k)

Polls(w, k) == /\ work[w] # None /\ work[w].attempt = k
               /\ work[w].step \in {"claimed", "called"}

(***************************************************************************)
(* Two workers never both hold a running poll lease of one attempt: the    *)
(* fence of ClaimAsync tells the holder from a worker whose lease lapsed.  *)
(***************************************************************************)
OnePoller ==
    \A k \in Numbers, v, w \in Workers :
        /\ operation[k] # None /\ Leased(operation[k])
        /\ Polls(v, k) /\ work[v].fence = operation[k].fence
        /\ Polls(w, k) /\ work[w].fence = operation[k].fence
        => v = w

(***************************************************************************)
(* The first stored result is never replaced (Complete,                    *)
(* adoptCallbackReceipt and Expire share one guard).                       *)
(***************************************************************************)
FirstResultWins ==
    [][\A k \in Numbers : Stored(k) => dispatch'[k] = dispatch[k]]_vars

(***************************************************************************)
(* Under FairSpec an asynchronous attempt with a request always gets a     *)
(* stored result while the session may execute: the provider's, or the     *)
(* timeout of Expire.                                                      *)
(***************************************************************************)
AsyncResolves == executor = "async" => <>(Stored(1) \/ ~MayExecute)

=============================================================================
