------------------------- MODULE VerificationWorkflow -------------------------
(***************************************************************************)
(* One verification session driven by all of its handlers: capture, the    *)
(* planner (internal/verification/postgres/processing.go), execution tasks *)
(* with their route gate and external wait, the policy author and its      *)
(* routing, review evaluation, cancellation, expiry and resume.            *)
(*                                                                         *)
(* The parts that have a module of their own appear here by what they do   *)
(* to the session and its checks: an execution result is accepted at most  *)
(* once per attempt (CheckExecution), a dispatch gets at most one stored   *)
(* result (ProviderDispatch), a lifecycle command moves the row by one     *)
(* version (SessionLifecycle).  Every action is one transaction; a task    *)
(* delivery is several of them with anything in between.                   *)
(***************************************************************************)
EXTENDS Lifecycle, Sequences, FiniteSets

CONSTANTS Checks,       \* the planned checks
          DependsOn,    \* per check: its dependencies, in plan order
          FallbackFor,  \* per check: the check it replaces, or None
          Async,        \* the checks whose provider answers later
          Workers,      \* execution deliveries in progress
          Authors,      \* policy author deliveries in progress
          Clients,      \* API callers that cancel or resume
          Outcomes,     \* what a runner may report
          Verdicts,     \* what policy evaluation may select
          MaxSemantic,  \* attempts of one check (3 in the code)
          MaxResponses  \* bound on further subject responses

VARIABLES session,      \* state and version of the session row
          captured,     \* capture_completed_at is set
          check,        \* state of every check, "none" before planning
          attempt,      \* number of every check's latest attempt
          dispatch,     \* dispatch row of the latest attempt
          response,     \* number of the latest subject response
          fresh,        \* it was recorded since the session row changed
          observed,     \* the response current at the last check update
          routed,       \* routing receipt: the target it recorded
          decision,     \* decision row: the check facts it rests on
          input,        \* an input request is active
          case,         \* a review case exists
          work,         \* per worker: its delivery
          author,       \* per author: its prepared evaluation
          client,       \* per client: the version it read
          permitted,    \* authority and latest response permit processing
          due           \* the session's deadline has passed

sessionVars == <<session, captured, fresh>>
checkVars   == <<check, attempt, dispatch, observed>>
policyVars  == <<routed, decision, input, case>>
taskVars    == <<work, author, client>>
worldVars   == <<response, permitted, due>>
vars == <<sessionVars, checkVars, policyVars, taskVars, worldVars>>

TerminalStates == {"completed", "skipped_by_policy", "timed_out", "cancelled", "failed"}

TerminalCheck(s) == s \in TerminalStates

CheckStates == TerminalStates \cup {"none", "running"}

(***************************************************************************)
(* A dispatch row, an execution delivery and a prepared evaluation.        *)
(***************************************************************************)
Dispatch == [outcome : {"pending"}, seen : {0}] \cup [outcome : Outcomes, seen : Nat]

Delivery ==
    [check : Checks, attempt : Nat, step : {"run", "skip", "pending", "save"}]

Evaluation == [facts : [Checks -> CheckStates], seen : Nat, verdict : Verdicts]

ASSUME WorkflowConstants ==
    /\ IsFiniteSet(Checks) /\ Checks # {} /\ Async \subseteq Checks
    /\ DependsOn \in [Checks -> Seq(Checks)]
    /\ FallbackFor \in [Checks -> Checks \cup {None}] /\ None \notin Checks
    /\ Outcomes \subseteq {"completed", "failed", "timed_out", "cancelled", "retryable"}
    /\ Verdicts \subseteq {"completed", "awaiting_input", "manual_review", "failed"}
    /\ MaxSemantic \in Nat \ {0} /\ MaxResponses \in Nat
    /\ None \notin Dispatch /\ None \notin Delivery /\ None \notin Evaluation
    /\ None \notin [Checks -> CheckStates] /\ None \notin SessionStates

Init ==
    /\ session = [state |-> "collecting", version |-> 1]
    /\ captured = FALSE
    /\ check = [c \in Checks |-> "none"]
    /\ attempt = [c \in Checks |-> 0]
    /\ dispatch = [c \in Checks |-> None]
    /\ response = 0 /\ fresh = FALSE /\ observed = 0
    /\ routed = None /\ decision = None /\ input = FALSE /\ case = FALSE
    /\ work = [w \in Workers |-> None]
    /\ author = [a \in Authors |-> None]
    /\ client = [u \in Clients |-> None]
    /\ permitted = TRUE /\ due = FALSE

(***************************************************************************)
(* A lifecycle write that forgets to move the version.                     *)
(***************************************************************************)
AdvanceInPlace(to) ==
    /\ session' = [session EXCEPT !.state = to]
    /\ fresh' = FALSE

(***************************************************************************)
(* ApplyWithin on the row the transaction has locked: SessionLifecycle's   *)
(* transition with the version just read.                                  *)
(***************************************************************************)
Advance(to) ==
    /\ session' = [state |-> to, version |-> session.version + 1]
    /\ fresh' = FALSE

(***************************************************************************)
(* ValidateProcessingWithin at the current instant.                        *)
(***************************************************************************)
MayProcess(expected) == permitted /\ ~due /\ session.state = expected

(***************************************************************************)
(* ValidateExecutionWithin, which also accepts a session that waits.       *)
(***************************************************************************)
MayExecute == MayProcess("processing") \/ MayProcess("awaiting_external")

(***************************************************************************)
(* Readiness after the first check instead of the last.                    *)
(***************************************************************************)
ReadyOne == \E c \in Checks : TerminalCheck(check[c])

(***************************************************************************)
(* The readiness query of CompleteWithin and RouteWithin.                  *)
(***************************************************************************)
Ready == \A c \in Checks : TerminalCheck(check[c])

(***************************************************************************)
(* The last required artifact is accepted and capture completes.           *)
(***************************************************************************)
CompleteCapture ==
    /\ MayProcess("collecting") /\ ~captured
    /\ captured' = TRUE
    /\ UNCHANGED <<session, fresh, checkVars, policyVars, taskVars, worldVars>>

(***************************************************************************)
(* startWithin: the conditions under which a plan is written.  A session   *)
(* that has checks already is refused with ErrSessionConflict.             *)
(***************************************************************************)
MayStart ==
    /\ MayProcess("collecting") /\ captured
    /\ \A c \in Checks : check[c] = "none"

StartProcessing ==
    /\ MayStart
    /\ check' = [c \in Checks |-> "running"]
    /\ attempt' = [c \in Checks |-> 1]
    /\ observed' = response
    /\ Advance("processing")
    /\ UNCHANGED <<captured, dispatch, policyVars, taskVars, worldVars>>

(***************************************************************************)
(* RouteAdmissionWithin: the first dependency that is not completed        *)
(* decides, then the check this one stands in for.                         *)
(***************************************************************************)
Unmet(c) == {i \in DOMAIN DependsOn[c] : check[DependsOn[c][i]] # "completed"}

FirstUnmet(c) == CHOOSE i \in Unmet(c) : \A j \in Unmet(c) : i <= j

(***************************************************************************)
(* Admission as it would be if a fallback could start beside its primary.  *)
(***************************************************************************)
RouteAdmissionEager(c) ==
    IF Unmet(c) # {}
      THEN IF TerminalCheck(check[DependsOn[c][FirstUnmet(c)]]) THEN "skip" ELSE "wait"
    ELSE IF FallbackFor[c] = None THEN "run"
    ELSE IF check[FallbackFor[c]] \in {"completed", "skipped_by_policy"} THEN "skip"
    ELSE "run"

RouteAdmission(c) ==
    IF Unmet(c) # {}
      THEN IF TerminalCheck(check[DependsOn[c][FirstUnmet(c)]]) THEN "skip" ELSE "wait"
    ELSE IF FallbackFor[c] = None THEN "run"
    ELSE IF check[FallbackFor[c]] \in {"failed", "timed_out", "cancelled"} THEN "run"
    ELSE IF check[FallbackFor[c]] \in {"completed", "skipped_by_policy"} THEN "skip"
    ELSE "wait"

Job(c, step) == [check |-> c, attempt |-> attempt[c], step |-> step]

Step(w, step) == work[w] # None /\ work[w].step = step

(***************************************************************************)
(* Prepare of an execution delivery, first reads: FindCheck in a session   *)
(* that may execute, and route admission.  A wait is a task retry.  The    *)
(* delivery may name an attempt that another delivery has since finished.  *)
(***************************************************************************)
Admit(w, c) ==
    /\ work[w] = None /\ MayExecute
    /\ check[c] = "running" /\ RouteAdmission(c) # "wait"
    /\ work' = [work EXCEPT ![w] = Job(c, RouteAdmission(c))]
    /\ UNCHANGED <<sessionVars, checkVars, policyVars, author, client, worldVars>>

(***************************************************************************)
(* A delivery taken for current although its check has finished.           *)
(***************************************************************************)
CurrentAttempt(job) == attempt[job.check] = job.attempt

Current(job) == check[job.check] = "running" /\ attempt[job.check] = job.attempt

(***************************************************************************)
(* Only the planned attempt has a stored provider request.                 *)
(***************************************************************************)
HasRequest(job) == job.attempt = 1

Pending == [outcome |-> "pending", seen |-> 0]

(***************************************************************************)
(* Load and Execute: the claim of the dispatch row under the session lock, *)
(* then the stored result if there is one.  A request that cannot be       *)
(* loaded, or a claim the session no longer permits, is a task retry.      *)
(***************************************************************************)
Execute(w) ==
    LET job == work[w] IN
    /\ Step(w, "run")
    /\ IF MayExecute /\ HasRequest(job) /\ Current(job)
         THEN /\ dispatch' = IF dispatch[job.check] = None
                               THEN [dispatch EXCEPT ![job.check] = Pending]
                               ELSE dispatch
              /\ work' = [work EXCEPT ![w].step =
                            IF dispatch[job.check] \in {None, Pending} THEN "pending" ELSE "save"]
         ELSE work' = [work EXCEPT ![w] = None] /\ UNCHANGED dispatch
    /\ UNCHANGED <<sessionVars, check, attempt, observed, policyVars, author, client, worldVars>>

(***************************************************************************)
(* The dispatch gets its result, from the call, a poll, a callback or the  *)
(* attempt's deadline; "seen" is the subject response of that instant.     *)
(***************************************************************************)
Answer ==
    \E c \in Checks, o \in Outcomes :
        /\ dispatch[c] = Pending
        /\ dispatch' = [dispatch EXCEPT ![c] = [outcome |-> o, seen |-> response]]
        /\ UNCHANGED <<sessionVars, check, attempt, observed, policyVars, taskVars, worldVars>>

(***************************************************************************)
(* An asynchronous operation whose dispatch has no result.                 *)
(***************************************************************************)
PendingExternalOperation == \E c \in Async : dispatch[c] = Pending

(***************************************************************************)
(* ExternalWaitStore.Enter, after ErrDispatchPending: the session waits    *)
(* when no other check is runnable and an operation is still pending.      *)
(***************************************************************************)
Enter(w) ==
    /\ Step(w, "pending")
    /\ IF /\ session.state = "processing" /\ ~due
          /\ \A c \in Checks \ {work[w].check} : check[c] # "running"
          /\ PendingExternalOperation
         THEN Advance("awaiting_external")
         ELSE UNCHANGED <<session, fresh>>
    /\ work' = [work EXCEPT ![w] = None]
    /\ UNCHANGED <<captured, checkVars, policyVars, author, client, worldVars>>

(***************************************************************************)
(* A result that leaves the session where it waits.                        *)
(***************************************************************************)
LeaveNever == UNCHANGED <<session, fresh>>

(***************************************************************************)
(* ExternalWaitStore.Leave, inside the transaction of an applied result.   *)
(***************************************************************************)
Leave ==
    IF session.state = "awaiting_external"
      THEN Advance("processing")
      ELSE UNCHANGED <<session, fresh>>

(***************************************************************************)
(* The result of the latest attempt of c: it ends the check, or a          *)
(* retryable failure starts the successor attempt, unless the attempts are *)
(* used up or the successor would start after the session's deadline.      *)
(***************************************************************************)
Apply(c, outcome) ==
    IF outcome # "retryable"
      THEN /\ check' = [check EXCEPT ![c] = outcome]
           /\ UNCHANGED <<attempt, dispatch>>
      ELSE \/ /\ attempt[c] < MaxSemantic
              /\ attempt' = [attempt EXCEPT ![c] = @ + 1]
              /\ dispatch' = [dispatch EXCEPT ![c] = None]
              /\ UNCHANGED check
           \/ /\ check' = [check EXCEPT ![c] = "failed"]
              /\ UNCHANGED <<attempt, dispatch>>

(***************************************************************************)
(* A failure of class "cancelled" that asks for a retry: the check is      *)
(* cancelled, BeginAttempt refuses its successor, and the transaction is   *)
(* rolled back for a task retry.                                           *)
(***************************************************************************)
SuccessorRefused(c, outcome) == outcome = "cancelled" /\ attempt[c] < MaxSemantic

(***************************************************************************)
(* The commit as it would be if the session were checked by Prepare only.  *)
(***************************************************************************)
CommitUnguarded(w) ==
    LET job == work[w] IN
    /\ Step(w, "save")
    /\ IF Current(job) /\ dispatch[job.check].seen = response
         THEN /\ Apply(job.check, dispatch[job.check].outcome)
              /\ observed' = response
              /\ Leave
         ELSE UNCHANGED <<checkVars, session, fresh>>
    /\ work' = [work EXCEPT ![w] = None]
    /\ UNCHANGED <<captured, policyVars, author, client, worldVars>>

(***************************************************************************)
(* The fenced commit of a stored result.  It is validated at the instant   *)
(* of the result, so a subject response recorded after that instant        *)
(* refuses it; a delivery of a finished attempt is a duplicate.            *)
(***************************************************************************)
Commit(w) ==
    LET job == work[w] IN
    /\ Step(w, "save")
    /\ IF MayExecute /\ Current(job) /\ dispatch[job.check].seen = response
         THEN \/ /\ Apply(job.check, dispatch[job.check].outcome)
                 /\ observed' = response
                 /\ Leave
              \/ /\ SuccessorRefused(job.check, dispatch[job.check].outcome)
                 /\ UNCHANGED <<checkVars, session, fresh>>
         ELSE UNCHANGED <<checkVars, session, fresh>>
    /\ work' = [work EXCEPT ![w] = None]
    /\ UNCHANGED <<captured, policyVars, author, client, worldVars>>

(***************************************************************************)
(* skipRouteWork: admission is evaluated again inside the transaction.     *)
(***************************************************************************)
Skip(w) ==
    LET c == work[w].check IN
    /\ Step(w, "skip")
    /\ IF MayExecute /\ RouteAdmission(c) = "skip" /\ check[c] = "running"
         THEN /\ check' = [check EXCEPT ![c] = "skipped_by_policy"]
              /\ observed' = response
         ELSE UNCHANGED <<check, observed>>
    /\ work' = [work EXCEPT ![w] = None]
    /\ UNCHANGED <<sessionVars, attempt, dispatch, policyVars, author, client, worldVars>>

(***************************************************************************)
(* A worker dies; the queue delivers the task again.                       *)
(***************************************************************************)
Crash(w) ==
    /\ work[w] # None
    /\ work' = [work EXCEPT ![w] = None]
    /\ UNCHANGED <<sessionVars, checkVars, policyVars, author, client, worldVars>>
-------------------------------------------------------------------------------
(***************************************************************************)
(* Prepare of policy authorship, for a session that ListReadyAuthorships   *)
(* found: the check facts are read and evaluated outside a transaction.    *)
(* A decision or routing receipt that exists already is only replayed.     *)
(***************************************************************************)
Evaluate(a) ==
    \E v \in Verdicts :
        /\ author[a] = None /\ MayProcess("processing") /\ Ready
        /\ decision = None /\ routed = None
        /\ author' = [author EXCEPT ![a] = [facts |-> check, seen |-> response, verdict |-> v]]
        /\ UNCHANGED <<sessionVars, checkVars, policyVars, work, client, worldVars>>

(***************************************************************************)
(* What AppendWithin and CompleteWithin ask of the session and its checks, *)
(* and what they write in one transaction.                                 *)
(***************************************************************************)
MayComplete(expected) == decision = None /\ MayProcess(expected) /\ Ready

AppendAndComplete(facts) ==
    /\ decision' = facts
    /\ Advance("completed")
    /\ UNCHANGED <<routed, input, case>>

(***************************************************************************)
(* RouteWithin: receipt, input request or review case, and the transition. *)
(***************************************************************************)
RouteWithin(target) ==
    /\ routed' = target
    /\ input' = (input \/ target = "awaiting_input")
    /\ case' = (case \/ target = "manual_review")
    /\ Advance(target)
    /\ UNCHANGED decision

(***************************************************************************)
(* The validation inside the author's transaction.  A decision is dated at *)
(* the last check update, so a later subject response refuses it; a route  *)
(* needs the response that its evaluation read to be the latest.           *)
(***************************************************************************)
MayTakeEffect(job) ==
    IF job.verdict = "completed"
      THEN MayComplete("processing") /\ response = observed
      ELSE routed = None /\ MayProcess("processing") /\ Ready /\ job.seen = response

(***************************************************************************)
(* The transaction of an author delivery.  An exact replay and an error    *)
(* change nothing.                                                         *)
(***************************************************************************)
Author(a) ==
    LET job == author[a] IN
    /\ job # None
    /\ IF MayTakeEffect(job)
         THEN IF job.verdict = "completed" THEN AppendAndComplete(job.facts)
                                           ELSE RouteWithin(job.verdict)
         ELSE UNCHANGED <<session, fresh, policyVars>>
    /\ author' = [author EXCEPT ![a] = None]
    /\ UNCHANGED <<captured, checkVars, work, client, worldVars>>

AuthorCrash(a) ==
    /\ author[a] # None
    /\ author' = [author EXCEPT ![a] = None]
    /\ UNCHANGED <<sessionVars, checkVars, policyVars, work, client, worldVars>>

(***************************************************************************)
(* EvaluationStore.CommitWithin for a resolved case: the review's decision *)
(* rests on the routed facts and completes the session.                    *)
(***************************************************************************)
Review ==
    /\ case /\ MayComplete("manual_review")
    /\ AppendAndComplete(check)
    /\ UNCHANGED <<captured, checkVars, taskVars, worldVars>>
-------------------------------------------------------------------------------
(***************************************************************************)
(* A client reads the session; what it asks for later names this version.  *)
(***************************************************************************)
Read(u) ==
    /\ client' = [client EXCEPT ![u] = session.version]
    /\ client[u] # session.version
    /\ UNCHANGED <<sessionVars, checkVars, policyVars, work, author, worldVars>>

(***************************************************************************)
(* A cancellation that leaves every check as it is.                        *)
(***************************************************************************)
CancelUndispatchedNothing == UNCHANGED check

(***************************************************************************)
(* cancelUndispatchedChecksWithin: a running check whose latest attempt    *)
(* has no dispatch row is cancelled; a dispatched one stays as it is.      *)
(***************************************************************************)
CancelUndispatched ==
    check' = [c \in Checks |->
                IF check[c] = "running" /\ dispatch[c] = None THEN "cancelled" ELSE check[c]]

(***************************************************************************)
(* cancelWithin: the version the client read is compared under the lock.   *)
(* Any other answer, and the replay of an idempotency key, changes nothing.*)
(***************************************************************************)
Cancel(u) ==
    /\ client[u] = session.version
    /\ ~Terminal(session.state) /\ ~due
    /\ CancelUndispatched
    /\ Advance("cancelled")
    /\ client' = [client EXCEPT ![u] = None]
    /\ UNCHANGED <<captured, attempt, dispatch, observed, policyVars, work, author, worldVars>>

(***************************************************************************)
(* CancelForDeletionWithin, in the transaction of a deletion request.      *)
(***************************************************************************)
CancelForDeletion ==
    /\ ~Terminal(session.state)
    /\ IF due THEN Advance("expired") /\ UNCHANGED check
              ELSE Advance("cancelled") /\ CancelUndispatched
    /\ UNCHANGED <<captured, attempt, dispatch, observed, policyVars, taskVars, worldVars>>

(***************************************************************************)
(* An expiry sweep that passes over sessions waiting for input.            *)
(***************************************************************************)
ExpireUnlessInput ==
    /\ ~Terminal(session.state) /\ session.state # "awaiting_input" /\ due
    /\ Advance("expired")
    /\ UNCHANGED <<captured, checkVars, policyVars, taskVars, worldVars>>

(***************************************************************************)
(* ExpireWithin, in the transaction of an expiry task.  Checks stay.       *)
(***************************************************************************)
Expire ==
    /\ ~Terminal(session.state) /\ due
    /\ Advance("expired")
    /\ UNCHANGED <<captured, checkVars, policyVars, taskVars, worldVars>>

(***************************************************************************)
(* Resume: under the version the client read, with a subject response      *)
(* recorded since the session began to wait for input.                     *)
(***************************************************************************)
Resume(u) ==
    /\ client[u] = session.version
    /\ MayProcess("awaiting_input") /\ fresh
    /\ Advance("collecting")
    /\ client' = [client EXCEPT ![u] = None]
    /\ UNCHANGED <<captured, checkVars, policyVars, work, author, worldVars>>

(***************************************************************************)
(* AppendResponse: the subject consents or acknowledges once more, which   *)
(* also undoes an earlier refusal while the authority itself is active.    *)
(***************************************************************************)
Respond ==
    /\ ~due /\ response < MaxResponses
    /\ response' = response + 1
    /\ fresh' = TRUE /\ permitted' = TRUE
    /\ UNCHANGED <<session, captured, checkVars, policyVars, taskVars, due>>

(***************************************************************************)
(* RevokeConsent appends a refusal; the authority may also be withdrawn or *)
(* reach the end of its validity.                                          *)
(***************************************************************************)
Withdraw ==
    /\ permitted /\ permitted' = FALSE
    /\ UNCHANGED <<sessionVars, checkVars, policyVars, taskVars, response, due>>

Deadline ==
    /\ ~due /\ due' = TRUE
    /\ UNCHANGED <<sessionVars, checkVars, policyVars, taskVars, response, permitted>>

Deliver(w) ==
    \/ \E c \in Checks : Admit(w, c)
    \/ Execute(w) \/ Enter(w) \/ Commit(w) \/ Skip(w)

Next ==
    \/ CompleteCapture \/ StartProcessing \/ Answer \/ Review
    \/ \E w \in Workers : Deliver(w) \/ Crash(w)
    \/ \E a \in Authors : Evaluate(a) \/ Author(a) \/ AuthorCrash(a)
    \/ \E u \in Clients : Read(u) \/ Cancel(u) \/ Resume(u)
    \/ CancelForDeletion \/ Expire \/ Respond \/ Withdraw \/ Deadline

Spec == Init /\ [][Next]_vars

(***************************************************************************)
(* The sweeps discover, and the queue delivers again after a crash, until  *)
(* the transaction commits; an attempt's deadline answers a dispatch that  *)
(* the provider does not.                                                  *)
(***************************************************************************)
FairSpec ==
    /\ Spec
    /\ WF_vars(StartProcessing) /\ WF_vars(Answer) /\ WF_vars(Expire)
    /\ \A w \in Workers : /\ \A c \in Checks : SF_vars(Admit(w, c))
                          /\ SF_vars(Execute(w)) /\ SF_vars(Enter(w))
                          /\ SF_vars(Commit(w)) /\ SF_vars(Skip(w))
    /\ \A a \in Authors : SF_vars(Evaluate(a)) /\ SF_vars(Author(a))
-------------------------------------------------------------------------------
(***************************************************************************)
(* The plan's routes hold however deliveries interleave: a check is        *)
(* dispatched only after all its dependencies completed and, if it stands  *)
(* in for another, after that one came to nothing; it is skipped only for  *)
(* a dependency that did not complete or a primary that was not needed to  *)
(* be replaced.  So a fallback and its primary never both call out.        *)
(***************************************************************************)
RouteRespected ==
    \A c \in Checks :
      /\ dispatch[c] # None \/ attempt[c] > 1 =>
           /\ \A i \in DOMAIN DependsOn[c] : check[DependsOn[c][i]] = "completed"
           /\ FallbackFor[c] # None =>
                check[FallbackFor[c]] \in {"failed", "timed_out", "cancelled"}
      /\ check[c] = "skipped_by_policy" =>
           \/ \E i \in DOMAIN DependsOn[c] :
                TerminalCheck(check[DependsOn[c][i]]) /\ check[DependsOn[c][i]] # "completed"
           \/ FallbackFor[c] # None /\ check[FallbackFor[c]] \in {"completed", "skipped_by_policy"}

(***************************************************************************)
(* A session is completed exactly when its decision exists; the decision   *)
(* rests on the final state of every planned check, and was reached        *)
(* directly or through manual review, never after another route.           *)
(***************************************************************************)
CompletionIsEarned ==
    /\ session.state = "completed" <=> decision # None
    /\ decision # None =>
         /\ decision = check /\ \A c \in Checks : TerminalCheck(check[c])
         /\ routed \in {None, "manual_review"}

(***************************************************************************)
(* After a cancellation only checks with a dispatch row are still running: *)
(* a claim and a cancellation that race cannot leave an undispatched check *)
(* open, nor close one whose call may be on its way.  A check with a       *)
(* dispatch row is cancelled only because its runner said so.              *)
(***************************************************************************)
CancelledHoldsReservations ==
    session.state = "cancelled" =>
      \A c \in Checks :
        /\ check[c] = "running" => dispatch[c] # None
        /\ check[c] = "cancelled" /\ dispatch[c] # None => dispatch[c].outcome = "cancelled"

(***************************************************************************)
(* Once the session is terminal, late results, decisions, routes, resumes  *)
(* and cancellations change nothing, and no new dispatch begins.           *)
(***************************************************************************)
StoppedAcceptsNothing ==
    [][Terminal(session.state) =>
         /\ UNCHANGED <<session, check, attempt, policyVars>>
         /\ \A c \in Checks : dispatch[c] = None => dispatch'[c] = None]_vars

(***************************************************************************)
(* The handlers together implement the session's contract.                 *)
(***************************************************************************)
Contract == INSTANCE SessionContract WITH
    state <- session.state, version <- session.version, decided <- decision # None

ImplementsContract == Contract!ContractSpec

(***************************************************************************)
(* The handlers keep what the session's checks promise, the promise that   *)
(* one check in full detail keeps in CheckExecution.                       *)
(***************************************************************************)
CheckPromise == INSTANCE CheckContract WITH
    state <- check, open <- ~Terminal(session.state)

ImplementsChecks == CheckPromise!ChecksSpec

(***************************************************************************)
(* While the authority holds and the deadline has not come, a session      *)
(* whose capture is complete reaches a verdict: no dependency, fallback,   *)
(* external wait or crash leaves its checks waiting for each other.        *)
(***************************************************************************)
DecidesInTime ==
    [](permitted /\ ~due) =>
      (captured ~> session.state \notin {"collecting", "processing", "awaiting_external"})

(***************************************************************************)
(* A session past its deadline ends, whatever its handlers left behind.    *)
(***************************************************************************)
DueEnds == due ~> Terminal(session.state)

(***************************************************************************)
(* A permitted session that collects with its capture complete can start   *)
(* processing; this is the path by which a resumed session would still     *)
(* reach a decision.                                                       *)
(***************************************************************************)
ResumedCanStart == captured /\ MayProcess("collecting") => MayStart
===============================================================================
