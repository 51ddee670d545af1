---------------------------- MODULE CheckAggregate ----------------------------
(***************************************************************************)
(* The check aggregate of internal/verification/execution.go and the       *)
(* result normalisation of internal/verification/normalise.go, as pure     *)
(* operators on records.  CheckExecution gives them a store and actors.    *)
(*                                                                         *)
(* An attempt is identified by its number: identifiers are unique, and     *)
(* planning and semantic retry number and fence attempts alike (1, 2, 3).  *)
(* A check is a record [state, outcome, version, updatedAt, attempts,      *)
(* diagnostics]; the diagnostics are a set, as their primary key makes     *)
(* them.                                                                   *)
(***************************************************************************)
EXTENDS Common, Sequences

CONSTANTS RunnerKind,       \* "provider" or "model"
          MinRetryAfter,    \* the clamp of a provider's retry delay
          MaxRetryAfter

Signals == {"satisfied", "not_satisfied", "inconclusive"}

FailureClasses == {"deadline_exceeded", "cancelled", "unavailable"}

(***************************************************************************)
(* A runner's terminal result: the signals of a completion, or a failure   *)
(* with its class, retry disposition and delay.                            *)
(***************************************************************************)
Completion == [class : {"none"}, signals : SUBSET Signals \ {{}}]

Failure ==
    [class : FailureClasses, retry : {"never", "backoff", "reconcile"}, after : Nat,
     code : {"runner", "route_not_selected", "verification_cancelled"}]

Result == Completion \cup Failure

IsFailure(result) == result.class # "none"

(***************************************************************************)
(* NormaliseProviderResult clamps the delay of a retryable failure;        *)
(* NormaliseModelResult keeps it.                                          *)
(***************************************************************************)
Clamp(after) ==
    IF after < MinRetryAfter THEN MinRetryAfter
    ELSE IF after > MaxRetryAfter THEN MaxRetryAfter ELSE after

Normalise(result) ==
    IF RunnerKind = "provider" /\ IsFailure(result) /\ result.retry # "never"
      THEN [result EXCEPT !.after = Clamp(@)]
      ELSE result

(***************************************************************************)
(* digestResult: an observation carries the instant of completion, a       *)
(* failure does not, so the same failure reported at two instants has one  *)
(* digest.                                                                 *)
(***************************************************************************)
Digest(result, at) ==
    [result |-> result, at |-> IF IsFailure(result) THEN None ELSE at]

aggregateOutcome(signals) ==
    IF "not_satisfied" \in signals THEN "not_passed"
    ELSE IF "inconclusive" \in signals THEN "inconclusive" ELSE "passed"

NewCheck(now) ==
    [state |-> "queued", outcome |-> None, version |-> 1, updatedAt |-> now,
     attempts |-> << >>, diagnostics |-> {}]

CanBeginAttempt(check, startedAt, deadline) ==
    /\ check.state \in {"queued", "failed", "timed_out"}
    /\ deadline > startedAt

BeginAttempt(check, startedAt, deadline) ==
    [check EXCEPT
       !.attempts = Append(@, [state |-> "running", startedAt |-> startedAt,
                               deadline |-> deadline, finishedAt |-> None,
                               result |-> None]),
       !.state = "running", !.outcome = None,
       !.updatedAt = startedAt, !.version = @ + 1]

Latest(check) == Len(check.attempts)

(***************************************************************************)
(* currentAttempt: only the latest attempt of a running check may take a   *)
(* result; another delivery for it is a duplicate, one for an earlier      *)
(* attempt is stale.                                                       *)
(***************************************************************************)
Disposition(check, k) ==
    CASE k = Latest(check) /\ check.state = "running" -> "apply"
      [] k = Latest(check) /\ check.state # "running"
           /\ check.attempts[k].state # "running"     -> "duplicate"
      [] OTHER                                        -> "stale"

FinalState(result) ==
    CASE ~IsFailure(result)                  -> "completed"
      [] result.class = "deadline_exceeded" -> "timed_out"
      [] result.class = "cancelled"         -> "cancelled"
      [] OTHER                              -> "failed"

(***************************************************************************)
(* CompleteAttempt and FailAttempt on the running attempt.                 *)
(***************************************************************************)
FinishAttempt(check, k, result, at) ==
    [check EXCEPT
       !.attempts[k] = [@ EXCEPT !.state = FinalState(result),
                                 !.finishedAt = at, !.result = result],
       !.state = FinalState(result),
       !.outcome = IF IsFailure(result) THEN None ELSE aggregateOutcome(result.signals),
       !.updatedAt = at, !.version = @ + 1]

(***************************************************************************)
(* A result delivered for an attempt that cannot take it leaves a          *)
(* diagnostic; a duplicate with another digest is a conflict.              *)
(***************************************************************************)
DeliveryKind(check, k, result, at) ==
    LET attempt == check.attempts[k] IN
    IF /\ Disposition(check, k) = "duplicate"
       /\ Digest(attempt.result, attempt.finishedAt) # Digest(result, at)
      THEN "conflict"
      ELSE Disposition(check, k)

RecordDiagnostic(check, k, kind, at) ==
    [check EXCEPT
       !.diagnostics = @ \cup {[attempt |-> k, kind |-> kind, at |-> at]},
       !.updatedAt = at, !.version = @ + 1]

(***************************************************************************)
(* The window outside which a normalised result is ErrInvalidCheck.        *)
(***************************************************************************)
InWindow(check, k, at) ==
    at >= check.attempts[k].startedAt /\ at <= check.attempts[k].deadline

(***************************************************************************)
(* ApplyProviderResult and ApplyModelResult on a result within the window. *)
(***************************************************************************)
ApplyResult(check, k, result, at) ==
    LET normal == Normalise(result) IN
    IF Disposition(check, k) = "apply"
      THEN FinishAttempt(check, k, normal, at)
      ELSE RecordDiagnostic(check, k, DeliveryKind(check, k, normal, at), at)

(***************************************************************************)
(* The results the aggregate makes itself: a route that was not selected,  *)
(* and a cancellation.                                                     *)
(***************************************************************************)
Cancellation(code) ==
    [class |-> "cancelled", retry |-> "never", after |-> 0, code |-> code]

CanSkipRunning(check, at) ==
    /\ check.state = "running" /\ at >= check.updatedAt
    /\ at >= check.attempts[Latest(check)].startedAt

SkipRunning(check, at) ==
    [FinishAttempt(check, Latest(check), Cancellation("route_not_selected"), at)
       EXCEPT !.state = "skipped_by_policy"]

CancelRunning(check, at) ==
    FinishAttempt(check, Latest(check), Cancellation("verification_cancelled"), at)
===============================================================================
