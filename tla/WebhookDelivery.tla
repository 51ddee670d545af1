--------------------------- MODULE WebhookDelivery ---------------------------
(***************************************************************************)
(* Webhook delivery (internal/delivery and internal/delivery/task): one    *)
(* emitted event is fanned out to the subscribed endpoints in bounded      *)
(* batches, and every delivery is driven by numbered callback attempts.    *)
(*                                                                         *)
(* An attempt reads the delivery, sends the callback, and only then opens  *)
(* the fenced transaction that records the answer.  The queue gives a task *)
(* to one worker at a time but a worker that lost its lease carries on, so *)
(* two workers may send the same event; a delivery may also have a task    *)
(* per attempt and one per expiry window.                                  *)
(***************************************************************************)
EXTENDS Integers, FiniteSets

CONSTANTS Endpoints,    \* endpoint identifiers: a set of positive integers
          Workers,
          None,
          FanoutBatch,
          MaxAttempts,  \* Intent.MaxAttempts
          MaxTries,     \* RetryPolicy.MaxAttempts of a task
          Backoff,      \* callbackBackoff, taken constant
          Window,       \* MaximumDeliveryDuration
          Hour,         \* length of an expiry window
          Retention,    \* age at which the payload is erased
          Replayed,     \* bound on the endpoints whose deliveries are replayed
          MaxReplays,   \* bound on the replays of a delivery
          LateReplays,  \* bound: whether a replay waits for all deliveries to end
          MaxFaults,    \* bound on crashes, lost leases and failed reads
          Quiet,        \* bound on the time of a fan-out, a replay, a disabling, a fault
          MaxTime       \* bound on time

VARIABLES now,
          event,        \* the webhook_events row
          disabled,     \* endpoints with disabled_at set
          del,          \* webhook_deliveries: [Deliveries -> None or row]
          tasks,        \* the queue: [Keys -> None or task]
          found,        \* the coordinator's discovered and not yet enqueued intent
          run,          \* per worker: the task it works on and what it decided
          faults

vars == <<now, event, disabled, del, tasks, found, run, faults>>

Deliveries == (Endpoints \X {0}) \cup (Replayed \X (1 .. MaxReplays))

Windows == 0 .. (MaxTime \div Hour)

Keys ==
    {<<"fanout", c>> : c \in Endpoints \cup {0}}
        \cup {<<"attempt", d, n>> : d \in Deliveries, n \in 1 .. MaxAttempts}
        \cup {<<"expiry", d, n, w>> :
                d \in Deliveries, n \in 1 .. MaxAttempts, w \in Windows}

(***************************************************************************)
(* A webhook_deliveries row.                                               *)
(***************************************************************************)
Intent == [state : {"pending", "delivered", "exhausted", "cancelled"},
           count : Nat, next : Nat, created : Nat, body : BOOLEAN]

ASSUME WebhookConstants ==
    /\ Endpoints \subseteq Nat \ {0} /\ IsFiniteSet(Endpoints)
    /\ Replayed \subseteq Endpoints /\ LateReplays \in BOOLEAN
    /\ None \notin Intent
    /\ {FanoutBatch, MaxAttempts, MaxTries, Window, Hour, Retention}
         \subseteq Nat \ {0}
    /\ {Backoff, MaxReplays, MaxFaults, Quiet, MaxTime} \subseteq Nat

NewIntent ==
    [state |-> "pending", count |-> 0, next |-> now, created |-> now, body |-> TRUE]

Task(at, deadline) ==
    [state |-> "queued", holder |-> None, tries |-> 0, at |-> at, deadline |-> deadline]

(***************************************************************************)
(* The queue keeps one task per idempotency key and never forgets a key.   *)
(***************************************************************************)
Enqueue(queue, key, task) ==
    IF queue[key] = None THEN [queue EXCEPT ![key] = task] ELSE queue

CanFail == faults < MaxFaults /\ now <= Quiet

Init ==
    /\ now = 0
    /\ event = [state |-> "pending", cursor |-> 0, body |-> TRUE]
    /\ disabled = {}
    /\ del = [d \in Deliveries |-> None]
    /\ tasks = [k \in Keys |-> None]
    /\ found = None
    /\ run = [w \in Workers |-> None]
    /\ faults = 0

-----------------------------------------------------------------------------
(* The coordinators. *)

(***************************************************************************)
(* ScheduleReadyFanouts: an event that has no cursor yet.                  *)
(***************************************************************************)
ScheduleFanout ==
    /\ event.state = "pending" /\ event.cursor = 0
    /\ tasks' = Enqueue(tasks, <<"fanout", 0>>, Task(now, now + Window))
    /\ UNCHANGED <<now, event, disabled, del, found, run, faults>>

(***************************************************************************)
(* list_ready_webhook_deliveries, a transaction of its own.                *)
(***************************************************************************)
Ready(d) ==
    /\ del[d] # None
    /\ del[d].state = "pending"
    /\ del[d].count < MaxAttempts
    /\ del[d].next <= now

(***************************************************************************)
(* The expiry key as it would be if it were the attempt's own.             *)
(***************************************************************************)
ExpiryKeyShared(d, n) == <<"attempt", d, n>>

ExpiryKey(d, n) == <<"expiry", d, n, now \div Hour>>

(***************************************************************************)
(* ScheduleReadyDeliveries up to its enqueue: the stable key of the        *)
(* attempt while the window is open, and afterwards a key for the current  *)
(* hour, which can close an intent whose own task is late or dead.         *)
(***************************************************************************)
Discover(d) ==
    /\ found = None
    /\ Ready(d)
    /\ LET n   == del[d].count + 1
           end == del[d].created + Window
       IN found' = IF now < end
                   THEN [key |-> <<"attempt", d, n>>, task |-> Task(del[d].next, end)]
                   ELSE [key |-> ExpiryKey(d, n),
                         task |-> Task(now, (now \div Hour) * Hour + 2 * Hour)]
    /\ UNCHANGED <<now, event, disabled, del, tasks, run, faults>>

ScheduleDelivery ==
    /\ found # None
    /\ tasks' = Enqueue(tasks, found.key, found.task)
    /\ found' = None
    /\ UNCHANGED <<now, event, disabled, del, run, faults>>

CoordinatorCrash ==
    /\ found # None /\ CanFail
    /\ found' = None /\ faults' = faults + 1
    /\ UNCHANGED <<now, event, disabled, del, tasks, run>>

-----------------------------------------------------------------------------
(* The queue, as the handlers see it. *)

Holds(w) ==
    /\ run[w] # None
    /\ tasks[run[w].key].state = "held"
    /\ tasks[run[w].key].holder = w

(***************************************************************************)
(* A worker claims a due task; Quiet bounds when a fan-out may start.      *)
(***************************************************************************)
Claim(w, k) ==
    /\ run[w] = None
    /\ tasks[k] # None /\ tasks[k].state = "queued"
    /\ tasks[k].at <= now /\ now < tasks[k].deadline
    /\ k[1] = "fanout" => now <= Quiet
    /\ tasks' = [tasks EXCEPT ![k].state = "held", ![k].holder = w, ![k].tries = @ + 1]
    /\ run' = [run EXCEPT ![w] = [key |-> k, plan |-> [do |-> "prepare"]]]
    /\ UNCHANGED <<now, event, disabled, del, found, faults>>

(***************************************************************************)
(* Of a closed task only the key matters.                                  *)
(***************************************************************************)
ClosedTask(state) == [Task(0, 0) EXCEPT !.state = state]

Released(task) ==
    IF task.tries < MaxTries THEN [task EXCEPT !.state = "queued", !.holder = None]
                             ELSE ClosedTask("dead")

Retry(w) == IF Holds(w) THEN [tasks EXCEPT ![run[w].key] = Released(@)] ELSE tasks

Closed(w, state) ==
    IF Holds(w) THEN [tasks EXCEPT ![run[w].key] = ClosedTask(state)] ELSE tasks

(***************************************************************************)
(* The lease of a held task runs out.  Its worker is not told.             *)
(***************************************************************************)
LoseLease(k) ==
    /\ tasks[k] # None /\ tasks[k].state = "held"
    /\ CanFail
    /\ tasks' = [tasks EXCEPT ![k] = Released(@)]
    /\ faults' = faults + 1
    /\ UNCHANGED <<now, event, disabled, del, found, run>>

(***************************************************************************)
(* A worker dies; the queue reclaims what it held.                         *)
(***************************************************************************)
Crash(w) ==
    /\ run[w] # None /\ CanFail
    /\ tasks' = Retry(w)
    /\ run' = [run EXCEPT ![w] = None]
    /\ faults' = faults + 1
    /\ UNCHANGED <<now, event, disabled, del, found>>

-----------------------------------------------------------------------------
(* Fan-out: FanoutHandler.Prepare, all of it inside the task transaction. *)

(***************************************************************************)
(* SubscribedEndpointsWithin: enabled endpoints after the cursor in order. *)
(***************************************************************************)
Page(limit) ==
    LET after == {e \in Endpoints \ disabled : e > event.cursor}
    IN {e \in after : Cardinality({f \in after : f < e}) < limit}

LastOf(S) == IF S = {} THEN event.cursor ELSE CHOOSE e \in S : \A f \in S : f <= e

(***************************************************************************)
(* The cursor as it would be if it moved past the row read ahead.          *)
(***************************************************************************)
NextCursorAhead == LastOf(Page(FanoutBatch + 1))

NextCursor == LastOf(Page(FanoutBatch))

Fanout(w) ==
    /\ run[w] # None /\ run[w].key[1] = "fanout" /\ Holds(w)
    /\ event.body /\ event.state = "pending"
    /\ LET more    == Cardinality(Page(FanoutBatch + 1)) > FanoutBatch
           created == {<<e, 0>> : e \in {f \in Page(FanoutBatch) : del[<<f, 0>>] = None}}
           new     == {<<"attempt", d, 1>> : d \in created}
                        \cup (IF more THEN {<<"fanout", NextCursor>>} ELSE {})
           done    == Closed(w, "done")
       IN /\ del' = [d \in Deliveries |-> IF d \in created THEN NewIntent ELSE del[d]]
          /\ event' = [event EXCEPT !.cursor = NextCursor,
                                    !.state = IF more THEN "pending" ELSE "completed"]
          /\ tasks' = [k \in Keys |-> IF k \in new /\ done[k] = None
                                      THEN Task(now, now + Window) ELSE done[k]]
    /\ run' = [run EXCEPT ![w] = None]
    /\ UNCHANGED <<now, disabled, found, faults>>

(***************************************************************************)
(* An event whose body was erased is refused before its state is looked    *)
(* at, and a task that is not held any more has no transaction.            *)
(***************************************************************************)
FanoutNothing(w) ==
    /\ run[w] # None /\ run[w].key[1] = "fanout"
    /\ ~Holds(w) \/ ~event.body \/ event.state = "completed"
    /\ tasks' = Closed(w, IF event.body THEN "done" ELSE "dead")
    /\ run' = [run EXCEPT ![w] = None]
    /\ UNCHANGED <<now, event, disabled, del, found, faults>>

-----------------------------------------------------------------------------
(* A callback attempt: Handler.Prepare. *)

Plan(d, n) ==
    LET i == del[d] IN
    IF ~i.body THEN [do |-> "retry"]
    ELSE IF i.state # "pending" \/ n <= i.count THEN [do |-> "none"]
    ELSE IF n # i.count + 1 \/ n > MaxAttempts THEN [do |-> "quarantine"]
    ELSE IF now >= i.created + Window
         THEN [do |-> "finish", state |-> "exhausted", expected |-> i.count]
    ELSE IF now < i.next THEN [do |-> "retry"]
    ELSE [do |-> "send", expected |-> i.count, end |-> i.created + Window]

Prepare(w) ==
    /\ run[w] # None /\ run[w].key[1] # "fanout" /\ run[w].plan.do = "prepare"
    /\ LET plan == Plan(run[w].key[2], run[w].key[3])
       IN IF plan.do \in {"retry", "quarantine"}
          THEN /\ tasks' = IF plan.do = "retry" THEN Retry(w) ELSE Closed(w, "dead")
               /\ run' = [run EXCEPT ![w] = None]
          ELSE /\ run' = [run EXCEPT ![w].plan = plan]
               /\ UNCHANGED tasks
    /\ UNCHANGED <<now, event, disabled, del, found, faults>>

Sending(w) == run[w] # None /\ run[w].plan.do = "send"

SendDisabled(w) ==
    /\ Sending(w)
    /\ run[w].key[2][1] \in disabled
    /\ run' = [run EXCEPT ![w].plan =
                  [do |-> "finish", state |-> "cancelled", expected |-> @.expected]]
    /\ UNCHANGED <<now, event, disabled, del, tasks, found, faults>>

(***************************************************************************)
(* The callback itself.  The receiver answers with success, with an error  *)
(* worth a retry or with a final one; after the window nothing is sent and *)
(* the send fails.  A retry is planned only while the window stays open.   *)
(***************************************************************************)
Send(w, answer) ==
    /\ Sending(w)
    /\ run[w].key[2][1] \notin disabled
    /\ now >= run[w].plan.end => answer = "unavailable"
    /\ LET n    == run[w].key[3]
           next == now + Backoff
       IN run' = [run EXCEPT ![w].plan =
                     [do |-> "record", ok |-> answer = "accepted", next |-> next,
                      retry |-> answer = "unavailable" /\ n < MaxAttempts /\ next < @.end]]
    /\ UNCHANGED <<now, event, disabled, del, tasks, found, faults>>

(***************************************************************************)
(* Reading the endpoint or unwrapping the secret or the body fails.        *)
(***************************************************************************)
SendUnready(w) ==
    /\ Sending(w) /\ CanFail
    /\ tasks' = Retry(w)
    /\ run' = [run EXCEPT ![w] = None]
    /\ faults' = faults + 1
    /\ UNCHANGED <<now, event, disabled, del, found>>

-----------------------------------------------------------------------------
(* The fenced transaction that ends an attempt. *)

(***************************************************************************)
(* RecordAttemptWithin's check as it would be without the state.           *)
(***************************************************************************)
RecordableByCount(d, n) == del[d].count + 1 = n

Recordable(d, n) == del[d].state = "pending" /\ del[d].count + 1 = n

(***************************************************************************)
(* RecordAttemptWithin: the row after attempt n.                           *)
(***************************************************************************)
Recorded(d, n, plan) ==
    [del[d] EXCEPT !.count = n, !.next = plan.next,
                   !.state = IF plan.ok THEN "delivered"
                             ELSE IF plan.retry /\ n < MaxAttempts THEN "pending"
                             ELSE "exhausted"]

Finishable(d, expected) == del[d].state = "pending" /\ del[d].count = expected

CommitRecord(w) ==
    /\ run[w] # None /\ run[w].plan.do = "record" /\ Holds(w)
    /\ LET d == run[w].key[2]
           n == run[w].key[3]
           plan == run[w].plan
           successor == Task(plan.next, del[d].created + Window)
           done == Closed(w, "done")
       IN IF Recordable(d, n)
          THEN /\ del' = [del EXCEPT ![d] = Recorded(d, n, plan)]
               /\ tasks' = IF plan.retry THEN Enqueue(done, <<"attempt", d, n + 1>>, successor)
                                         ELSE done
          ELSE tasks' = Retry(w) /\ UNCHANGED del
    /\ run' = [run EXCEPT ![w] = None]
    /\ UNCHANGED <<now, event, disabled, found, faults>>

CommitFinish(w) ==
    /\ run[w] # None /\ run[w].plan.do = "finish" /\ Holds(w)
    /\ LET d == run[w].key[2]
           plan == run[w].plan
       IN IF Finishable(d, plan.expected)
          THEN del' = [del EXCEPT ![d].state = plan.state] /\ tasks' = Closed(w, "done")
          ELSE tasks' = Retry(w) /\ UNCHANGED del
    /\ run' = [run EXCEPT ![w] = None]
    /\ UNCHANGED <<now, event, disabled, found, faults>>

(***************************************************************************)
(* noEffect, and the transaction the fence refuses.                        *)
(***************************************************************************)
CommitNothing(w) ==
    /\ run[w] # None /\ run[w].key[1] # "fanout"
    /\ \/ run[w].plan.do = "none"
       \/ run[w].plan.do \in {"record", "finish"} /\ ~Holds(w)
    /\ tasks' = Closed(w, "done")
    /\ run' = [run EXCEPT ![w] = None]
    /\ UNCHANGED <<now, event, disabled, del, found, faults>>

-----------------------------------------------------------------------------
(* The tenant, retention and time. *)

(***************************************************************************)
(* Manager.Disable.  Nothing enables an endpoint again.                    *)
(***************************************************************************)
Disable(e) ==
    /\ e \notin disabled /\ now <= Quiet
    /\ disabled' = disabled \cup {e}
    /\ UNCHANGED <<now, event, del, tasks, found, run, faults>>

AllEnded ==
    /\ event.state = "completed"
    /\ \A d \in Deliveries : del[d] # None => del[d].state # "pending"

(***************************************************************************)
(* Manager.Replay: a new delivery of the same event, without a task.       *)
(***************************************************************************)
Replay(e, k) ==
    /\ now <= Quiet
    /\ LateReplays => AllEnded
    /\ del[<<e, k>>] = None
    /\ del[<<e, k - 1>>] # None
    /\ del[<<e, k - 1>>].body
    /\ e \notin disabled
    /\ del' = [del EXCEPT ![<<e, k>>] = NewIntent]
    /\ UNCHANGED <<now, event, disabled, tasks, found, run, faults>>

(***************************************************************************)
(* expire_webhook_data: the payload of the event and of its deliveries.    *)
(***************************************************************************)
Retain ==
    /\ now >= Retention /\ event.body
    /\ event' = [event EXCEPT !.body = FALSE, !.state = "completed"]
    /\ del' = [d \in Deliveries |->
                 IF del[d] = None THEN None
                 ELSE [del[d] EXCEPT !.body = FALSE,
                                     !.state = IF @ = "pending" THEN "exhausted" ELSE @]]
    /\ UNCHANGED <<now, disabled, tasks, found, run, faults>>

(***************************************************************************)
(* Time passes Quiet only when no fan-out is running.                      *)
(***************************************************************************)
Tick ==
    /\ now < MaxTime
    /\ now = Quiet => ~\E w \in Workers : run[w] # None /\ run[w].key[1] = "fanout"
    /\ now' = now + 1
    /\ UNCHANGED <<event, disabled, del, tasks, found, run, faults>>

Answers == {"accepted", "unavailable", "rejected"}

Handle(w) ==
    \/ Fanout(w) \/ FanoutNothing(w) \/ Prepare(w) \/ SendDisabled(w)
    \/ \E answer \in Answers : Send(w, answer)
    \/ CommitRecord(w) \/ CommitFinish(w) \/ CommitNothing(w)

Next ==
    \/ ScheduleFanout \/ ScheduleDelivery \/ CoordinatorCrash
    \/ \E d \in Deliveries : Discover(d)
    \/ \E w \in Workers, k \in Keys : Claim(w, k)
    \/ \E k \in Keys : LoseLease(k)
    \/ \E w \in Workers : Handle(w) \/ Crash(w) \/ SendUnready(w)
    \/ \E e \in Endpoints : Disable(e)
    \/ \E e \in Replayed, k \in 1 .. MaxReplays : Replay(e, k)
    \/ Retain
    \/ Tick

Spec == Init /\ [][Next]_vars

(***************************************************************************)
(* The coordinator loops for ever and rotates over the rows it discovers,  *)
(* the runner claims what is due and a worker that holds a plan goes on.   *)
(***************************************************************************)
FairSpec ==
    /\ Spec
    /\ WF_vars(Tick)
    /\ WF_vars(ScheduleDelivery)
    /\ \A d \in Deliveries : SF_vars(Discover(d))
    /\ WF_vars(\E w \in Workers, k \in Keys : Claim(w, k))
    /\ \A w \in Workers : WF_vars(Handle(w))

-----------------------------------------------------------------------------
(***************************************************************************)
(* An event is completed only when every endpoint that stayed enabled has  *)
(* its delivery: no batch boundary, no retried fan-out task and no         *)
(* endpoint disabled between two batches makes the cursor skip one         *)
(* (FanoutHandler.Prepare).  Retention completes what is left.             *)
(***************************************************************************)
FanoutReachesAll ==
    event.state = "completed" /\ event.body =>
        \A e \in Endpoints \ disabled : del[<<e, 0>>] # None

(***************************************************************************)
(* A delivery that left pending keeps its state: a send that comes back    *)
(* after its delivery was cancelled, exhausted by an expiry task or by     *)
(* retention is not recorded over it, and an expiry task never takes back  *)
(* a recorded success (RecordAttemptWithin, FinishWithin).                 *)
(***************************************************************************)
SettledStays ==
    [][\A d \in Deliveries :
         del[d] # None /\ del[d].state # "pending" => del'[d].state = del[d].state]_vars

(***************************************************************************)
(* Every delivery leaves pending, also one whose attempt task died or ran  *)
(* past its deadline and one that was replayed without a task: the         *)
(* coordinator's hourly expiry key closes what no attempt can              *)
(* (ScheduleReadyDeliveries).                                              *)
(***************************************************************************)
DeliveryEnds ==
    \A d \in Deliveries :
        (del[d] # None /\ del[d].state = "pending")
            ~> (del[d] # None /\ del[d].state # "pending")
===============================================================================
