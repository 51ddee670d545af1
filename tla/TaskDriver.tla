------------------------------ MODULE TaskDriver ------------------------------
(***************************************************************************)
(* The deterministic task driver of internal/platform/task/driver.go: the  *)
(* repository's own execution model of the task queue.  Tasks are enqueued *)
(* in atomic batches, claimed under a fenced lease, resolved by the lease  *)
(* holder, reclaimed when a lease runs out, cancelled and drained.         *)
(*                                                                         *)
(* Every operation holds the driver's mutex, so one action is one call.    *)
(* A worker holds the delivery that Claim returned until it resolves it or *)
(* crashes; nothing tells it that its lease was lost.                      *)
(***************************************************************************)
EXTENDS Integers, FiniteSets, Sequences, Functions

CONSTANTS Tasks,        \* task identifiers, each with one fixed intent
          Workers,
          None,
          Key,          \* [Tasks -> idempotency keys], tenant and name included
          ScheduledAt,  \* [Tasks -> time]
          Deadline,     \* [Tasks -> time]
          MaxAttempts,  \* RetryPolicy.MaxAttempts
          CrashLimit,   \* DriverOptions.CrashLimit
          Lease,        \* lease duration the workers ask for
          Backoff,      \* RetryPolicy.Backoff, taken constant
          MaxBatch,     \* bound on the length of an enqueued batch
          MaxTime       \* bound on time; no lease outlives it

VARIABLES records,      \* Driver.records
          order,        \* Driver.order
          draining,     \* Driver.isDraining
          active,       \* Driver.activeCount
          delivery,     \* per worker: the delivery it works on
          now

vars == <<records, order, draining, active, delivery, now>>

States == {"scheduled", "running", "completed", "cancelled", "quarantined"}

Record ==
    [state : States, attempt : Nat, crash : Nat, fence : Nat,
     leaseUntil : Nat, nextAt : Nat]

Delivery == [task : Tasks, fence : Nat]

ASSUME DriverConstants ==
    /\ CrashLimit \in Nat \ {0} /\ MaxAttempts \in Nat \ {0}
    /\ Lease \in Nat \ {0} /\ Backoff \in Nat
    /\ MaxTime \in Nat /\ MaxBatch \in Nat
    /\ ScheduledAt \in [Tasks -> Nat] /\ Deadline \in [Tasks -> Nat]
    /\ None \notin Record /\ None \notin Delivery

terminal(state) == state \in {"completed", "cancelled", "quarantined"}

Init ==
    /\ records = [t \in Tasks |-> None]
    /\ order = << >>
    /\ draining = FALSE
    /\ active = 0
    /\ delivery = [w \in Workers |-> None]
    /\ now = 0

Known == {t \in Tasks : records[t] # None}

NewRecord(t) ==
    [state |-> "scheduled", attempt |-> 0, crash |-> 0, fence |-> 0,
     leaseUntil |-> 0, nextAt |-> ScheduledAt[t]]

(***************************************************************************)
(* Driver.unique maps a key to the task that owns it for ever, so a batch  *)
(* is refused when a key belongs to another task of it or of the driver.   *)
(***************************************************************************)
KeysFree(batch) ==
    \A t \in batch, u \in batch \cup Known : t # u => Key[t] # Key[u]

(***************************************************************************)
(* enqueueLocked: all of the batch or none of it.  Tasks of the batch that *)
(* are known already (old; the intent is the same) only take part in the   *)
(* key check; the new ones are entered in batch order, and one the batch   *)
(* repeats is entered twice in the order.  Transaction.Commit ends in the  *)
(* same call with the staged batch.                                        *)
(***************************************************************************)
Enqueue ==
    \E old \in SUBSET Known, n \in 0 .. MaxBatch : \E new \in [1 .. n -> Tasks \ Known] :
        /\ ~draining
        /\ Cardinality(old) + n \in 1 .. MaxBatch
        /\ KeysFree(old \cup Range(new))
        /\ records' = [t \in Tasks |-> IF t \in Range(new) THEN NewRecord(t) ELSE records[t]]
        /\ order' = order \o new
        /\ UNCHANGED <<draining, active, delivery, now>>

Expired(r) == r # None /\ r.state = "running" /\ r.leaseUntil <= now

(***************************************************************************)
(* Reclaiming as it would be if the record were made anew.                 *)
(***************************************************************************)
ReclaimedAsNew(r) ==
    IF ~Expired(r) THEN r
    ELSE [r EXCEPT !.crash = @ + 1, !.fence = 0, !.state = "scheduled", !.nextAt = now]

(***************************************************************************)
(* reclaimExpiredLocked, for one record and for the counter.               *)
(***************************************************************************)
Reclaimed(r) ==
    IF ~Expired(r) THEN r
    ELSE IF r.crash + 1 >= CrashLimit
    THEN [r EXCEPT !.crash = @ + 1, !.fence = @ + 1, !.state = "quarantined"]
    ELSE [r EXCEPT !.crash = @ + 1, !.fence = @ + 1, !.state = "scheduled",
                   !.nextAt = now]

Decrease(count, n) == IF count > n THEN count - n ELSE 0

(***************************************************************************)
(* The counter after reclaiming as it would be if only resolved and        *)
(* cancelled attempts released their slot.                                 *)
(***************************************************************************)
ActiveAfterReclaimUnreleased == active

ActiveAfterReclaim ==
    Decrease(active, Cardinality({t \in Tasks : Expired(records[t])}))

AfterReclaim == [t \in Tasks |-> Reclaimed(records[t])]

(***************************************************************************)
(* The scan of Claim: what is due once expired leases are reclaimed, and   *)
(* of that what has passed its deadline, which the scan cancels.           *)
(***************************************************************************)
Due == {t \in Known : AfterReclaim[t].state = "scheduled" /\ AfterReclaim[t].nextAt <= now}

Late == {t \in Due : Deadline[t] <= now}

Swept ==
    [t \in Tasks |-> IF t \in Late THEN [AfterReclaim[t] EXCEPT !.state = "cancelled"]
                                   ELSE AfterReclaim[t]]

(***************************************************************************)
(* The task due first, the older of two that became due together.          *)
(***************************************************************************)
Place(t) == CHOOSE i \in 1 .. Len(order) : order[i] = t /\ \A j \in 1 .. i - 1 : order[j] # t

First(t) ==
    LET dueAt(u) == AfterReclaim[u].nextAt IN
    \A u \in Due \ Late :
        \/ dueAt(t) < dueAt(u)
        \/ dueAt(t) = dueAt(u) /\ Place(t) <= Place(u)

(***************************************************************************)
(* A record under a new lease.  The fence grows with every claim.          *)
(***************************************************************************)
Leased(r) ==
    [r EXCEPT !.state = "running", !.attempt = @ + 1, !.fence = @ + 1,
              !.leaseUntil = now + Lease]

Claim(w) ==
    /\ delivery[w] = None /\ ~draining /\ now + Lease <= MaxTime
    /\ \/ /\ Due = Late
          /\ records' = Swept
          /\ active' = ActiveAfterReclaim
          /\ UNCHANGED delivery
       \/ \E t \in Due \ Late :
          /\ First(t)
          /\ records' = [Swept EXCEPT ![t] = Leased(@)]
          /\ active' = ActiveAfterReclaim + 1
          /\ delivery' = [delivery EXCEPT ![w] = [task |-> t, fence |-> Leased(Swept[t]).fence]]
    /\ UNCHANGED <<order, draining, now>>

(***************************************************************************)
(* The lease check as it would be if a running state were enough.          *)
(***************************************************************************)
HoldsUnfenced(d) ==
    /\ records[d.task].state = "running"
    /\ records[d.task].leaseUntil > now

(***************************************************************************)
(* The condition under which Heartbeat and Resolve accept a delivery; any  *)
(* other answer is ErrLeaseLost.                                           *)
(***************************************************************************)
Holds(d) ==
    /\ records[d.task].state = "running"
    /\ records[d.task].fence = d.fence
    /\ records[d.task].leaseUntil > now

Heartbeat(w) ==
    /\ delivery[w] # None /\ now + Lease <= MaxTime
    /\ Holds(delivery[w])
    /\ records' = [records EXCEPT ![delivery[w].task].leaseUntil = now + Lease]
    /\ UNCHANGED <<order, draining, active, delivery, now>>

Outcomes == {"complete", "retry", "cancel", "quarantine"}

(***************************************************************************)
(* Resolve with the attempt limit off by one.                              *)
(***************************************************************************)
ResolvedOneTooMany(r, outcome) ==
    IF outcome = "retry" /\ r.attempt <= MaxAttempts
      THEN [r EXCEPT !.state = "scheduled", !.nextAt = now + Backoff]
      ELSE [r EXCEPT !.state = IF outcome = "complete" THEN "completed" ELSE "quarantined"]

(***************************************************************************)
(* What Resolve makes of the record for a handler's outcome.               *)
(***************************************************************************)
Resolved(r, outcome) ==
    CASE outcome = "complete"   -> [r EXCEPT !.state = "completed"]
      [] outcome = "cancel"     -> [r EXCEPT !.state = "cancelled"]
      [] outcome = "quarantine" -> [r EXCEPT !.state = "quarantined"]
      [] outcome = "retry"      ->
           IF r.attempt >= MaxAttempts
             THEN [r EXCEPT !.state = "quarantined"]
             ELSE [r EXCEPT !.state = "scheduled", !.nextAt = now + Backoff]

(***************************************************************************)
(* Resolve: with a lost lease only the worker's delivery ends.             *)
(***************************************************************************)
Resolve(w) ==
    \E outcome \in Outcomes :
        LET d == delivery[w] IN
        /\ d # None
        /\ delivery' = [delivery EXCEPT ![w] = None]
        /\ IF Holds(d)
             THEN /\ records' = [records EXCEPT ![d.task] = Resolved(@, outcome)]
                  /\ active' = Decrease(active, 1)
             ELSE UNCHANGED <<records, active>>
        /\ UNCHANGED <<order, draining, now>>

(***************************************************************************)
(* Cancel: terminal tasks are left alone, a running one loses its fence.   *)
(***************************************************************************)
Cancel ==
    \E t \in Known :
        /\ ~terminal(records[t].state)
        /\ active' = IF records[t].state = "running" THEN Decrease(active, 1) ELSE active
        /\ records' = [records EXCEPT ![t].state = "cancelled", ![t].fence = @ + 1]
        /\ UNCHANGED <<order, draining, delivery, now>>

(***************************************************************************)
(* Crash: the worker disappears and leaves its lease unresolved.           *)
(***************************************************************************)
Crash(w) ==
    /\ delivery[w] # None
    /\ delivery' = [delivery EXCEPT ![w] = None]
    /\ UNCHANGED <<records, order, draining, active, now>>

BeginDrain ==
    /\ ~draining
    /\ draining' = TRUE
    /\ UNCHANGED <<records, order, active, delivery, now>>

(***************************************************************************)
(* Drained as it would be if it only looked at the counter.                *)
(***************************************************************************)
DrainedWithoutReclaim == UNCHANGED vars

(***************************************************************************)
(* Drained reclaims expired leases before it answers.                      *)
(***************************************************************************)
Drained ==
    /\ records' = AfterReclaim
    /\ active' = ActiveAfterReclaim
    /\ UNCHANGED <<order, draining, delivery, now>>

Tick ==
    /\ now < MaxTime
    /\ now' = now + 1
    /\ UNCHANGED <<records, order, draining, active, delivery>>

Next ==
    \/ Enqueue \/ Cancel \/ BeginDrain \/ Drained \/ Tick
    \/ \E w \in Workers : Claim(w) \/ Heartbeat(w) \/ Resolve(w) \/ Crash(w)

Spec == Init /\ [][Next]_vars

(***************************************************************************)
(* Time passes, and whoever asked for the drain keeps polling Drained.     *)
(* Nothing is assumed of the workers.                                      *)
(***************************************************************************)
FairSpec == Spec /\ WF_vars(Tick) /\ WF_vars(Drained)
-------------------------------------------------------------------------------
(***************************************************************************)
(* Types of the driver's maps and counters and of the workers' deliveries. *)
(***************************************************************************)
TypeOK ==
    /\ records \in [Tasks -> Record \cup {None}]
    /\ order \in Seq(Tasks)
    /\ draining \in BOOLEAN
    /\ active \in Nat
    /\ delivery \in [Workers -> Delivery \cup {None}]
    /\ now \in Nat

RunningTasks == {t \in Known : records[t].state = "running"}

(***************************************************************************)
(* activeCount counts the running attempts exactly, although claim,        *)
(* resolve, cancel and reclaim each adjust it on a path of their own and   *)
(* saturate at zero.  Drained therefore answers true only when no attempt  *)
(* is running.                                                             *)
(***************************************************************************)
ActiveIsExact == active = Cardinality(RunningTasks)

(***************************************************************************)
(* Two workers never both hold a live delivery of one task: after a        *)
(* reclaim or a cancellation the old fence no longer matches.  Each live   *)
(* fence was handed out once, so no worker holds one from the future.      *)
(***************************************************************************)
OneHolder ==
    \A w \in Workers : delivery[w] # None =>
        LET t == delivery[w].task IN
        /\ t \in Known /\ delivery[w].fence <= records[t].fence
        /\ \A v \in Workers \ {w} :
             delivery[v] # None /\ delivery[v].task = t =>
                 delivery[v].fence # delivery[w].fence

(***************************************************************************)
(* Only the holder of the current fence, within its lease, completes a     *)
(* task: a worker whose lease was reclaimed, or whose task was cancelled,  *)
(* cannot publish a result.                                                *)
(***************************************************************************)
OnlyHolderCompletes ==
    [][\A t \in Known : records'[t].state = "completed" /\ records[t].state # "completed" =>
         /\ records[t].leaseUntil > now
         /\ \E w \in Workers :
              /\ delivery[w] = [task |-> t, fence |-> records[t].fence]
              /\ delivery'[w] = None]_vars

(***************************************************************************)
(* A terminal task stays as it is, and no fence ever goes back.            *)
(***************************************************************************)
TerminalStays ==
    [][\A t \in Known :
         /\ records'[t] # None
         /\ records'[t].fence >= records[t].fence
         /\ terminal(records[t].state) => records'[t] = records[t]]_vars

(***************************************************************************)
(* The retry budget: a task runs at most MaxAttempts times, plus once for  *)
(* every lease that ran out, and at most CrashLimit leases run out.        *)
(***************************************************************************)
AttemptBudget ==
    \A t \in Known :
        /\ records[t].crash <= CrashLimit
        /\ records[t].attempt <= MaxAttempts + records[t].crash
        /\ records[t].crash = CrashLimit => records[t].state = "quarantined"

(***************************************************************************)
(* One task per idempotency key, over the whole life of the driver.        *)
(***************************************************************************)
KeyHasOneTask == \A t, u \in Known : t # u => Key[t] # Key[u]

(***************************************************************************)
(* A drain ends: once it has begun, every running attempt is resolved or   *)
(* loses its lease, even when all workers crash.                           *)
(***************************************************************************)
DrainEnds == draining ~> (active = 0)
===============================================================================
