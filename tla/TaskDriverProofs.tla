--------------------------- MODULE TaskDriverProofs ---------------------------
(***************************************************************************)
(* Proofs about TaskDriver for every set of tasks and workers and every    *)
(* schedule, deadline, lease, retry budget and crash limit.                *)
(***************************************************************************)
EXTENDS TaskDriver, FiniteSetTheorems, TLAPS

(***************************************************************************)
(* Everything the driver ever does to the record of a task, whatever it    *)
(* does to the others in the same call: the changes that need no result    *)
(* from a worker, and the resolution of a held delivery.                   *)
(***************************************************************************)
Moved(r, s) ==
    \/ s = Reclaimed(r)
    \/ Reclaimed(r).state = "scheduled" /\ s = [Reclaimed(r) EXCEPT !.state = "cancelled"]
    \/ Reclaimed(r).state = "scheduled" /\ s = Leased(Reclaimed(r))
    \/ r.state = "running" /\ s = [r EXCEPT !.leaseUntil = now + Lease]
    \/ ~terminal(r.state) /\ s = [r EXCEPT !.state = "cancelled", !.fence = @ + 1]

MovedStep(t) ==
    \/ records'[t] = records[t]
    \/ records[t] = None /\ records'[t] = NewRecord(t)
    \/ records[t] # None /\ Moved(records[t], records'[t])

ResolvedStep(t) ==
    /\ records[t] # None
    /\ \E w \in Workers : /\ delivery[w] # None /\ delivery[w].task = t
                          /\ Holds(delivery[w]) /\ delivery'[w] = None
    /\ \E o \in Outcomes : records'[t] = Resolved(records[t], o)

(***************************************************************************)
(* The retry budget of one record.  The budget alone is not inductive:     *)
(* a claim adds an attempt without looking, so a record that waits for one *)
(* must have an attempt left.                                              *)
(***************************************************************************)
Budget(r) ==
    /\ r.crash <= CrashLimit
    /\ r.attempt <= MaxAttempts + r.crash
    /\ r.crash = CrashLimit => r.state = "quarantined"
    /\ r.state = "scheduled" => r.attempt < MaxAttempts + r.crash

IInv ==
    /\ TypeOK
    /\ OneHolder
    /\ KeyHasOneTask
    /\ \A t \in Tasks : records[t] # None => Budget(records[t])
    /\ IsFiniteSet(RunningTasks)
    /\ ActiveIsExact

-------------------------------------------------------------------------------
(***************************************************************************)
(* Updating fields with values of their types gives a record: the update   *)
(* of a resolution, and those of the other calls.                          *)
(***************************************************************************)
LEMMA UpdateState ==
    ASSUME NEW r \in Record, NEW st \in States
    PROVE  [r EXCEPT !.state = st] \in Record
  BY DEF Record

(***************************************************************************)
(* Heartbeat's update.                                                     *)
(***************************************************************************)
LEMMA UpdateLease ==
    ASSUME NEW r \in Record, NEW n \in Nat
    PROVE  [r EXCEPT !.leaseUntil = n] \in Record
  BY Zenon DEF Record

(***************************************************************************)
(* Cancel's update.                                                        *)
(***************************************************************************)
LEMMA UpdateFence ==
    ASSUME NEW r \in Record, NEW st \in States, NEW f \in Nat
    PROVE  [r EXCEPT !.state = st, !.fence = f] \in Record
  BY Zenon DEF Record

(***************************************************************************)
(* The update of a retry.                                                  *)
(***************************************************************************)
LEMMA UpdateNext ==
    ASSUME NEW r \in Record, NEW st \in States, NEW n \in Nat
    PROVE  [r EXCEPT !.state = st, !.nextAt = n] \in Record
  BY Zenon DEF Record

(***************************************************************************)
(* The updates of reclaimExpiredLocked.                                    *)
(***************************************************************************)
LEMMA UpdateReclaimed ==
    ASSUME NEW r \in Record, NEW st \in States, NEW c \in Nat, NEW f \in Nat, NEW n \in Nat
    PROVE  /\ [r EXCEPT !.crash = c, !.fence = f, !.state = st] \in Record
           /\ [r EXCEPT !.crash = c, !.fence = f, !.state = st, !.nextAt = n] \in Record
  BY Zenon DEF Record

(***************************************************************************)
(* Claim's update.                                                         *)
(***************************************************************************)
LEMMA UpdateLeased ==
    ASSUME NEW r \in Record, NEW st \in States, NEW a \in Nat, NEW f \in Nat, NEW n \in Nat
    PROVE  [r EXCEPT !.state = st, !.attempt = a, !.fence = f, !.leaseUntil = n] \in Record
  BY Zenon DEF Record

(***************************************************************************)
(* The fields of a record have their types.                                *)
(***************************************************************************)
LEMMA Fields ==
    ASSUME NEW r \in Record
    PROVE  /\ r.state \in States /\ r.attempt \in Nat /\ r.crash \in Nat
           /\ r.fence \in Nat /\ r.leaseUntil \in Nat /\ r.nextAt \in Nat
           /\ r.attempt + 1 \in Nat /\ r.crash + 1 \in Nat /\ r.fence + 1 \in Nat
  BY DEF Record

(***************************************************************************)
(* A reclaimed record is a record, with a fence no smaller.                *)
(***************************************************************************)
LEMMA ReclaimedFacts ==
    ASSUME NEW r \in Record, now \in Nat
    PROVE  /\ Reclaimed(r) \in Record
           /\ Reclaimed(r).fence >= r.fence
           /\ Reclaimed(r).state \in {r.state, "scheduled", "quarantined"}
           /\ Reclaimed(r).state # r.state => r.state = "running"
           /\ Reclaimed(r).state = "running" <=> r.state = "running" /\ ~Expired(r)
           /\ terminal(r.state) => Reclaimed(r) = r
<1>1. r # None /\ CrashLimit \in Nat
  BY DriverConstants, Zenon
<1>2. CASE ~Expired(r)
  <2>1. Reclaimed(r) = r
    BY <1>2, Zenon DEF Reclaimed
  <2> QED
    BY <1>2, <2>1 DEF Record
<1>3. CASE Expired(r)
  <2>1. Reclaimed(r) \in Record
    BY <1>3, Fields, UpdateReclaimed, Zenon DEF Reclaimed, States
  <2>2. r.state = "running" /\ Reclaimed(r).state \in {"scheduled", "quarantined"}
    BY <1>3, Zenon DEF Reclaimed, Record, Expired
  <2>3. Reclaimed(r).fence >= r.fence
    BY <1>3 DEF Reclaimed, Record
  <2> QED
    BY <1>3, <2>1, <2>2, <2>3, Zenon DEF terminal
<1> QED
  BY <1>2, <1>3, Zenon

(***************************************************************************)
(* Reclaiming keeps the budget: the attempt it takes back is the one the   *)
(* crash pays for.                                                         *)
(***************************************************************************)
LEMMA ReclaimedBudget ==
    ASSUME NEW r \in Record, Budget(r), now \in Nat
    PROVE  Budget(Reclaimed(r))
<1>1. CrashLimit \in Nat /\ MaxAttempts \in Nat
  BY DriverConstants, Zenon
<1>2. CASE ~Expired(r)
  BY <1>2, Zenon DEF Reclaimed
<1>3. CASE Expired(r)
  BY <1>1, <1>3 DEF Reclaimed, Record, Expired, Budget
<1> QED
  BY <1>2, <1>3, Zenon

(***************************************************************************)
(* A resolved record is a record, no longer running, with its fence.       *)
(***************************************************************************)
LEMMA ResolvedFacts ==
    ASSUME NEW r \in Record, NEW o \in Outcomes, now \in Nat, r.state = "running"
    PROVE  /\ Resolved(r, o) \in Record
           /\ Resolved(r, o).state # "running"
           /\ Resolved(r, o).fence = r.fence
           /\ Budget(r) => Budget(Resolved(r, o))
<1> DEFINE s == Resolved(r, o)
<1>0. MaxAttempts \in Nat \ {0} /\ CrashLimit \in Nat /\ now + Backoff \in Nat
  BY DriverConstants
<1>1. /\ {"completed", "cancelled", "quarantined", "scheduled"} \subseteq States
      /\ o \in {"complete", "retry", "cancel", "quarantine"}
  BY Zenon DEF States, Outcomes
<1>2. CASE \E st \in {"completed", "cancelled", "quarantined"} : s = [r EXCEPT !.state = st]
  <2>1. PICK st \in {"completed", "cancelled", "quarantined"} : s = [r EXCEPT !.state = st]
    BY <1>2, Zenon
  <2>2. s \in Record
    BY <1>1, <2>1, UpdateState, Zenon DEF States
  <2> HIDE DEF s
  <2>3. s.state # "running" /\ s.fence = r.fence /\ (Budget(r) => Budget(s))
    BY <1>0, <2>1, Zenon DEF Record, Budget
  <2> QED
    BY <2>2, <2>3, Zenon DEF s
<1>3. CASE r.attempt < MaxAttempts /\ s = [r EXCEPT !.state = "scheduled", !.nextAt = now + Backoff]
  <2>1. [r EXCEPT !.state = "scheduled", !.nextAt = now + Backoff] \in Record
    BY <1>0, <1>1, UpdateNext, Zenon
  <2> HIDE DEF s
  <2>2. s.state # "running" /\ s.fence = r.fence /\ (Budget(r) => Budget(s))
    BY <1>0, <1>3 DEF Record, Budget
  <2> QED
    BY <1>3, <2>1, <2>2, Zenon DEF s
<1>4. r.attempt \in Nat
  BY Fields, Zenon
<1> QED
  BY <1>0, <1>1, <1>2, <1>3, <1>4 DEF Resolved

(***************************************************************************)
(* What a call without a result does to one known record: it stays a       *)
(* record within its budget, its fence does not go back, a terminal record *)
(* is untouched, and no record becomes completed.                          *)
(***************************************************************************)
LEMMA MovedFacts ==
    ASSUME NEW r \in Record, NEW s, Moved(r, s), Budget(r), now \in Nat
    PROVE  /\ s \in Record
           /\ Budget(s)
           /\ s.fence >= r.fence
           /\ terminal(r.state) => s = r
           /\ s.state = "completed" => r.state = "completed"
<1> DEFINE q == Reclaimed(r)
<1>0. CrashLimit \in Nat /\ MaxAttempts \in Nat \ {0} /\ Lease \in Nat /\ Backoff \in Nat
  BY DriverConstants, Zenon
<1>1. q \in Record /\ Budget(q) /\ q.fence >= r.fence /\ (terminal(r.state) => q = r)
      /\ (q.state = "completed" => r.state = "completed")
  BY ReclaimedFacts, ReclaimedBudget, Zenon
<1>2. CASE s = q
  BY <1>1, <1>2, Zenon
<1> HIDE DEF q
<1>3. CASE q.state = "scheduled" /\ s = [q EXCEPT !.state = "cancelled"]
  BY <1>0, <1>1, <1>3, Zenon DEF Record, Budget, States, terminal
<1>4. CASE q.state = "scheduled" /\ s = Leased(q)
  <2>1. s \in Record
    <3>1. now + Lease \in Nat /\ "running" \in States
      BY <1>0 DEF States
    <3> QED
      BY <1>1, <1>4, <3>1, Fields, UpdateLeased, Zenon DEF Leased
  <2>2. Budget(s) /\ s.fence >= r.fence
    BY <1>0, <1>1, <1>4 DEF Record, Leased, Budget
  <2>3. ~terminal(r.state) /\ s.state # "completed"
    BY <1>1, <1>4, Zenon DEF terminal, Leased, Record
  <2> QED
    BY <2>1, <2>2, <2>3, Zenon
<1>5. CASE r.state = "running" /\ s = [r EXCEPT !.leaseUntil = now + Lease]
  BY <1>0, <1>5 DEF Record, Budget, States, terminal
<1>7. CASE ~terminal(r.state) /\ s = [r EXCEPT !.state = "cancelled", !.fence = @ + 1]
  <2>1. s \in Record
    BY <1>7, Fields, UpdateFence, Zenon DEF States
  <2>2. Budget(s) /\ s.fence >= r.fence /\ s.state = "cancelled"
    BY <1>0, <1>7 DEF Record, Budget, terminal
  <2> QED
    BY <1>7, <2>1, <2>2, Zenon
<1> QED
  BY <1>2, <1>3, <1>4, <1>5, <1>7, Zenon DEF Moved, q

(***************************************************************************)
(* A new task has its whole budget.                                        *)
(***************************************************************************)
LEMMA NewFacts ==
    ASSUME NEW t \in Tasks
    PROVE  NewRecord(t) \in Record /\ Budget(NewRecord(t)) /\ NewRecord(t) # None
  BY DriverConstants DEF NewRecord, Record, States, Budget

-------------------------------------------------------------------------------
(***************************************************************************)
(* Claim reclaims every expired lease, sweeps what is late, and leases at  *)
(* most one task.                                                          *)
(***************************************************************************)
LEMMA ClaimShape ==
    ASSUME TypeOK, NEW w \in Workers, Claim(w), NEW t \in Tasks
    PROVE  MovedStep(t)
<1>1. /\ AfterReclaim[t] = Reclaimed(records[t])
      /\ t \notin Late => Swept[t] = AfterReclaim[t]
      /\ t \in Late => Swept[t] = [AfterReclaim[t] EXCEPT !.state = "cancelled"]
      /\ Swept = [u \in Tasks |-> Swept[u]]
  BY Zenon DEF AfterReclaim, Swept
<1>2. /\ t \in Due => records[t] # None /\ AfterReclaim[t].state = "scheduled"
      /\ Late \subseteq Due
  BY Zenon DEF Due, Late, Known
<1>3. records'[t] \in {Swept[t], Leased(Swept[t])}
      /\ (records'[t] # Swept[t] => t \in Due \ Late)
  BY <1>1, Zenon DEF Claim
<1>4. records[t] = None => Reclaimed(records[t]) = records[t]
  BY Zenon DEF Reclaimed, Expired
<1>5. CASE t \in Late
  BY <1>1, <1>2, <1>3, <1>5, Zenon DEF MovedStep, Moved
<1>6. CASE t \notin Late /\ records'[t] = Swept[t]
  BY <1>1, <1>4, <1>6, Zenon DEF MovedStep, Moved
<1>7. CASE t \notin Late /\ records'[t] # Swept[t]
  BY <1>1, <1>2, <1>3, <1>7, Zenon DEF MovedStep, Moved
<1> QED
  BY <1>5, <1>6, <1>7, Zenon

(***************************************************************************)
(* Resolve and Heartbeat touch the record of the delivery they are given,  *)
(* and only under its fence and lease.                                     *)
(***************************************************************************)
LEMMA HolderShape ==
    ASSUME TypeOK, OneHolder, NEW w \in Workers, Resolve(w) \/ Heartbeat(w), NEW t \in Tasks
    PROVE  MovedStep(t) \/ (Resolve(w) /\ ResolvedStep(t))
<1> DEFINE d == delivery[w]
<1>1. CASE UNCHANGED records
  BY <1>1, Zenon DEF MovedStep
<1>2. CASE ~UNCHANGED records
  <2>1. /\ d # None /\ Holds(d)
        /\ \/ records' = [records EXCEPT ![d.task].leaseUntil = now + Lease]
           \/ /\ Resolve(w)
              /\ delivery' = [delivery EXCEPT ![w] = None]
              /\ \E o \in Outcomes : records' = [records EXCEPT ![d.task] = Resolved(@, o)]
    BY <1>2, Zenon DEF Resolve, Heartbeat
  <2>2. CASE t # d.task
    BY <2>1, <2>2, Zenon DEF MovedStep, TypeOK
  <2>3. d.task \in Tasks /\ records[d.task] # None
    BY <2>1, Zenon DEF OneHolder, Known
  <2>4. CASE t = d.task
    <3>1. \/ records'[t] = [records[t] EXCEPT !.leaseUntil = now + Lease]
          \/ /\ Resolve(w) /\ delivery'[w] = None
             /\ \E o \in Outcomes : records'[t] = Resolved(records[t], o)
      BY <2>1, <2>4, Zenon DEF TypeOK
    <3>2. records[t].state = "running"
      BY <2>1, <2>4, Zenon DEF Holds
    <3> QED
      BY <2>1, <2>3, <2>4, <3>1, <3>2, Zenon DEF MovedStep, Moved, ResolvedStep
  <2> QED
    BY <2>2, <2>4, Zenon
<1> QED
  BY <1>1, <1>2, Zenon

(***************************************************************************)
(* Every step treats every record in one of these ways.                    *)
(***************************************************************************)
LEMMA Shape ==
    ASSUME TypeOK, OneHolder, [Next]_vars, NEW t \in Tasks
    PROVE  MovedStep(t) \/ ResolvedStep(t)
<1>1. CASE Enqueue
  <2>1. PICK n \in 0 .. MaxBatch : \E new \in [1 .. n -> Tasks \ Known] :
           records' = [u \in Tasks |-> IF u \in Range(new) THEN NewRecord(u) ELSE records[u]]
    BY <1>1, Zenon DEF Enqueue
  <2>2. PICK new \in [1 .. n -> Tasks \ Known] :
           records' = [u \in Tasks |-> IF u \in Range(new) THEN NewRecord(u) ELSE records[u]]
    BY <2>1, Zenon
  <2>3. t \in Range(new) => records[t] = None
    BY Zenon DEF Range, Known
  <2> QED
    BY <2>2, <2>3, Zenon DEF MovedStep
<1>2. CASE Cancel
  <2>1. PICK u \in Known : /\ ~terminal(records[u].state)
                           /\ records' = [records EXCEPT ![u].state = "cancelled",
                                                         ![u].fence = @ + 1]
    BY <1>2, Zenon DEF Cancel
  <2>2. CASE u # t
    BY <2>1, <2>2, Zenon DEF MovedStep, TypeOK
  <2>3. CASE u = t
    <3>1. records'[t] = [records[t] EXCEPT !.state = "cancelled", !.fence = @ + 1]
      BY <2>1, <2>3, Zenon DEF TypeOK
    <3> QED
      BY <2>1, <2>3, <3>1, Zenon DEF MovedStep, Moved, Known
  <2> QED
    BY <2>2, <2>3, Zenon
<1>3. CASE Drained
  <2>1. records'[t] = Reclaimed(records[t])
    BY <1>3, Zenon DEF Drained, AfterReclaim
  <2>2. records[t] = None => Reclaimed(records[t]) = records[t]
    BY Zenon DEF Reclaimed, Expired
  <2> QED
    BY <2>1, <2>2, Zenon DEF MovedStep, Moved
<1>4. CASE BeginDrain \/ Tick \/ UNCHANGED vars \/ \E w \in Workers : Crash(w)
  BY <1>4, Zenon DEF BeginDrain, Tick, vars, Crash, MovedStep
<1>5. CASE \E w \in Workers : Claim(w) \/ Resolve(w) \/ Heartbeat(w)
  BY <1>5, ClaimShape, HolderShape, Zenon
<1> QED
  BY <1>1, <1>2, <1>3, <1>4, <1>5, Zenon DEF Next

(***************************************************************************)
(* What any step does to the record of a task.                             *)
(***************************************************************************)
LEMMA RecordFacts ==
    ASSUME IInv, [Next]_vars, NEW t \in Tasks
    PROVE  /\ records'[t] \in Record \cup {None}
           /\ records'[t] # None => Budget(records'[t])
           /\ records[t] # None =>
                /\ records'[t] # None
                /\ records'[t].fence >= records[t].fence
                /\ terminal(records[t].state) => records'[t] = records[t]
<1>1. /\ now \in Nat /\ records[t] \in Record \cup {None}
      /\ records[t] # None => Budget(records[t])
  BY Zenon DEF IInv, TypeOK
<1>2. None \notin Record
  BY DriverConstants, Zenon
<1>3. MovedStep(t) \/ ResolvedStep(t)
  BY Shape, Zenon DEF IInv
<1>4. CASE records'[t] = records[t]
  BY <1>1, <1>4, Fields
<1>5. CASE records[t] = None /\ records'[t] = NewRecord(t)
  BY <1>5, NewFacts, Zenon
<1>6. CASE records[t] # None /\ Moved(records[t], records'[t])
  BY <1>1, <1>2, <1>6, MovedFacts, Zenon
<1>7. CASE ResolvedStep(t)
  <2>1. records[t] \in Record /\ records[t].state = "running"
    BY <1>1, <1>7, Zenon DEF ResolvedStep, Holds
  <2>2. PICK o \in Outcomes : records'[t] = Resolved(records[t], o)
    BY <1>7, Zenon DEF ResolvedStep
  <2>3. records'[t] \in Record /\ records'[t].fence = records[t].fence /\ Budget(records'[t])
    BY <1>1, <1>2, <2>1, <2>2, ResolvedFacts, Zenon
  <2>4. records[t].fence \in Nat
    BY <2>1, Fields, Zenon
  <2> QED
    BY <1>2, <2>1, <2>3, <2>4 DEF terminal
<1> QED
  BY <1>3, <1>4, <1>5, <1>6, <1>7, Zenon DEF MovedStep

(***************************************************************************)
(* A step hands task t to worker w.                                        *)
(***************************************************************************)
Hands(w, t) ==
    /\ t \in Due \ Late
    /\ records' = [Swept EXCEPT ![t] = Leased(@)]
    /\ active' = ActiveAfterReclaim + 1
    /\ delivery' = [delivery EXCEPT ![w] = [task |-> t, fence |-> Leased(Swept[t]).fence]]

(***************************************************************************)
(* A new delivery carries the fence its record has from now on, which is   *)
(* larger than any fence the task had before.                              *)
(***************************************************************************)
LEMMA HandsFacts ==
    ASSUME TypeOK, NEW w \in Workers, NEW t, Hands(w, t)
    PROVE  /\ t \in Known
           /\ delivery'[w] = [task |-> t, fence |-> records'[t].fence]
           /\ records'[t].fence \in Nat /\ records'[t].fence > records[t].fence
           /\ \A v \in Workers \ {w} : delivery'[v] = delivery[v]
<1>1. /\ t \in Known /\ t \in Tasks /\ records[t] \in Record /\ now \in Nat
  BY DriverConstants, Zenon DEF Hands, Due, Known, TypeOK
<1>2. Swept[t] = Reclaimed(records[t])
  BY <1>1, Zenon DEF Hands, Swept, AfterReclaim
<1>3. records'[t] = Leased(Swept[t])
  BY <1>1, Zenon DEF Hands, Swept
<1>4. Swept[t] \in Record /\ Swept[t].fence >= records[t].fence
  BY <1>1, <1>2, ReclaimedFacts
<1>5. Leased(Swept[t]).fence = Swept[t].fence + 1
  BY <1>4, Zenon DEF Leased, Record
<1>6. records[t].fence \in Nat /\ Swept[t].fence \in Nat
  BY <1>1, <1>4, Fields, Zenon
<1>7. /\ delivery'[w] = [task |-> t, fence |-> records'[t].fence]
      /\ \A v \in Workers \ {w} : delivery'[v] = delivery[v]
  BY <1>3, Zenon DEF Hands, TypeOK
<1> QED
  BY <1>1, <1>3, <1>4, <1>5, <1>6, <1>7

(***************************************************************************)
(* Deliveries only appear through a hand-over.                             *)
(***************************************************************************)
LEMMA DeliverySteps ==
    ASSUME TypeOK, [Next]_vars
    PROVE  \/ \A v \in Workers : delivery'[v] \in {delivery[v], None}
           \/ \E w \in Workers, t \in Tasks : Hands(w, t)
<1>1. ASSUME NEW w \in Workers, Claim(w)
      PROVE  UNCHANGED delivery \/ \E t \in Tasks : Hands(w, t)
  <2>1. Due \subseteq Tasks
    BY Zenon DEF Due, Known
  <2> QED
    BY <1>1, <2>1, Zenon DEF Claim, Hands
<1>2. ASSUME NEW w \in Workers, Resolve(w) \/ Crash(w)
      PROVE  delivery' = [delivery EXCEPT ![w] = None]
  BY <1>2, Zenon DEF Resolve, Crash
<1>3. ASSUME \/ Enqueue \/ Cancel \/ BeginDrain \/ Drained \/ Tick \/ UNCHANGED vars
             \/ \E w \in Workers : Heartbeat(w)
      PROVE  UNCHANGED delivery
  BY <1>3, Zenon DEF Enqueue, Cancel, BeginDrain, Drained, Tick, vars, Heartbeat
<1> QED
  BY <1>1, <1>2, <1>3, Zenon DEF Next, TypeOK

-------------------------------------------------------------------------------
(***************************************************************************)
(* Removing part of a finite set.                                          *)
(***************************************************************************)
LEMMA Removed ==
    ASSUME NEW S, NEW T \in SUBSET S, IsFiniteSet(S)
    PROVE  /\ IsFiniteSet(S \ T)
           /\ Cardinality(S) \in Nat /\ Cardinality(T) \in Nat /\ Cardinality(S \ T) \in Nat
           /\ Cardinality(S \ T) = Cardinality(S) - Cardinality(T)
<1>1. IsFiniteSet(T) /\ IsFiniteSet(S \ T)
  BY FS_Subset, Zenon
<1>2. Cardinality(S) \in Nat /\ Cardinality(T) \in Nat /\ Cardinality(S \ T) \in Nat
  BY <1>1, FS_CardinalityType, Zenon
<1>3. /\ Cardinality((S \ T) \cup T) =
            Cardinality(S \ T) + Cardinality(T) - Cardinality((S \ T) \cap T)
  BY <1>1, FS_Union, Zenon
<1>4. (S \ T) \cup T = S /\ (S \ T) \cap T = {} /\ Cardinality({}) = 0
  BY FS_EmptySet, Zenon
<1>5. Cardinality(S) = Cardinality(S \ T) + Cardinality(T) - 0
  BY <1>3, <1>4, Zenon
<1> QED
  BY <1>1, <1>2, <1>5

ExpiredTasks == {t \in Tasks : Expired(records[t])}

(***************************************************************************)
(* The counter after reclaiming counts the attempts that still run.        *)
(***************************************************************************)
LEMMA ReclaimCount ==
    ASSUME IsFiniteSet(RunningTasks), ActiveIsExact
    PROVE  /\ IsFiniteSet(RunningTasks \ ExpiredTasks)
           /\ ActiveAfterReclaim = Cardinality(RunningTasks \ ExpiredTasks)
           /\ ActiveAfterReclaim \in Nat
<1>1. ExpiredTasks \in SUBSET RunningTasks
  BY Zenon DEF ExpiredTasks, Expired, RunningTasks, Known
<1>2. ActiveAfterReclaim = Decrease(Cardinality(RunningTasks), Cardinality(ExpiredTasks))
  BY Zenon DEF ActiveAfterReclaim, ExpiredTasks, ActiveIsExact
<1> QED
  BY <1>1, <1>2, Removed DEF Decrease

-------------------------------------------------------------------------------
(***************************************************************************)
(* Every step keeps the records' types and budgets.                        *)
(***************************************************************************)
LEMMA RecordsStep ==
    ASSUME IInv, [Next]_vars
    PROVE  /\ records' \in [Tasks -> Record \cup {None}]
           /\ \A t \in Tasks : records'[t] # None => Budget(records'[t])
<1>1. \A t \in Tasks : /\ records'[t] \in Record \cup {None}
                       /\ records'[t] # None => Budget(records'[t])
  BY RecordFacts, Zenon
<1>2. records' = [t \in Tasks |-> records'[t]]
  <2>1. records = [t \in Tasks |-> records[t]]
    BY Zenon DEF IInv, TypeOK
  <2>2. ASSUME NEW w \in Workers, Claim(w) PROVE records' = [t \in Tasks |-> records'[t]]
    <3>1. Swept = [t \in Tasks |-> Swept[t]]
      BY Zenon DEF Swept
    <3>2. records' = Swept \/ \E t \in Tasks : records' = [Swept EXCEPT ![t] = Leased(@)]
      <4>1. Due \subseteq Tasks
        BY Zenon DEF Due, Known
      <4> QED
        BY <2>2, <4>1, Zenon DEF Claim
    <3> QED
      BY <3>1, <3>2, Zenon
  <2>3. ASSUME NEW w \in Workers, Heartbeat(w) \/ Resolve(w) \/ Crash(w)
        PROVE  records' = [t \in Tasks |-> records'[t]]
    BY <2>1, <2>3, Zenon DEF Heartbeat, Resolve, Crash
  <2>4. CASE Enqueue \/ Drained
    BY <2>4, Zenon DEF Enqueue, Drained, AfterReclaim
  <2>5. CASE Cancel \/ BeginDrain \/ Tick \/ UNCHANGED vars
    BY <2>1, <2>5, Zenon DEF Cancel, BeginDrain, Tick, vars
  <2> QED
    BY <2>2, <2>3, <2>4, <2>5, Zenon DEF Next
<1> QED
  BY <1>1, <1>2, Zenon

(***************************************************************************)
(* Every step keeps the types.                                             *)
(***************************************************************************)
LEMMA TypeStep == IInv /\ [Next]_vars => TypeOK'
<1> SUFFICES ASSUME IInv, [Next]_vars PROVE TypeOK'
  BY Zenon
<1>0. TypeOK /\ Lease \in Nat
  BY DriverConstants, Zenon DEF IInv
<1>1. records' \in [Tasks -> Record \cup {None}]
  BY RecordsStep, Zenon
<1>2. order' \in Seq(Tasks)
  <2>1. CASE Enqueue
    <3>1. PICK n \in 0 .. MaxBatch : \E new \in [1 .. n -> Tasks \ Known] : order' = order \o new
      BY <2>1, Zenon DEF Enqueue
    <3>2. PICK new \in [1 .. n -> Tasks \ Known] : order' = order \o new
      BY <3>1, Zenon
    <3>3. new \in Seq(Tasks)
      BY DriverConstants
    <3> QED
      BY <1>0, <3>2, <3>3 DEF TypeOK
  <2>2. ASSUME ~Enqueue PROVE UNCHANGED order
    BY <2>2, Zenon
       DEF Next, vars, Cancel, BeginDrain, Drained, Tick, Claim, Heartbeat, Resolve, Crash
  <2> QED
    BY <1>0, <2>1, <2>2, Zenon DEF TypeOK
<1>3. draining' \in BOOLEAN
  BY <1>0, Zenon DEF TypeOK, Next, vars, Enqueue, Cancel, BeginDrain, Drained, Tick, Claim,
     Heartbeat, Resolve, Crash
<1>4. active' \in Nat
  <2>1. active \in Nat
    BY <1>0, Zenon DEF TypeOK
  <2>2. ActiveAfterReclaim \in Nat
    BY ReclaimCount, Zenon DEF IInv
  <2>3. active' \in {active, Decrease(active, 1), ActiveAfterReclaim, ActiveAfterReclaim + 1}
    BY Zenon DEF Next, vars, Enqueue, Cancel, BeginDrain, Drained, Tick, Claim,
       Heartbeat, Resolve, Crash
  <2> QED
    BY <2>1, <2>2, <2>3 DEF Decrease
<1>5. delivery' \in [Workers -> Delivery \cup {None}]
  <2>1. \A v \in Workers : delivery'[v] \in Delivery \cup {None}
    <3>1. \A v \in Workers : delivery[v] \in Delivery \cup {None}
      BY <1>0, Zenon DEF TypeOK
    <3>2. ASSUME NEW w \in Workers, NEW t \in Tasks, Hands(w, t)
          PROVE  \A v \in Workers : delivery'[v] \in Delivery \cup {None}
      <4>1. /\ delivery'[w] = [task |-> t, fence |-> records'[t].fence]
            /\ records'[t].fence \in Nat
            /\ \A v \in Workers \ {w} : delivery'[v] = delivery[v]
        BY <1>0, <3>2, HandsFacts, Zenon
      <4>2. delivery'[w] \in Delivery
        BY <4>1 DEF Delivery
      <4> QED
        BY <3>1, <4>1, <4>2, Zenon
    <3> QED
      BY <1>0, <3>1, <3>2, DeliverySteps, Zenon
  <2>2. delivery' = [v \in Workers |-> delivery'[v]]
    <3>1. delivery = [v \in Workers |-> delivery[v]]
      BY <1>0, Zenon DEF TypeOK
    <3>2. delivery' = delivery \/ \E w \in Workers : \E x : delivery' = [delivery EXCEPT ![w] = x]
      BY Zenon DEF Next, vars, Enqueue, Cancel, BeginDrain, Drained, Tick, Claim,
         Heartbeat, Resolve, Crash
    <3> QED
      BY <3>1, <3>2, Zenon
  <2> QED
    BY <2>1, <2>2, Zenon
<1>6. now' \in Nat
  <2>1. now' \in {now, now + 1}
    BY Zenon DEF Next, vars, Enqueue, Cancel, BeginDrain, Drained, Tick, Claim,
       Heartbeat, Resolve, Crash
  <2> QED
    BY <1>0, <2>1 DEF TypeOK
<1> QED
  BY <1>1, <1>2, <1>3, <1>4, <1>5, <1>6, Zenon DEF TypeOK

(***************************************************************************)
(* Fences keep deliveries of one task apart.                               *)
(***************************************************************************)
LEMMA HolderStep == IInv /\ [Next]_vars => OneHolder'
<1> SUFFICES ASSUME IInv, [Next]_vars PROVE OneHolder'
  BY Zenon
<1>0. TypeOK /\ OneHolder
  BY Zenon DEF IInv
<1>1. \A t \in Known : /\ t \in Known' /\ records'[t].fence >= records[t].fence
                       /\ records[t].fence \in Nat /\ records'[t].fence \in Nat
  <2> SUFFICES ASSUME NEW t \in Known
               PROVE  /\ t \in Known' /\ records'[t].fence >= records[t].fence
                      /\ records[t].fence \in Nat /\ records'[t].fence \in Nat
    BY Zenon
  <2>1. t \in Tasks /\ records[t] \in Record
    BY <1>0, Zenon DEF Known, TypeOK
  <2>2. records'[t] \in Record /\ records'[t].fence >= records[t].fence
    BY <2>1, RecordFacts, Zenon DEF Known
  <2>3. None \notin Record
    BY DriverConstants, Zenon
  <2> QED
    BY <2>1, <2>2, <2>3, Fields, Zenon DEF Known
<1>2. \A v \in Workers : delivery[v] # None => delivery[v].fence \in Nat
  BY <1>0, Zenon DEF TypeOK, Delivery
<1>3. CASE \A v \in Workers : delivery'[v] \in {delivery[v], None}
  BY <1>0, <1>1, <1>2, <1>3 DEF OneHolder
<1>4. ASSUME NEW w \in Workers, NEW t \in Tasks, Hands(w, t) PROVE OneHolder'
  <2>1. /\ t \in Known
        /\ delivery'[w] = [task |-> t, fence |-> records'[t].fence]
        /\ records'[t].fence \in Nat /\ records'[t].fence > records[t].fence
        /\ \A v \in Workers \ {w} : delivery'[v] = delivery[v]
    BY <1>0, <1>4, HandsFacts, Zenon
  <2>2. \A v \in Workers : delivery[v] # None /\ delivery[v].task = t =>
           delivery[v].fence < records'[t].fence
    BY <1>0, <1>1, <1>2, <2>1 DEF OneHolder
  <2> QED
    BY <1>0, <1>1, <1>2, <2>1, <2>2 DEF OneHolder
<1> QED
  BY <1>0, <1>3, <1>4, DeliverySteps, Zenon

(***************************************************************************)
(* A key is never given to a second task.                                  *)
(***************************************************************************)
LEMMA KeyStep == IInv /\ [Next]_vars => KeyHasOneTask'
<1> SUFFICES ASSUME IInv, [Next]_vars PROVE KeyHasOneTask'
  BY Zenon
<1>1. CASE Enqueue
  <2>1. PICK old \in SUBSET Known, n \in 0 .. MaxBatch : \E new \in [1 .. n -> Tasks \ Known] :
           /\ KeysFree(old \cup Range(new))
           /\ records' = [u \in Tasks |-> IF u \in Range(new) THEN NewRecord(u) ELSE records[u]]
    BY <1>1, Zenon DEF Enqueue
  <2>2. PICK new \in [1 .. n -> Tasks \ Known] :
           /\ KeysFree(old \cup Range(new))
           /\ records' = [u \in Tasks |-> IF u \in Range(new) THEN NewRecord(u) ELSE records[u]]
    BY <2>1, Zenon
  <2>3. Known' \subseteq Known \cup Range(new)
    BY <2>2, Zenon DEF Known
  <2> QED
    BY <2>2, <2>3, Zenon DEF IInv, KeyHasOneTask, KeysFree
<1>2. ASSUME ~Enqueue PROVE KeyHasOneTask'
  <2>1. ASSUME NEW t \in Tasks, records[t] = None PROVE records'[t] = None
    <3>1. CASE \E w \in Workers : Claim(w)
      <4>1. Swept = [u \in Tasks |-> Swept[u]] /\ Swept[t] = Reclaimed(records[t])
        BY <2>1, Zenon DEF Swept, AfterReclaim, Late, Due, Known
      <4>2. records'[t] = Swept[t]
        BY <2>1, <3>1, <4>1, Zenon DEF Claim, Due, Known
      <4> QED
        BY <2>1, <4>1, <4>2, Zenon DEF Reclaimed, Expired
    <3>2. CASE Cancel
      BY <2>1, <3>2, Zenon DEF Cancel, Known, IInv, TypeOK
    <3>3. CASE Drained
      BY <2>1, <3>3, Zenon DEF Drained, AfterReclaim, Reclaimed, Expired
    <3>4. CASE \E w \in Workers : Heartbeat(w) \/ Resolve(w)
      <4>1. \A w \in Workers : delivery[w] # None => delivery[w].task # t
        BY <2>1, Zenon DEF IInv, OneHolder, Known
      <4> QED
        BY <2>1, <3>4, <4>1 DEF Heartbeat, Resolve, IInv, TypeOK
    <3>5. CASE BeginDrain \/ Tick \/ UNCHANGED vars \/ \E w \in Workers : Crash(w)
      BY <2>1, <3>5, Zenon DEF BeginDrain, Tick, vars, Crash
    <3> QED
      BY <1>2, <3>1, <3>2, <3>3, <3>4, <3>5, Zenon DEF Next
  <2>2. Known' \subseteq Known
    BY <2>1, Zenon DEF Known
  <2> QED
    BY <2>2, Zenon DEF IInv, KeyHasOneTask
<1> QED
  BY <1>1, <1>2, Zenon

(***************************************************************************)
(* Which attempts run after the calls that start or end one.               *)
(***************************************************************************)
LEMMA RunningAfterReclaim ==
    ASSUME TypeOK
    PROVE  RunningTasks \ ExpiredTasks =
             {t \in Tasks : records[t] # None /\ AfterReclaim[t].state = "running"}
<1> SUFFICES ASSUME NEW t \in Tasks, records[t] # None
             PROVE  (records[t].state = "running" /\ ~Expired(records[t]))
                      <=> Reclaimed(records[t]).state = "running"
  BY Zenon DEF RunningTasks, ExpiredTasks, Known, AfterReclaim
<1> QED
  BY ReclaimedFacts DEF TypeOK

(***************************************************************************)
(* Sweeping stops no attempt that still runs and starts none; a hand-over  *)
(* adds one, the task handed out.                                          *)
(***************************************************************************)
LEMMA SweptState ==
    ASSUME TypeOK, NEW t \in Tasks
    PROVE  /\ (Swept[t] # None /\ Swept[t].state = "running") <=>
                (records[t] # None /\ AfterReclaim[t].state = "running")
           /\ (AfterReclaim[t] # None /\ AfterReclaim[t].state = "running") <=>
                (records[t] # None /\ AfterReclaim[t].state = "running")
           /\ Swept[t] \in Record \cup {None}
<1>0. /\ AfterReclaim[t] = Reclaimed(records[t]) /\ None \notin Record
      /\ records[t] \in Record \cup {None} /\ now \in Nat
      /\ Swept[t] = IF t \in Late THEN [AfterReclaim[t] EXCEPT !.state = "cancelled"]
                                  ELSE AfterReclaim[t]
  BY DriverConstants, Zenon DEF AfterReclaim, TypeOK, Swept
<1>1. CASE records[t] = None
  <2>1. Reclaimed(records[t]) = None /\ t \notin Late
    BY <1>1, Zenon DEF Reclaimed, Expired, Late, Due, Known
  <2> QED
    BY <1>0, <1>1, <2>1, Zenon
<1>2. CASE records[t] # None
  <2>1. AfterReclaim[t] \in Record
    BY <1>0, <1>2, ReclaimedFacts
  <2>2. CASE t \notin Late
    BY <1>0, <1>2, <2>1, <2>2, Zenon
  <2>3. CASE t \in Late
    <3>1. Swept[t] \in Record /\ Swept[t].state = "cancelled"
      BY <1>0, <2>1, <2>3, Zenon DEF Record, States
    <3>2. AfterReclaim[t].state = "scheduled"
      BY <2>3, Zenon DEF Late, Due
    <3> QED
      BY <1>0, <1>2, <2>1, <3>1, <3>2, Zenon
  <2> QED
    BY <2>2, <2>3, Zenon
<1> QED
  BY <1>1, <1>2, Zenon

(***************************************************************************)
(* Which attempts run after reclaiming and sweeping.                       *)
(***************************************************************************)
LEMMA SweptRunning ==
    ASSUME TypeOK, records' = AfterReclaim \/ records' = Swept
    PROVE  RunningTasks' = RunningTasks \ ExpiredTasks
<1>1. RunningTasks' = {t \in Tasks : records'[t] # None /\ records'[t].state = "running"}
  BY Zenon DEF RunningTasks, Known
<1> QED
  BY <1>1, SweptState, RunningAfterReclaim, Zenon

(***************************************************************************)
(* Which attempts run after a hand-over.                                   *)
(***************************************************************************)
LEMMA HandsRunning ==
    ASSUME TypeOK, NEW w \in Workers, NEW t \in Tasks, Hands(w, t)
    PROVE  /\ t \notin RunningTasks \ ExpiredTasks
           /\ RunningTasks' = (RunningTasks \ ExpiredTasks) \cup {t}
<1>1. RunningTasks' = {u \in Tasks : records'[u] # None /\ records'[u].state = "running"}
  BY Zenon DEF RunningTasks, Known
<1>2. /\ t \in Due /\ t \notin Late /\ records[t] # None
      /\ AfterReclaim[t].state = "scheduled" /\ Swept[t] = AfterReclaim[t]
  BY Zenon DEF Hands, Due, Known, Swept
<1>3. \A u \in Tasks : records'[u] = IF u = t THEN Leased(Swept[t]) ELSE Swept[u]
  BY Zenon DEF Hands, Swept
<1>4. Leased(Swept[t]) # None /\ Leased(Swept[t]).state = "running"
  <2>1. Swept[t] \in Record /\ now + Lease \in Nat /\ None \notin Record /\ "running" \in States
    <3>1. records[t] \in Record /\ now \in Nat
      BY <1>2, Zenon DEF TypeOK
    <3> QED
      BY <1>2, <3>1, ReclaimedFacts, DriverConstants DEF AfterReclaim, States
  <2>2. Leased(Swept[t]) \in Record
    BY <2>1, Fields, UpdateLeased, Zenon DEF Leased
  <2>3. Leased(Swept[t]).state = "running"
    BY <2>1, Zenon DEF Leased, Record
  <2> QED
    BY <2>1, <2>2, <2>3, Zenon
<1>5. \A u \in Tasks : (records'[u] # None /\ records'[u].state = "running") <=>
         (u = t \/ (records[u] # None /\ AfterReclaim[u].state = "running"))
  BY <1>3, <1>4, SweptState, Zenon
<1> QED
  BY <1>1, <1>2, <1>5, RunningAfterReclaim, Zenon

(***************************************************************************)
(* A call that ends the attempt of one task, through Resolve or Cancel.    *)
(***************************************************************************)
Ends(t) ==
    /\ t \in RunningTasks
    /\ active' = Decrease(active, 1)
    /\ \E s \in Record : s.state # "running" /\ records' = [records EXCEPT ![t] = s]

(***************************************************************************)
(* The counter stays exact when one attempt ends.                          *)
(***************************************************************************)
LEMMA EndsCount ==
    ASSUME IInv, NEW t, Ends(t)
    PROVE  IsFiniteSet(RunningTasks') /\ active' = Cardinality(RunningTasks')
<1>1. RunningTasks' = RunningTasks \ {t}
  <2>1. RunningTasks' = {u \in Tasks : records'[u] # None /\ records'[u].state = "running"}
    BY Zenon DEF RunningTasks, Known
  <2>2. PICK s \in Record : s.state # "running" /\ records' = [records EXCEPT ![t] = s]
    BY Zenon DEF Ends
  <2>3. \A u \in Tasks : records'[u] = IF u = t THEN s ELSE records[u]
    BY <2>2, Zenon DEF IInv, TypeOK
  <2> QED
    BY <2>1, <2>2, <2>3, Zenon DEF RunningTasks, Known
<1>2. /\ IsFiniteSet(RunningTasks) /\ active = Cardinality(RunningTasks) /\ t \in RunningTasks
      /\ active' = Decrease(active, 1) /\ active \in Nat
  BY Zenon DEF IInv, ActiveIsExact, Ends, TypeOK
<1>3. IsFiniteSet(RunningTasks \ {t}) /\ Cardinality(RunningTasks \ {t}) = active - 1
  BY <1>2, FS_RemoveElement, Zenon
<1>4. active # 0
  BY <1>2, FS_EmptySet, Zenon
<1> QED
  BY <1>1, <1>2, <1>3, <1>4 DEF Decrease

(***************************************************************************)
(* Steps that change neither the counter nor which attempts run.           *)
(***************************************************************************)
LEMMA SameCount ==
    ASSUME IInv, UNCHANGED active,
           \A t \in Tasks : (records'[t] # None /\ records'[t].state = "running") <=>
                            (records[t] # None /\ records[t].state = "running")
    PROVE  IsFiniteSet(RunningTasks') /\ active' = Cardinality(RunningTasks')
<1>1. RunningTasks' = RunningTasks
  <2>1. RunningTasks' = {u \in Tasks : records'[u] # None /\ records'[u].state = "running"}
    BY Zenon DEF RunningTasks, Known
  <2> QED
    BY <2>1, Zenon DEF RunningTasks, Known
<1> QED
  BY <1>1, Zenon DEF IInv, ActiveIsExact

(***************************************************************************)
(* Every way to start or end an attempt moves the counter by exactly one   *)
(* per attempt.                                                            *)
(***************************************************************************)
LEMMA CountStep == IInv /\ [Next]_vars => IsFiniteSet(RunningTasks') /\ ActiveIsExact'
<1> SUFFICES ASSUME IInv, [Next]_vars
             PROVE  IsFiniteSet(RunningTasks') /\ active' = Cardinality(RunningTasks')
  BY Zenon DEF ActiveIsExact
<1> DEFINE Goal == IsFiniteSet(RunningTasks') /\ active' = Cardinality(RunningTasks')
<1>0. TypeOK /\ IsFiniteSet(RunningTasks) /\ ActiveIsExact /\ OneHolder
  BY Zenon DEF IInv
<1>r. \A t \in Tasks : records[t] \in Record \cup {None}
  BY <1>0, Zenon DEF TypeOK
<1>1. CASE /\ records' = AfterReclaim \/ records' = Swept
           /\ active' = ActiveAfterReclaim
  BY <1>0, <1>1, SweptRunning, ReclaimCount, Zenon
<1>2. ASSUME NEW w \in Workers, NEW t \in Tasks, Hands(w, t) PROVE Goal
  <2>1. active' = ActiveAfterReclaim + 1
    BY <1>2, Zenon DEF Hands
  <2> DEFINE S == RunningTasks \ ExpiredTasks
  <2>2. IsFiniteSet(S) /\ ActiveAfterReclaim = Cardinality(S)
    BY <1>0, ReclaimCount, Zenon
  <2>3. t \notin S /\ RunningTasks' = S \cup {t}
    BY <1>0, <1>2, HandsRunning, Zenon
  <2> HIDE DEF S
  <2>4. IsFiniteSet(S \cup {t}) /\ Cardinality(S \cup {t}) = Cardinality(S) + 1
    BY <2>2, <2>3, FS_AddElement, Zenon
  <2> QED
    BY <2>1, <2>2, <2>3, <2>4, Zenon
<1>3. ASSUME NEW w \in Workers, Claim(w) PROVE Goal
  <2>1. Due \subseteq Tasks
    BY Zenon DEF Due, Known
  <2>2. \/ records' = Swept /\ active' = ActiveAfterReclaim
        \/ \E t \in Tasks : Hands(w, t)
    BY <1>3, <2>1, Zenon DEF Claim, Hands
  <2> QED
    BY <1>1, <1>2, <2>2, Zenon
<1>4. ASSUME NEW w \in Workers, Resolve(w) PROVE Goal
  <2>1. CASE UNCHANGED <<records, active>>
    BY <2>1, SameCount, Zenon
  <2>2. CASE ~UNCHANGED <<records, active>>
    <3>1. PICK o \in Outcomes : /\ delivery[w] # None /\ Holds(delivery[w])
             /\ records' = [records EXCEPT ![delivery[w].task] = Resolved(@, o)]
             /\ active' = Decrease(active, 1)
      BY <1>4, <2>2, Zenon DEF Resolve
    <3> DEFINE t == delivery[w].task
    <3>2. t \in RunningTasks /\ records[t] \in Record /\ records[t].state = "running"
      BY <1>0, <1>r, <3>1, Zenon DEF OneHolder, Holds, RunningTasks, Known
    <3>n. now \in Nat
      BY <1>0, Zenon DEF TypeOK
    <3> HIDE DEF t
    <3>3. Resolved(records[t], o) \in Record /\ Resolved(records[t], o).state # "running"
      BY <3>2, <3>n, ResolvedFacts, Zenon
    <3>4. Ends(t)
      BY <3>1, <3>2, <3>3, Zenon DEF Ends, t
    <3> QED
      BY <3>4, EndsCount, Zenon
  <2> QED
    BY <2>1, <2>2, Zenon
<1>5. CASE Cancel
  <2>1. PICK t \in Known :
          /\ active' = IF records[t].state = "running" THEN Decrease(active, 1) ELSE active
          /\ records' = [records EXCEPT ![t].state = "cancelled", ![t].fence = @ + 1]
    BY <1>5, Zenon DEF Cancel
  <2> DEFINE s == [records[t] EXCEPT !.state = "cancelled", !.fence = @ + 1]
  <2>2. t \in Tasks /\ records[t] \in Record /\ "cancelled" \in States
    BY <1>r, Zenon DEF Known, States
  <2>3. s \in Record /\ s.state = "cancelled"
    <3>1. s \in Record
      BY <2>2, Fields, UpdateFence, Zenon
    <3> QED
      BY <2>2, <3>1, Zenon DEF Record
  <2>4. records' = [records EXCEPT ![t] = s]
    BY <2>1, Zenon
  <2> HIDE DEF s
  <2>5. CASE records[t].state = "running"
    <3>1. Ends(t)
      BY <2>1, <2>2, <2>3, <2>4, <2>5, Zenon DEF Ends, RunningTasks, Known
    <3> QED
      BY <3>1, EndsCount, Zenon
  <2>6. CASE records[t].state # "running"
    <3>1. \A u \in Tasks : records'[u] = IF u = t THEN s ELSE records[u]
      BY <1>0, <2>4, Zenon DEF TypeOK
    <3> QED
      BY <2>1, <2>2, <2>3, <2>6, <3>1, SameCount, Zenon
  <2> QED
    BY <2>5, <2>6, Zenon
<1>6. CASE Enqueue
  <2>1. PICK n \in 0 .. MaxBatch : \E new \in [1 .. n -> Tasks \ Known] :
           records' = [u \in Tasks |-> IF u \in Range(new) THEN NewRecord(u) ELSE records[u]]
    BY <1>6, Zenon DEF Enqueue
  <2>2. PICK new \in [1 .. n -> Tasks \ Known] :
           records' = [u \in Tasks |-> IF u \in Range(new) THEN NewRecord(u) ELSE records[u]]
    BY <2>1, Zenon
  <2>3. \A u \in Range(new) : records[u] = None
    BY Zenon DEF Range, Known
  <2>4. \A u \in Tasks : NewRecord(u).state = "scheduled"
    BY Zenon DEF NewRecord
  <2>5. UNCHANGED active
    BY <1>6, Zenon DEF Enqueue
  <2> QED
    BY <2>2, <2>3, <2>4, <2>5, SameCount, Zenon
<1>7. ASSUME NEW w \in Workers, Heartbeat(w) PROVE Goal
  <2> DEFINE t == delivery[w].task
             s == [records[t] EXCEPT !.leaseUntil = now + Lease]
  <2>1. /\ delivery[w] # None /\ Holds(delivery[w]) /\ UNCHANGED active
        /\ records' = [records EXCEPT ![t] = s]
    BY <1>7, Zenon DEF Heartbeat
  <2>2. t \in Tasks /\ records[t] \in Record /\ records[t].state = "running"
    BY <1>0, <1>r, <2>1, Zenon DEF OneHolder, Holds, Known
  <2>3. s.state = "running" /\ records[t] # None
    BY <2>2, DriverConstants, Zenon DEF Record
  <2>4. s # None
    <3>1. now + Lease \in Nat /\ None \notin Record
      BY <1>0, DriverConstants DEF TypeOK
    <3> QED
      BY <2>2, <3>1, UpdateLease, Zenon
  <2> HIDE DEF s
  <2>5. \A u \in Tasks : records'[u] = IF u = t THEN s ELSE records[u]
    BY <1>0, <2>1, Zenon DEF TypeOK
  <2> QED
    BY <2>1, <2>2, <2>3, <2>4, <2>5, SameCount, Zenon
<1>8. CASE BeginDrain \/ Tick \/ UNCHANGED vars \/ \E w \in Workers : Crash(w)
  <2>1. UNCHANGED <<records, active>>
    BY <1>8, Zenon DEF BeginDrain, Tick, vars, Crash
  <2> QED
    BY <2>1, SameCount, Zenon
<1>9. CASE Drained
  BY <1>1, <1>9, Zenon DEF Drained
<1> QED
  BY <1>3, <1>4, <1>5, <1>6, <1>7, <1>8, <1>9, Zenon DEF Next

-------------------------------------------------------------------------------
(***************************************************************************)
(* The inductive invariant holds initially.                                *)
(***************************************************************************)
LEMMA InitIInv == Init => IInv
<1> SUFFICES ASSUME Init PROVE IInv
  BY Zenon
<1>1. TypeOK
  <2>1. order \in Seq(Tasks)
    BY DEF Init
  <2> QED
    BY <2>1, Zenon DEF Init, TypeOK
<1>2. Known = {} /\ RunningTasks = {}
  BY Zenon DEF Init, Known, RunningTasks
<1>3. OneHolder /\ KeyHasOneTask /\ \A t \in Tasks : records[t] # None => Budget(records[t])
  BY <1>2, Zenon DEF Init, OneHolder, KeyHasOneTask
<1>4. IsFiniteSet(RunningTasks) /\ ActiveIsExact
  BY <1>2, FS_EmptySet, Zenon DEF Init, ActiveIsExact
<1> QED
  BY <1>1, <1>3, <1>4, Zenon DEF IInv

(***************************************************************************)
(* Every step keeps the inductive invariant.                               *)
(***************************************************************************)
LEMMA NextIInv == IInv /\ [Next]_vars => IInv'
<1> SUFFICES ASSUME IInv, [Next]_vars PROVE IInv'
  BY Zenon
<1>1. (\A t \in Tasks : records[t] # None => Budget(records[t]))'
  BY RecordsStep, Zenon DEF Budget
<1> QED
  BY <1>1, TypeStep, HolderStep, KeyStep, CountStep, Zenon DEF IInv

(***************************************************************************)
(* The inductive invariant holds in every reachable state.                 *)
(***************************************************************************)
THEOREM Invariance == Spec => []IInv
  BY InitIInv, NextIInv, PTL DEF Spec

(***************************************************************************)
(* The driver's maps, counters and deliveries are always well typed.       *)
(***************************************************************************)
THEOREM TypeCorrect == Spec => []TypeOK
<1>1. IInv => TypeOK
  BY Zenon DEF IInv
<1> QED
  BY <1>1, Invariance, PTL

(***************************************************************************)
(* activeCount is exact, so Drained answers true only when nothing runs.   *)
(***************************************************************************)
THEOREM ActiveCorrect == Spec => []ActiveIsExact
<1>1. IInv => ActiveIsExact
  BY Zenon DEF IInv
<1> QED
  BY <1>1, Invariance, PTL

(***************************************************************************)
(* No two workers ever hold one task under the same fence.                 *)
(***************************************************************************)
THEOREM HolderCorrect == Spec => []OneHolder
<1>1. IInv => OneHolder
  BY Zenon DEF IInv
<1> QED
  BY <1>1, Invariance, PTL

(***************************************************************************)
(* One task per idempotency key.                                           *)
(***************************************************************************)
THEOREM KeyCorrect == Spec => []KeyHasOneTask
<1>1. IInv => KeyHasOneTask
  BY Zenon DEF IInv
<1> QED
  BY <1>1, Invariance, PTL

(***************************************************************************)
(* No task runs more often than its retries and its lost leases allow.     *)
(***************************************************************************)
THEOREM BudgetCorrect == Spec => []AttemptBudget
<1>1. IInv => AttemptBudget
  BY Zenon DEF IInv, AttemptBudget, Budget, Known
<1> QED
  BY <1>1, Invariance, PTL

(***************************************************************************)
(* Terminal tasks are immutable and fences only grow.                      *)
(***************************************************************************)
THEOREM TerminalCorrect == Spec => TerminalStays
<1> DEFINE Stays == \A t \in Known :
             /\ records'[t] # None
             /\ records'[t].fence >= records[t].fence
             /\ terminal(records[t].state) => records'[t] = records[t]
<1>1. IInv /\ [Next]_vars => [Stays]_vars
  BY RecordFacts, Zenon DEF Known
<1> QED
  BY <1>1, Invariance, PTL DEF Spec, TerminalStays

(***************************************************************************)
(* Only the worker that holds the current fence, within its lease,         *)
(* completes a task.                                                       *)
(***************************************************************************)
THEOREM CompletionCorrect == Spec => OnlyHolderCompletes
<1> DEFINE ByHolder == \A t \in Known :
             records'[t].state = "completed" /\ records[t].state # "completed" =>
               /\ records[t].leaseUntil > now
               /\ \E w \in Workers :
                    /\ delivery[w] = [task |-> t, fence |-> records[t].fence]
                    /\ delivery'[w] = None
<1>1. IInv /\ [Next]_vars => [ByHolder]_vars
  <2> SUFFICES ASSUME IInv, [Next]_vars, NEW t \in Known,
                      records'[t].state = "completed", records[t].state # "completed"
               PROVE  /\ records[t].leaseUntil > now
                      /\ \E w \in Workers :
                           /\ delivery[w] = [task |-> t, fence |-> records[t].fence]
                           /\ delivery'[w] = None
    BY Zenon
  <2>1. /\ t \in Tasks /\ records[t] # None /\ records[t] \in Record /\ now \in Nat
        /\ Budget(records[t])
    BY Zenon DEF IInv, TypeOK, Known
  <2>2. ~MovedStep(t)
    BY <2>1, MovedFacts, Zenon DEF MovedStep
  <2>3. PICK w \in Workers : /\ delivery[w] # None /\ delivery[w].task = t
                             /\ Holds(delivery[w]) /\ delivery'[w] = None
    BY <2>1, <2>2, Shape, Zenon DEF IInv, ResolvedStep
  <2>4. delivery[w] = [task |-> t, fence |-> delivery[w].fence]
    BY <2>3, Zenon DEF IInv, TypeOK, Delivery
  <2> QED
    BY <2>3, <2>4, Zenon DEF Holds
<1> QED
  BY <1>1, Invariance, PTL DEF Spec, OnlyHolderCompletes
===============================================================================
