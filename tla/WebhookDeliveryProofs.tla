------------------------ MODULE WebhookDeliveryProofs ------------------------
(***************************************************************************)
(* Proofs about WebhookDelivery for every set of endpoints and workers,    *)
(* every batch size, limit, backoff and window.                            *)
(***************************************************************************)
EXTENDS WebhookDelivery, FiniteSetTheorems, WellFoundedInduction, TLAPS

TypeOK ==
    /\ now \in Nat
    /\ event = [state |-> event.state, cursor |-> event.cursor, body |-> event.body]
    /\ event.cursor \in Nat
    /\ del \in [Deliveries -> Intent \cup {None}]
    /\ tasks = [k \in Keys |-> tasks[k]]
    /\ run = [w \in Workers |-> run[w]]

(***************************************************************************)
(* The key of a callback task names a delivery that exists.                *)
(***************************************************************************)
KeyOK(k) == k[1] # "fanout" => k[2] \in Deliveries /\ del[k[2]] # None

RunInv(w) ==
    run[w] # None =>
      /\ run[w] = [key |-> run[w].key, plan |-> run[w].plan]
      /\ KeyOK(run[w].key)
      /\ run[w].key[1] = "fanout" => run[w].plan.do = "prepare"
      /\ run[w].plan.do = "record" => run[w].plan.next \in Nat
      /\ run[w].plan.do = "finish" => run[w].plan.state \in {"exhausted", "cancelled"}

QueueInv ==
    /\ \A k \in Keys : tasks[k] # None => KeyOK(k)
    /\ found # None => KeyOK(found.key)

(***************************************************************************)
(* Every endpoint the cursor has passed has its delivery, unless it was    *)
(* disabled: what a batch boundary must not break.                         *)
(***************************************************************************)
CursorInv ==
    \A e \in Endpoints \ disabled : e <= event.cursor => del[<<e, 0>>] # None

IInv ==
    /\ TypeOK /\ QueueInv /\ CursorInv /\ FanoutReachesAll
    /\ \A w \in Workers : RunInv(w)

-----------------------------------------------------------------------------
(***************************************************************************)
(* Pages of the enabled endpoints after the cursor.                        *)
(***************************************************************************)
After == {e \in Endpoints \ disabled : e > event.cursor}
Before(e) == {f \in After : f < e}

LEMMA PageIs ==
    ASSUME NEW limit
    PROVE  Page(limit) = {e \in After : Cardinality(Before(e)) < limit}
  BY Zenon DEF Page, After, Before

LEMMA AfterIsFinite ==
    /\ After \subseteq Nat /\ IsFiniteSet(After)
    /\ \A e : IsFiniteSet(Before(e)) /\ Cardinality(Before(e)) \in Nat
  <1>1. After \subseteq Nat /\ IsFiniteSet(After)
    BY WebhookConstants, FS_Subset, Zenon DEF After
  <1>2. ASSUME NEW e PROVE IsFiniteSet(Before(e)) /\ Cardinality(Before(e)) \in Nat
    <2>1. Before(e) \subseteq After
      BY Zenon DEF Before
    <2> QED BY <1>1, <2>1, FS_Subset, FS_CardinalityType, Zenon
  <1> QED BY <1>1, <1>2, Zenon

(***************************************************************************)
(* An earlier endpoint has fewer endpoints before it.                      *)
(***************************************************************************)
LEMMA BeforeGrows ==
    ASSUME NEW e \in After, NEW f \in After, e < f
    PROVE  Cardinality(Before(e)) + 1 <= Cardinality(Before(f))
  <1>1. After \subseteq Nat /\ IsFiniteSet(Before(e)) /\ IsFiniteSet(Before(f))
    BY AfterIsFinite, Zenon
  <1>2. e \notin Before(e) /\ Before(e) \cup {e} \subseteq Before(f)
    <2>1. e \in Nat /\ f \in Nat
      BY <1>1, Zenon
    <2>2. ASSUME NEW g \in After, g < e PROVE g < f
      <3>1. g \in Nat
        BY <1>1, Zenon
      <3> QED BY <2>1, <2>2, <3>1
    <2>3. e \notin Before(e) /\ e \in Before(f)
      BY <2>1 DEF Before
    <2>4. Before(e) \subseteq Before(f)
      BY <2>2, Zenon DEF Before
    <2> QED BY <2>3, <2>4, Zenon
  <1>3. Cardinality(Before(e) \cup {e}) = Cardinality(Before(e)) + 1
    BY <1>1, <1>2, FS_AddElement, Zenon
  <1> QED BY <1>1, <1>2, <1>3, FS_Subset, Zenon

LEMMA NatMin ==
    ASSUME NEW T, T \subseteq Nat, T # {}
    PROVE  \E x \in T : \A y \in T : x <= y
  <1>1. PICK x \in T : \A y \in T : ~(<<y, x>> \in OpToRel(<, Nat))
    BY WFMin, NatLessThanWellFounded, Zenon
  <1>2. \A y \in T : ~(y < x)
    BY <1>1, Zenon DEF OpToRel
  <1>3. \A y \in T : x <= y
    BY <1>2
  <1> QED BY <1>3, Zenon

(***************************************************************************)
(* A page that is not empty has a last row, and it takes every row up to   *)
(* it.                                                                     *)
(***************************************************************************)
LEMMA PageHasLast ==
    ASSUME NEW limit \in Nat, Page(limit) # {}
    PROVE  /\ LastOf(Page(limit)) \in Page(limit)
           /\ \A e \in After : e <= LastOf(Page(limit)) => e \in Page(limit)
  <1> DEFINE before(e) == Cardinality(Before(e))
             page == Page(limit)
  <1>1. /\ page = {e \in After : before(e) < limit}
        /\ After \subseteq Nat /\ \A e : before(e) \in Nat
    BY PageIs, AfterIsFinite, Zenon
  <1>2. \A e, f \in After : e < f => before(e) + 1 <= before(f)
    BY BeforeGrows, Zenon
  <1> HIDE DEF before, page
  <1>3. PICK m \in page : \A e \in page : limit - before(m) <= limit - before(e)
    <2> DEFINE gaps == {limit - before(e) : e \in page}
    <2>1. gaps \subseteq Nat /\ gaps # {}
      BY <1>1 DEF page
    <2> HIDE DEF gaps
    <2>2. PICK x \in gaps : \A y \in gaps : x <= y
      BY <2>1, NatMin, Zenon
    <2> QED BY <2>2, Zenon DEF gaps
  <1>4. \A e \in page : e <= m
    BY <1>1, <1>2, <1>3
  <1>5. LastOf(page) \in page /\ \A e \in page : e <= LastOf(page)
    BY <1>4, Zenon DEF LastOf, page
  <1>6. ASSUME NEW e \in After, e <= LastOf(page) PROVE e \in page
    <2> DEFINE last == LastOf(page)
    <2>0. last \in After /\ before(last) < limit /\ e \in Nat /\ last \in Nat
      BY <1>1, <1>5, Zenon
    <2> HIDE DEF last
    <2>1. e = last \/ e < last
      BY <1>6, <2>0 DEF last
    <2>2. before(e) <= before(last)
      <3>1. CASE e = last
        BY <1>1, <3>1
      <3>2. CASE e < last
        BY <1>1, <1>2, <2>0, <3>2
      <3> QED BY <2>1, <3>1, <3>2, Zenon
    <2>3. before(e) < limit
      BY <1>1, <2>0, <2>2
    <2> QED BY <1>1, <2>3, Zenon
  <1> QED BY <1>5, <1>6, Zenon DEF page

(***************************************************************************)
(* When no row is left to read ahead, the page holds all that is left.     *)
(***************************************************************************)
LEMMA PageIsLast ==
    ASSUME NEW limit \in Nat, ~(Cardinality(Page(limit + 1)) > limit)
    PROVE  Page(limit) = After
  <1> DEFINE rest == After \ Page(limit)
             ahead == Page(limit + 1)
  <1>1. /\ Page(limit) = {e \in After : Cardinality(Before(e)) < limit}
        /\ ahead = {e \in After : Cardinality(Before(e)) < limit + 1}
        /\ After \subseteq Nat /\ IsFiniteSet(After)
        /\ \A e : IsFiniteSet(Before(e)) /\ Cardinality(Before(e)) \in Nat
    BY PageIs, AfterIsFinite, Zenon
  <1> SUFFICES ASSUME rest # {} PROVE FALSE
    BY <1>1, Zenon
  <1>2. PICK e \in rest : \A f \in rest : e <= f
    BY <1>1, NatMin, Zenon
  <1>3. e \in After /\ ~(Cardinality(Before(e)) < limit)
    BY <1>1, Zenon
  <1>4. Before(e) \subseteq Page(limit) /\ Page(limit) \subseteq ahead
    <2>1. ASSUME NEW f \in After, f < e PROVE f \notin rest
      <3>1. e \in Nat /\ f \in Nat
        BY <1>1, <1>3, Zenon
      <3> QED BY <1>2, <2>1, <3>1
    <2>2. Before(e) \subseteq Page(limit)
      BY <2>1, Zenon DEF Before
    <2>3. Page(limit) \subseteq ahead
      BY <1>1
    <2> QED BY <2>2, <2>3, Zenon
  <1>5. IsFiniteSet(ahead) /\ Cardinality(ahead) \in Nat /\ ~(Cardinality(ahead) > limit)
    <2>1. ahead \subseteq After
      BY <1>1, Zenon
    <2> QED BY <1>1, <2>1, FS_Subset, FS_CardinalityType, Zenon
  <1> HIDE DEF ahead
  <1>6. Before(e) \subseteq ahead /\ Cardinality(Before(e)) <= Cardinality(ahead)
    BY <1>4, <1>5, FS_Subset, Zenon
  <1>7. e \in ahead
    BY <1>1, <1>3, <1>5, <1>6
  <1>8. Cardinality(Before(e) \cup {e}) = Cardinality(Before(e)) + 1
    <2>1. e \notin Before(e)
      BY <1>1, <1>3 DEF Before
    <2> QED BY <1>1, <2>1, FS_AddElement, Zenon
  <1>9. Cardinality(Before(e) \cup {e}) <= Cardinality(ahead)
    BY <1>5, <1>6, <1>7, FS_Subset, Zenon
  <1> QED BY <1>1, <1>3, <1>5, <1>8, <1>9

-----------------------------------------------------------------------------
(***************************************************************************)
(* What a step does to the deliveries: it removes none, and one that left  *)
(* pending keeps its state.                                                *)
(***************************************************************************)
DelStep ==
    /\ del' \in [Deliveries -> Intent \cup {None}]
    /\ \A d \in Deliveries :
         del[d] # None =>
           del'[d] # None /\ (del[d].state # "pending" => del'[d].state = del[d].state)

(***************************************************************************)
(* KeyOK after the step, of a key of this state or of the next.            *)
(***************************************************************************)
KeyOKAfter(k) == k[1] # "fanout" => k[2] \in Deliveries /\ del'[k[2]] # None

(***************************************************************************)
(* What a step does to the queue, the coordinator and the workers: it only *)
(* adds keys of deliveries that exist.                                     *)
(***************************************************************************)
QueueStep ==
    /\ tasks' = [k \in Keys |-> tasks'[k]]
    /\ \A k \in Keys : tasks'[k] # None => tasks[k] # None \/ KeyOKAfter(k)
    /\ found' # None => found' = found \/ KeyOKAfter(found'.key)
    /\ run' = [w \in Workers |-> run'[w]]
    /\ \A w \in Workers : run'[w] = run[w] \/ RunInv(w)'

LEMMA DelSame ==
    ASSUME TypeOK, UNCHANGED del
    PROVE  DelStep
  BY Zenon DEF TypeOK, DelStep

LEMMA FirstIsDelivery ==
    ASSUME NEW e \in Endpoints
    PROVE  <<e, 0>> \in Deliveries
  BY WebhookConstants, Zenon DEF Deliveries

LEMMA CursorKeeps ==
    ASSUME CursorInv, FanoutReachesAll, DelStep, UNCHANGED event, disabled \subseteq disabled'
    PROVE  CursorInv' /\ FanoutReachesAll'
  <1>1. \A e \in Endpoints : del[<<e, 0>>] # None => del'[<<e, 0>>] # None
    BY FirstIsDelivery, Zenon DEF DelStep
  <1>2. Endpoints \ disabled' \subseteq Endpoints \ disabled
    BY Zenon
  <1> QED BY <1>1, <1>2, Zenon DEF CursorInv, FanoutReachesAll

LEMMA KeyKeeps ==
    ASSUME DelStep
    PROVE  \A k : KeyOK(k) => KeyOKAfter(k)
  BY Zenon DEF KeyOK, KeyOKAfter, DelStep

LEMMA StepKeeps ==
    ASSUME IInv, DelStep, QueueStep, CursorInv', FanoutReachesAll',
           now' \in Nat,
           event' = [state |-> event'.state, cursor |-> event'.cursor, body |-> event'.body],
           event'.cursor \in Nat
    PROVE  IInv'
  <1>1. TypeOK'
    BY Zenon DEF TypeOK, DelStep, QueueStep
  <1>2. QueueInv'
    <2>1. ASSUME NEW k \in Keys, tasks'[k] # None PROVE KeyOKAfter(k)
      BY <2>1, KeyKeeps, Zenon DEF QueueStep, IInv, QueueInv
    <2>2. ASSUME found' # None PROVE KeyOKAfter(found'.key)
      BY <2>2, KeyKeeps, Zenon DEF QueueStep, IInv, QueueInv
    <2> QED BY <2>1, <2>2, Zenon DEF QueueInv, KeyOK, KeyOKAfter
  <1>3. ASSUME NEW w \in Workers PROVE RunInv(w)'
    <2>1. CASE RunInv(w)'
      BY <2>1, Zenon
    <2>2. CASE run'[w] = run[w]
      <3>1. RunInv(w)
        BY Zenon DEF IInv
      <3>2. run[w] # None => KeyOKAfter(run[w].key)
        BY <3>1, KeyKeeps, Zenon DEF RunInv
      <3> QED BY <2>2, <3>1, <3>2, Zenon DEF RunInv, KeyOK, KeyOKAfter
    <2> QED BY <2>1, <2>2, Zenon DEF QueueStep
  <1> QED BY <1>1, <1>2, <1>3, Zenon DEF IInv

(***************************************************************************)
(* What the release, the completion or the death of a task adds.           *)
(***************************************************************************)
LEMMA QueueOperators ==
    ASSUME IInv, NEW w \in Workers, run[w] # None, NEW state
    PROVE  /\ Retry(w) = [k \in Keys |-> Retry(w)[k]]
           /\ Closed(w, state) = [k \in Keys |-> Closed(w, state)[k]]
           /\ \A k \in Keys : Retry(w)[k] # None => KeyOK(k)
           /\ \A k \in Keys : Closed(w, state)[k] # None => KeyOK(k)
  <1>1. tasks = [k \in Keys |-> tasks[k]] /\ KeyOK(run[w].key)
    BY Zenon DEF IInv, TypeOK, RunInv
  <1>2. \A k \in Keys : tasks[k] # None => KeyOK(k)
    BY Zenon DEF IInv, QueueInv
  <1>3. ASSUME NEW t
        PROVE  /\ [tasks EXCEPT ![run[w].key] = t]
                    = [k \in Keys |-> IF k = run[w].key THEN t ELSE tasks[k]]
    BY <1>1, Zenon
  <1>4. Retry(w) = tasks \/ \E t : Retry(w) = [tasks EXCEPT ![run[w].key] = t]
    BY Zenon DEF Retry
  <1>5. Closed(w, state) = tasks \/ \E t : Closed(w, state) = [tasks EXCEPT ![run[w].key] = t]
    BY Zenon DEF Closed
  <1>6. ASSUME NEW q, q = tasks \/ \E t : q = [tasks EXCEPT ![run[w].key] = t]
        PROVE  q = [k \in Keys |-> q[k]] /\ \A k \in Keys : q[k] # None => KeyOK(k)
    <2>1. CASE q = tasks
      BY <1>1, <1>2, <2>1, Zenon
    <2>2. CASE \E t : q = [tasks EXCEPT ![run[w].key] = t]
      <3>1. PICK t : q = [k \in Keys |-> IF k = run[w].key THEN t ELSE tasks[k]]
        BY <1>3, <2>2, Zenon
      <3> QED BY <1>1, <1>2, <3>1, Zenon
    <2> QED BY <1>6, <2>1, <2>2, Zenon
  <1> QED BY <1>4, <1>5, <1>6, Zenon

LEMMA EnqueueAdds ==
    ASSUME NEW q, q = [k \in Keys |-> q[k]], NEW key, NEW task
    PROVE  /\ Enqueue(q, key, task) = [k \in Keys |-> Enqueue(q, key, task)[k]]
           /\ \A k \in Keys : Enqueue(q, key, task)[k] # None => q[k] # None \/ k = key
  BY Zenon DEF Enqueue

-----------------------------------------------------------------------------
(***************************************************************************)
(* Steps that leave the deliveries and the event alone.                    *)
(***************************************************************************)
LEMMA OtherKeeps ==
    ASSUME IInv, QueueStep, UNCHANGED <<del, event>>, disabled \subseteq disabled', now' \in Nat
    PROVE  IInv' /\ DelStep
  <1>1. DelStep
    BY DelSame, Zenon DEF IInv
  <1>2. CursorInv' /\ FanoutReachesAll'
    BY <1>1, CursorKeeps, Zenon DEF IInv
  <1>3. event' = [state |-> event'.state, cursor |-> event'.cursor, body |-> event'.body]
        /\ event'.cursor \in Nat
    BY Zenon DEF IInv, TypeOK
  <1> QED BY <1>1, <1>2, <1>3, StepKeeps, Zenon

LEMMA RunShape ==
    ASSUME IInv
    PROVE  /\ now \in Nat
           /\ tasks = [k \in Keys |-> tasks[k]]
           /\ run = [w \in Workers |-> run[w]]
           /\ \A k \in Keys : tasks[k] # None => KeyOK(k)
           /\ found # None => KeyOK(found.key)
           /\ \A w \in Workers : RunInv(w)
           /\ del \in [Deliveries -> Intent \cup {None}]
  BY Zenon DEF IInv, TypeOK, QueueInv

LEMMA ScheduleFanoutKeeps ==
    ASSUME IInv, ScheduleFanout
    PROVE  IInv' /\ DelStep
  <1>1. /\ tasks' = [k \in Keys |-> tasks'[k]]
        /\ \A k \in Keys : tasks'[k] # None => tasks[k] # None \/ k = <<"fanout", 0>>
    BY RunShape, EnqueueAdds DEF ScheduleFanout
  <1>2. QueueStep
    BY <1>1, RunShape DEF ScheduleFanout, QueueStep, KeyOKAfter
  <1> QED BY <1>2, RunShape, OtherKeeps, Zenon DEF ScheduleFanout

LEMMA DiscoverKeeps ==
    ASSUME IInv, NEW d \in Deliveries, Discover(d)
    PROVE  IInv' /\ DelStep
  <1>1. found'.key[1] # "fanout" /\ found'.key[2] = d /\ del[d] # None
    BY Zenon DEF Discover, Ready, ExpiryKey
  <1>2. QueueStep
    BY <1>1, RunShape, Zenon DEF Discover, QueueStep, KeyOKAfter
  <1> QED BY <1>2, RunShape, OtherKeeps, Zenon DEF Discover

LEMMA ScheduleDeliveryKeeps ==
    ASSUME IInv, ScheduleDelivery
    PROVE  IInv' /\ DelStep
  <1>1. /\ tasks' = [k \in Keys |-> tasks'[k]]
        /\ \A k \in Keys : tasks'[k] # None => tasks[k] # None \/ k = found.key
    BY RunShape, EnqueueAdds DEF ScheduleDelivery
  <1>2. KeyOKAfter(found.key)
    BY RunShape, Zenon DEF ScheduleDelivery, KeyOK, KeyOKAfter
  <1>3. QueueStep
    BY <1>1, <1>2, RunShape, Zenon DEF ScheduleDelivery, QueueStep
  <1> QED BY <1>3, RunShape, OtherKeeps, Zenon DEF ScheduleDelivery

LEMMA CoordinatorCrashKeeps ==
    ASSUME IInv, CoordinatorCrash
    PROVE  IInv' /\ DelStep
  <1>1. QueueStep
    BY RunShape, Zenon DEF CoordinatorCrash, QueueStep
  <1> QED BY <1>1, RunShape, OtherKeeps, Zenon DEF CoordinatorCrash

LEMMA ClaimKeeps ==
    ASSUME IInv, NEW w \in Workers, NEW k \in Keys, Claim(w, k)
    PROVE  IInv' /\ DelStep
  <1>1. /\ tasks' = [j \in Keys |-> tasks'[j]]
        /\ \A j \in Keys : j # k => tasks'[j] = tasks[j]
    BY RunShape, Zenon DEF Claim
  <1>2. /\ run' = [v \in Workers |-> run'[v]]
        /\ \A v \in Workers : v # w => run'[v] = run[v]
        /\ run'[w] = [key |-> k, plan |-> [do |-> "prepare"]]
    BY RunShape, Zenon DEF Claim
  <1>3. KeyOK(k)'
    BY RunShape, Zenon DEF Claim, KeyOK
  <1>4. RunInv(w)'
    BY <1>2, <1>3 DEF RunInv, KeyOK
  <1>5. QueueStep
    BY <1>1, <1>2, <1>4, Zenon DEF Claim, QueueStep
  <1> QED BY <1>5, RunShape, OtherKeeps, Zenon DEF Claim

LEMMA LoseLeaseKeeps ==
    ASSUME IInv, NEW k \in Keys, LoseLease(k)
    PROVE  IInv' /\ DelStep
  <1>1. /\ tasks' = [j \in Keys |-> tasks'[j]]
        /\ \A j \in Keys : j # k => tasks'[j] = tasks[j]
    BY RunShape, Zenon DEF LoseLease
  <1>2. QueueStep
    BY <1>1, RunShape, Zenon DEF LoseLease, QueueStep
  <1> QED BY <1>2, RunShape, OtherKeeps, Zenon DEF LoseLease

(***************************************************************************)
(* A worker lets go of its task without touching a delivery.               *)
(***************************************************************************)
LEMMA LetGoKeeps ==
    ASSUME IInv, NEW w \in Workers, run[w] # None,
           tasks' \in {Retry(w), Closed(w, "done"), Closed(w, "dead")},
           run' = [run EXCEPT ![w] = None],
           UNCHANGED <<now, event, disabled, del, found>>
    PROVE  IInv' /\ DelStep
  <1>1. /\ tasks' = [k \in Keys |-> tasks'[k]]
        /\ \A k \in Keys : tasks'[k] # None => KeyOK(k)
    BY RunShape, QueueOperators
  <1>2. /\ run' = [v \in Workers |-> run'[v]]
        /\ \A v \in Workers : v # w => run'[v] = run[v]
        /\ run'[w] = None
    BY RunShape, Zenon
  <1>3. QueueStep
    BY <1>1, <1>2, Zenon DEF QueueStep, RunInv, KeyOK, KeyOKAfter
  <1> QED BY <1>3, RunShape, OtherKeeps, Zenon

(***************************************************************************)
(* A worker keeps its task and moves on to another plan.                   *)
(***************************************************************************)
LEMMA PlanKeeps ==
    ASSUME IInv, NEW w \in Workers, run[w] # None, run[w].key[1] # "fanout",
           run'[w] = [key |-> run[w].key, plan |-> run'[w].plan],
           run' = [v \in Workers |-> run'[v]],
           \A v \in Workers : v # w => run'[v] = run[v],
           run'[w].plan.do = "record" => run'[w].plan.next \in Nat,
           run'[w].plan.do = "finish" => run'[w].plan.state \in {"exhausted", "cancelled"},
           UNCHANGED <<now, event, disabled, del, tasks, found>>
    PROVE  IInv' /\ DelStep
  <1>1. KeyOK(run[w].key) /\ run'[w].key = run[w].key
    BY RunShape DEF RunInv
  <1>2. RunInv(w)'
    BY <1>1, Zenon DEF RunInv, KeyOK
  <1>3. QueueStep
    BY <1>2, RunShape, Zenon DEF QueueStep
  <1> QED BY <1>3, RunShape, OtherKeeps, Zenon

LEMMA PlanField ==
    ASSUME NEW r, NEW k, NEW p, r = [key |-> k, plan |-> p], NEW q
    PROVE  [r EXCEPT !.plan = q] = [key |-> k, plan |-> q]
  OBVIOUS

LEMMA PlanUpdate ==
    ASSUME IInv, NEW w \in Workers, run[w] # None, NEW plan,
           run' = [run EXCEPT ![w].plan = plan]
    PROVE  /\ run'[w] = [key |-> run[w].key, plan |-> plan]
           /\ run' = [v \in Workers |-> run'[v]]
           /\ \A v \in Workers : v # w => run'[v] = run[v]
  <1>1. run[w] = [key |-> run[w].key, plan |-> run[w].plan]
    BY RunShape, Zenon DEF RunInv
  <1>2. [run[w] EXCEPT !.plan = plan] = [key |-> run[w].key, plan |-> plan]
    BY <1>1, PlanField
  <1>3. run' = [run EXCEPT ![w] = [run[w] EXCEPT !.plan = plan]]
    BY Zenon
  <1>4. run = [v \in Workers |-> run[v]]
    BY RunShape, Zenon
  <1> QED BY <1>2, <1>3, <1>4, Zenon

LEMMA CrashKeeps ==
    ASSUME IInv, NEW w \in Workers, Crash(w) \/ SendUnready(w)
    PROVE  IInv' /\ DelStep
  <1>1. /\ run[w] # None /\ tasks' \in {Retry(w), Closed(w, "done"), Closed(w, "dead")}
        /\ run' = [run EXCEPT ![w] = None]
        /\ UNCHANGED <<now, event, disabled, del, found>>
    BY Zenon DEF Crash, SendUnready, Sending
  <1> QED BY <1>1, LetGoKeeps, Zenon

LEMMA NothingKeeps ==
    ASSUME IInv, NEW w \in Workers, FanoutNothing(w) \/ CommitNothing(w)
    PROVE  IInv' /\ DelStep
  <1>1. tasks' \in {Retry(w), Closed(w, "done"), Closed(w, "dead")}
    BY Zenon DEF FanoutNothing, CommitNothing
  <1>2. /\ run[w] # None /\ run' = [run EXCEPT ![w] = None]
        /\ UNCHANGED <<now, event, disabled, del, found>>
    BY Zenon DEF FanoutNothing, CommitNothing
  <1> QED BY <1>1, <1>2, LetGoKeeps, Zenon

LEMMA PrepareKeeps ==
    ASSUME IInv, NEW w \in Workers, Prepare(w)
    PROVE  IInv' /\ DelStep
  <1> DEFINE plan == Plan(run[w].key[2], run[w].key[3])
  <1>1. /\ run[w] # None /\ run[w].key[1] # "fanout"
        /\ UNCHANGED <<now, event, disabled, del, found>>
        /\ \/ /\ tasks' \in {Retry(w), Closed(w, "done"), Closed(w, "dead")}
              /\ run' = [run EXCEPT ![w] = None]
           \/ /\ run' = [run EXCEPT ![w].plan = plan]
              /\ UNCHANGED tasks
    BY Zenon DEF Prepare
  <1>2. plan.do # "record" /\ (plan.do = "finish" => plan.state = "exhausted")
    BY Zenon DEF Plan
  <1> HIDE DEF plan
  <1>3. CASE run' = [run EXCEPT ![w] = None]
      /\ tasks' \in {Retry(w), Closed(w, "done"), Closed(w, "dead")}
    BY <1>1, <1>3, LetGoKeeps, Zenon
  <1>4. CASE run' = [run EXCEPT ![w].plan = plan] /\ UNCHANGED tasks
    <2>1. /\ run'[w] = [key |-> run[w].key, plan |-> plan]
          /\ run' = [v \in Workers |-> run'[v]]
          /\ \A v \in Workers : v # w => run'[v] = run[v]
      BY <1>1, <1>4, PlanUpdate, Zenon
    <2>2. run'[w].plan = plan
      BY <2>1
    <2>3. /\ run'[w] = [key |-> run[w].key, plan |-> run'[w].plan]
          /\ run'[w].plan.do = "record" => run'[w].plan.next \in Nat
          /\ run'[w].plan.do = "finish" =>
               run'[w].plan.state \in {"exhausted", "cancelled"}
      BY <1>2, <2>1, <2>2, Zenon
    <2> QED BY <1>1, <1>4, <2>1, <2>3, PlanKeeps, Zenon
  <1> QED BY <1>1, <1>3, <1>4, Zenon

LEMMA SendKeeps ==
    ASSUME IInv, NEW w \in Workers, NEW answer, Send(w, answer) \/ SendDisabled(w)
    PROVE  IInv' /\ DelStep
  <1>1. /\ run[w] # None /\ run[w].plan.do = "send"
        /\ UNCHANGED <<now, event, disabled, del, tasks, found>>
    BY Zenon DEF Send, SendDisabled, Sending
  <1>2. PICK plan : /\ run' = [run EXCEPT ![w].plan = plan]
                    /\ plan.do = "record" => plan.next \in Nat
                    /\ plan.do = "finish" => plan.state = "cancelled"
    <2>1. CASE Send(w, answer)
      <3> DEFINE plan == [do |-> "record", ok |-> answer = "accepted", next |-> now + Backoff,
                          retry |-> answer = "unavailable" /\ run[w].key[3] < MaxAttempts
                                    /\ now + Backoff < run[w].plan.end]
      <3>1. run' = [run EXCEPT ![w].plan = plan]
        BY <2>1, RunShape, Zenon DEF Send, RunInv
      <3>2. plan.do = "record" /\ plan.next \in Nat
        BY RunShape, WebhookConstants
      <3> HIDE DEF plan
      <3> QED BY <3>1, <3>2, Zenon
    <2>2. CASE SendDisabled(w)
      <3> DEFINE plan == [do |-> "finish", state |-> "cancelled",
                          expected |-> run[w].plan.expected]
      <3>1. run' = [run EXCEPT ![w].plan = plan]
        BY <2>2, RunShape, Zenon DEF SendDisabled, RunInv
      <3>2. plan.do = "finish" /\ plan.state = "cancelled"
        BY Zenon
      <3> HIDE DEF plan
      <3> QED BY <3>1, <3>2, Zenon
    <2> QED BY <2>1, <2>2, Zenon
  <1>3. run[w].key[1] # "fanout"
    BY <1>1, RunShape, Zenon DEF RunInv
  <1>4. /\ run'[w] = [key |-> run[w].key, plan |-> plan]
        /\ run' = [v \in Workers |-> run'[v]]
        /\ \A v \in Workers : v # w => run'[v] = run[v]
    BY <1>1, <1>2, PlanUpdate, Zenon
  <1>5. run'[w].plan = plan
    BY <1>4
  <1>6. /\ run'[w] = [key |-> run[w].key, plan |-> run'[w].plan]
        /\ run'[w].plan.do = "record" => run'[w].plan.next \in Nat
        /\ run'[w].plan.do = "finish" =>
             run'[w].plan.state \in {"exhausted", "cancelled"}
    BY <1>2, <1>4, <1>5, Zenon
  <1> QED BY <1>1, <1>3, <1>4, <1>6, PlanKeeps, Zenon

LEMMA DisableKeeps ==
    ASSUME IInv, NEW e \in Endpoints, Disable(e)
    PROVE  IInv' /\ DelStep
  <1>1. QueueStep
    BY RunShape, Zenon DEF Disable, QueueStep
  <1> QED BY <1>1, RunShape, OtherKeeps, Zenon DEF Disable

LEMMA TickKeeps ==
    ASSUME IInv, Tick
    PROVE  IInv' /\ DelStep
  <1>1. QueueStep
    BY RunShape, Zenon DEF Tick, QueueStep
  <1> QED BY <1>1, RunShape, OtherKeeps DEF Tick

(***************************************************************************)
(* One delivery changes, the event does not.                               *)
(***************************************************************************)
LEMMA DeliveryKeeps ==
    ASSUME IInv, QueueStep, UNCHANGED <<now, event, disabled>>,
           NEW d \in Deliveries, NEW i \in Intent,
           del' = [del EXCEPT ![d] = i],
           del[d] # None => del[d].state = "pending"
    PROVE  IInv' /\ DelStep
  <1>1. DelStep
    BY RunShape, WebhookConstants, Zenon DEF DelStep
  <1>2. CursorInv' /\ FanoutReachesAll'
    BY <1>1, CursorKeeps, Zenon DEF IInv
  <1>3. event' = [state |-> event'.state, cursor |-> event'.cursor, body |-> event'.body]
        /\ event'.cursor \in Nat /\ now' \in Nat
    BY Zenon DEF IInv, TypeOK
  <1> QED BY <1>1, <1>2, <1>3, StepKeeps, Zenon

LEMMA NewIntentType ==
    ASSUME now \in Nat
    PROVE  NewIntent \in Intent
  BY Zenon DEF NewIntent, Intent

LEMMA ReplayKeeps ==
    ASSUME IInv, NEW e \in Replayed, NEW k \in 1 .. MaxReplays, Replay(e, k)
    PROVE  IInv' /\ DelStep
  <1>1. /\ <<e, k>> \in Deliveries /\ del[<<e, k>>] = None
        /\ del' = [del EXCEPT ![<<e, k>>] = NewIntent]
        /\ UNCHANGED <<now, event, disabled, tasks, found, run>>
    BY WebhookConstants, Zenon DEF Replay, Deliveries
  <1>2. QueueStep
    BY <1>1, RunShape, Zenon DEF QueueStep
  <1> QED BY <1>1, <1>2, RunShape, NewIntentType, DeliveryKeeps, Zenon

-----------------------------------------------------------------------------
(***************************************************************************)
(* The fenced transactions.                                                *)
(***************************************************************************)
LEMMA ReleaseKeeps ==
    ASSUME IInv, DelStep, NEW w \in Workers,
           tasks' = [k \in Keys |-> tasks'[k]],
           \A k \in Keys : tasks'[k] # None => KeyOK(k) \/ KeyOKAfter(k),
           run' = [run EXCEPT ![w] = None],
           UNCHANGED found
    PROVE  QueueStep
  <1>1. /\ run' = [v \in Workers |-> run'[v]]
        /\ \A v \in Workers : v # w => run'[v] = run[v]
        /\ run'[w] = None
    BY RunShape, Zenon
  <1>2. RunInv(w)'
    BY <1>1, Zenon DEF RunInv
  <1> QED BY <1>1, <1>2, KeyKeeps, Zenon DEF QueueStep

LEMMA RecordedType ==
    ASSUME NEW d, del[d] \in Intent, NEW n \in Nat, NEW plan, plan.next \in Nat
    PROVE  Recorded(d, n, plan) \in Intent
  <1> DEFINE state == IF plan.ok THEN "delivered"
                      ELSE IF plan.retry /\ n < MaxAttempts THEN "pending" ELSE "exhausted"
  <1>1. state \in {"pending", "delivered", "exhausted", "cancelled"}
    BY Zenon
  <1>2. Recorded(d, n, plan) = [del[d] EXCEPT !.count = n, !.next = plan.next, !.state = state]
    BY Zenon DEF Recorded
  <1> HIDE DEF state
  <1> QED BY <1>1, <1>2, Zenon DEF Intent

LEMMA OneDelivery ==
    ASSUME IInv, NEW d \in Deliveries, NEW i \in Intent,
           del' = [del EXCEPT ![d] = i],
           del[d] # None => del[d].state = "pending"
    PROVE  DelStep
  BY RunShape, WebhookConstants, Zenon DEF DelStep

LEMMA CommitRecordKeeps ==
    ASSUME IInv, NEW w \in Workers, CommitRecord(w)
    PROVE  IInv' /\ DelStep
  <1> DEFINE d == run[w].key[2]
             n == run[w].key[3]
             plan == run[w].plan
             done == Closed(w, "done")
             key == <<"attempt", d, n + 1>>
             i == Recorded(d, n, plan)
  <1>1. run[w] # None /\ plan.do = "record"
    BY Zenon DEF CommitRecord
  <1>2. /\ d \in Deliveries /\ del[d] # None /\ del[d] \in Intent
        /\ plan.next \in Nat /\ run[w].key[1] # "fanout"
    BY <1>1, RunShape, Zenon DEF RunInv, KeyOK
  <1>3. /\ run' = [run EXCEPT ![w] = None]
        /\ UNCHANGED <<now, event, disabled, found>>
    BY Zenon DEF CommitRecord
  <1>4. CASE ~Recordable(d, n)
    <2>1. tasks' = Retry(w) /\ UNCHANGED del
      BY <1>4, Zenon DEF CommitRecord
    <2> QED BY <1>1, <1>3, <2>1, LetGoKeeps, Zenon
  <1>5. CASE Recordable(d, n)
    <2>1. del[d].state = "pending" /\ n \in Nat
      <3>1. del[d].count \in Nat /\ n = del[d].count + 1
        BY <1>2, <1>5, Zenon DEF Recordable, Intent
      <3> QED BY <1>5, <3>1 DEF Recordable
    <2>2. del' = [del EXCEPT ![d] = i] /\ i \in Intent
      BY <1>2, <1>5, <2>1, RecordedType, Zenon DEF CommitRecord
    <2>3. tasks' = done \/ \E t : tasks' = Enqueue(done, key, t)
      BY <1>5, Zenon DEF CommitRecord
    <2>4. done = [k \in Keys |-> done[k]] /\ \A k \in Keys : done[k] # None => KeyOK(k)
      BY <1>1, QueueOperators, Zenon
    <2> HIDE DEF i, done, plan
    <2>5. DelStep
      BY <1>2, <2>1, <2>2, OneDelivery, Zenon
    <2>6. KeyOK(key)
      BY <1>2, Zenon DEF KeyOK
    <2> HIDE DEF key
    <2>7. tasks' = [k \in Keys |-> tasks'[k]] /\ \A k \in Keys : tasks'[k] # None => KeyOK(k)
      BY <2>3, <2>4, <2>6, EnqueueAdds
    <2>8. QueueStep
      BY <1>3, <2>5, <2>7, ReleaseKeeps, Zenon
    <2> HIDE DEF d
    <2> QED BY <1>2, <1>3, <2>1, <2>2, <2>8, DeliveryKeeps, Zenon
  <1> QED BY <1>4, <1>5, Zenon

LEMMA CommitFinishKeeps ==
    ASSUME IInv, NEW w \in Workers, CommitFinish(w)
    PROVE  IInv' /\ DelStep
  <1> DEFINE d == run[w].key[2]
             plan == run[w].plan
             i == [del[d] EXCEPT !.state = plan.state]
  <1>1. run[w] # None /\ plan.do = "finish"
    BY Zenon DEF CommitFinish
  <1>2. /\ d \in Deliveries /\ del[d] # None /\ del[d] \in Intent
        /\ plan.state \in {"exhausted", "cancelled"}
    BY <1>1, RunShape, Zenon DEF RunInv, KeyOK
  <1>3. /\ run' = [run EXCEPT ![w] = None]
        /\ UNCHANGED <<now, event, disabled, found>>
    BY Zenon DEF CommitFinish
  <1>4. CASE ~Finishable(d, plan.expected)
    <2>1. tasks' = Retry(w) /\ UNCHANGED del
      BY <1>4, Zenon DEF CommitFinish
    <2> QED BY <1>1, <1>3, <2>1, LetGoKeeps, Zenon
  <1>5. CASE Finishable(d, plan.expected)
    <2>1. /\ del[d].state = "pending" /\ del' = [del EXCEPT ![d] = i]
          /\ tasks' = Closed(w, "done")
      BY <1>5, Zenon DEF CommitFinish, Finishable
    <2>2. i \in Intent
      BY <1>2, Zenon DEF Intent
    <2>3. DelStep
      BY <1>2, <2>1, <2>2, OneDelivery, Zenon
    <2>4. tasks' = [k \in Keys |-> tasks'[k]] /\ \A k \in Keys : tasks'[k] # None => KeyOK(k)
      BY <1>1, <2>1, QueueOperators
    <2>5. QueueStep
      BY <1>3, <2>3, <2>4, ReleaseKeeps, Zenon
    <2> HIDE DEF i, d
    <2> QED BY <1>2, <1>3, <2>1, <2>2, <2>5, DeliveryKeeps, Zenon
  <1> QED BY <1>4, <1>5, Zenon

-----------------------------------------------------------------------------
(***************************************************************************)
(* The cursor after a batch: it passes only endpoints of the page, and     *)
(* when nothing is left to read ahead the page holds all that is left.     *)
(***************************************************************************)
LEMMA BatchCovers ==
    ASSUME event.cursor \in Nat
    PROVE  /\ NextCursor \in Nat
           /\ \A e \in Endpoints \ disabled :
                e <= NextCursor => e <= event.cursor \/ e \in Page(FanoutBatch)
           /\ ~(Cardinality(Page(FanoutBatch + 1)) > FanoutBatch) =>
                \A e \in Endpoints \ disabled :
                  e <= event.cursor \/ e \in Page(FanoutBatch)
  <1>1. /\ FanoutBatch \in Nat /\ Endpoints \subseteq Nat
        /\ \A e \in Endpoints \ disabled : e <= event.cursor \/ e \in After
    BY WebhookConstants DEF After
  <1>2. ASSUME ~(Cardinality(Page(FanoutBatch + 1)) > FanoutBatch)
        PROVE  \A e \in Endpoints \ disabled : e <= event.cursor \/ e \in Page(FanoutBatch)
    BY <1>1, <1>2, PageIsLast, Zenon
  <1>3. CASE Page(FanoutBatch) = {}
    <2>1. NextCursor = event.cursor
      BY <1>3, Zenon DEF NextCursor, LastOf
    <2> QED BY <1>2, <2>1, Zenon
  <1>4. CASE Page(FanoutBatch) # {}
    <2>1. /\ NextCursor \in Page(FanoutBatch)
          /\ \A e \in After : e <= NextCursor => e \in Page(FanoutBatch)
      BY <1>1, <1>4, PageHasLast, Zenon DEF NextCursor
    <2>2. NextCursor \in Nat
      BY <1>1, <2>1, PageIs, Zenon DEF After
    <2> QED BY <1>1, <1>2, <2>1, <2>2, Zenon
  <1> QED BY <1>3, <1>4, Zenon

LEMMA FanoutKeeps ==
    ASSUME IInv, NEW w \in Workers, Fanout(w)
    PROVE  IInv' /\ DelStep
  <1> DEFINE more    == Cardinality(Page(FanoutBatch + 1)) > FanoutBatch
             created == {<<e, 0>> : e \in {f \in Page(FanoutBatch) : del[<<f, 0>>] = None}}
             new     == {<<"attempt", d, 1>> : d \in created}
                          \cup (IF more THEN {<<"fanout", NextCursor>>} ELSE {})
             done    == Closed(w, "done")
  <1>1. /\ run[w] # None /\ run' = [run EXCEPT ![w] = None]
        /\ UNCHANGED <<now, disabled, found>>
    BY DEF Fanout
  <1>2. del' = [d \in Deliveries |-> IF d \in created THEN NewIntent ELSE del[d]]
    BY Zenon DEF Fanout
  <1>3. event' = [event EXCEPT !.cursor = NextCursor,
                               !.state = IF more THEN "pending" ELSE "completed"]
    BY Zenon DEF Fanout
  <1>4. tasks' = [k \in Keys |-> IF k \in new /\ done[k] = None
                                 THEN Task(now, now + Window) ELSE done[k]]
    BY Zenon DEF Fanout
  <1>5. Page(FanoutBatch) \subseteq Endpoints
    BY PageIs, Zenon DEF After
  <1>6. /\ created \subseteq Deliveries
        /\ \A d \in created : del[d] = None
        /\ \A e \in Page(FanoutBatch) : <<e, 0>> \in created \/ del[<<e, 0>>] # None
    BY <1>5, FirstIsDelivery, Zenon
  <1>7. /\ event'.cursor = NextCursor
        /\ event'.state = "completed" => ~more
        /\ event' = [state |-> event'.state, cursor |-> event'.cursor, body |-> event'.body]
    <2>1. event = [state |-> event.state, cursor |-> event.cursor, body |-> event.body]
      BY Zenon DEF IInv, TypeOK
    <2> HIDE DEF more
    <2> QED BY <1>3, <2>1, Zenon
  <1>8. \A k \in new : k[1] # "fanout" => k[2] \in created
    OBVIOUS
  <1>9. done = [k \in Keys |-> done[k]] /\ \A k \in Keys : done[k] # None => KeyOK(k)
    BY <1>1, QueueOperators, Zenon
  <1> HIDE DEF created, new, done
  <1>10. NewIntent \in Intent /\ NewIntent # None
    BY RunShape, NewIntentType, WebhookConstants, Zenon
  <1>11. DelStep
    BY <1>2, <1>6, <1>10, RunShape, Zenon DEF DelStep
  <1>12. QueueStep
    <2>1. \A k \in new : KeyOKAfter(k)
      BY <1>2, <1>6, <1>8, <1>10, Zenon DEF KeyOKAfter
    <2>2. \A k \in Keys : tasks'[k] # None => KeyOK(k) \/ KeyOKAfter(k)
      BY <1>4, <1>9, <2>1, Zenon
    <2>3. tasks' = [k \in Keys |-> tasks'[k]]
      BY <1>4, Zenon
    <2> QED BY <1>1, <1>11, <2>2, <2>3, ReleaseKeeps, Zenon
  <1>13. \A e \in Page(FanoutBatch) : del'[<<e, 0>>] # None
    <2>1. \A e \in Page(FanoutBatch) : <<e, 0>> \in Deliveries
      BY <1>5, FirstIsDelivery, Zenon
    <2> QED BY <1>2, <1>6, <1>10, <2>1, Zenon
  <1>14. ASSUME NEW e \in Endpoints \ disabled, e <= event.cursor PROVE del'[<<e, 0>>] # None
    BY <1>11, <1>14, FirstIsDelivery, Zenon DEF IInv, CursorInv, DelStep
  <1>15. event.cursor \in Nat
    BY Zenon DEF IInv, TypeOK
  <1>16. CursorInv'
    BY <1>1, <1>7, <1>13, <1>14, <1>15, BatchCovers, Zenon DEF CursorInv
  <1>17. FanoutReachesAll'
    BY <1>1, <1>7, <1>13, <1>14, <1>15, BatchCovers, Zenon DEF FanoutReachesAll
  <1>18. event'.cursor \in Nat /\ now' \in Nat
    BY <1>1, <1>7, <1>15, BatchCovers, RunShape, Zenon
  <1> QED BY <1>7, <1>11, <1>12, <1>16, <1>17, <1>18, StepKeeps, Zenon

LEMMA RetainKeeps ==
    ASSUME IInv, Retain
    PROVE  IInv' /\ DelStep
  <1> DEFINE Erased(i) == [i EXCEPT !.body = FALSE,
                                    !.state = IF @ = "pending" THEN "exhausted" ELSE @]
  <1>1. \A i \in Intent :
          Erased(i) \in Intent /\ (i.state # "pending" => Erased(i).state = i.state)
    BY Zenon DEF Intent
  <1>2. del' = [d \in Deliveries |-> IF del[d] = None THEN None ELSE Erased(del[d])]
    BY Zenon DEF Retain
  <1> HIDE DEF Erased
  <1>3. DelStep
    BY <1>1, <1>2, RunShape, WebhookConstants, Zenon DEF DelStep
  <1>4. /\ event' = [state |-> "completed", cursor |-> event.cursor, body |-> FALSE]
        /\ event.cursor \in Nat
        /\ UNCHANGED <<now, disabled, tasks, found, run>>
    BY Zenon DEF Retain, IInv, TypeOK
  <1>5. QueueStep
    BY <1>4, RunShape, Zenon DEF QueueStep
  <1>6. FanoutReachesAll'
    BY <1>4, Zenon DEF FanoutReachesAll
  <1>7. CursorInv'
    BY <1>3, <1>4, FirstIsDelivery, Zenon DEF IInv, CursorInv, DelStep
  <1> QED BY <1>3, <1>4, <1>5, <1>6, <1>7, RunShape, StepKeeps

-----------------------------------------------------------------------------
LEMMA InitHolds == Init => IInv
  <1> SUFFICES ASSUME Init PROVE IInv
    BY Zenon
  <1>1. TypeOK
    BY Zenon DEF Init, TypeOK
  <1>2. QueueInv
    BY Zenon DEF Init, QueueInv
  <1>3. CursorInv
    <2>1. \A e \in Endpoints : e \in Nat /\ e # 0
      BY WebhookConstants, Zenon
    <2> QED BY <2>1 DEF Init, CursorInv
  <1>4. FanoutReachesAll
    BY Zenon DEF Init, FanoutReachesAll
  <1>5. \A w \in Workers : RunInv(w)
    BY Zenon DEF Init, RunInv
  <1> QED BY <1>1, <1>2, <1>3, <1>4, <1>5 DEF IInv

LEMMA HandleKeeps ==
    ASSUME IInv, NEW w \in Workers, Handle(w)
    PROVE  IInv' /\ DelStep
  <1>1. ASSUME NEW answer \in Answers, Send(w, answer) PROVE IInv' /\ DelStep
    BY <1>1, SendKeeps, Zenon
  <1>2. ASSUME SendDisabled(w) PROVE IInv' /\ DelStep
    BY <1>2, SendKeeps, Zenon
  <1> QED BY <1>1, <1>2, FanoutKeeps, NothingKeeps, PrepareKeeps, CommitRecordKeeps,
             CommitFinishKeeps DEF Handle

LEMMA NextKeeps ==
    ASSUME IInv, [Next]_vars
    PROVE  IInv' /\ DelStep
  <1>1. CASE ScheduleFanout \/ ScheduleDelivery \/ CoordinatorCrash
    BY <1>1, ScheduleFanoutKeeps, ScheduleDeliveryKeeps, CoordinatorCrashKeeps, Zenon
  <1>2. ASSUME NEW d \in Deliveries, Discover(d) PROVE IInv' /\ DelStep
    BY <1>2, DiscoverKeeps, Zenon
  <1>3. ASSUME NEW w \in Workers, NEW k \in Keys, Claim(w, k) PROVE IInv' /\ DelStep
    BY <1>3, ClaimKeeps, Zenon
  <1>4. ASSUME NEW k \in Keys, LoseLease(k) PROVE IInv' /\ DelStep
    BY <1>4, LoseLeaseKeeps, Zenon
  <1>5. ASSUME NEW w \in Workers, Handle(w) \/ Crash(w) \/ SendUnready(w)
        PROVE  IInv' /\ DelStep
    BY <1>5, HandleKeeps, CrashKeeps, Zenon
  <1>6. ASSUME NEW e \in Endpoints, Disable(e) PROVE IInv' /\ DelStep
    BY <1>6, DisableKeeps, Zenon
  <1>7. ASSUME NEW e \in Replayed, NEW k \in 1 .. MaxReplays, Replay(e, k)
        PROVE  IInv' /\ DelStep
    BY <1>7, ReplayKeeps, Zenon
  <1>8. CASE Retain \/ Tick
    BY <1>8, RetainKeeps, TickKeeps, Zenon
  <1>9. CASE UNCHANGED vars
    <2>1. UNCHANGED <<now, event, disabled, del, tasks, found, run>>
      BY <1>9, Zenon DEF vars
    <2>2. QueueStep
      BY <2>1, RunShape, Zenon DEF QueueStep
    <2> QED BY <2>1, <2>2, RunShape, OtherKeeps, Zenon
  <1> QED BY <1>1, <1>2, <1>3, <1>4, <1>5, <1>6, <1>7, <1>8, <1>9 DEF Next

(***************************************************************************)
(* The inductive invariant: the keys the queue, the coordinator and the    *)
(* workers hold name existing deliveries, and the cursor has skipped no    *)
(* enabled endpoint.                                                       *)
(***************************************************************************)
THEOREM InvariantHolds == Spec => []IInv
  <1>1. IInv /\ [Next]_vars => IInv'
    BY NextKeeps, Zenon
  <1> QED BY <1>1, InitHolds, PTL DEF Spec

(***************************************************************************)
(* A completed event has a delivery for every endpoint that stayed         *)
(* enabled, whatever the batch size and however often the fan-out task is  *)
(* lost, retried or overtaken by an endpoint being disabled                *)
(* (FanoutHandler.Prepare).                                                *)
(***************************************************************************)
THEOREM FanoutCorrect == Spec => []FanoutReachesAll
  <1>1. IInv => FanoutReachesAll
    BY Zenon DEF IInv
  <1> QED BY <1>1, InvariantHolds, PTL

(***************************************************************************)
(* No step takes a delivery out of a state other than pending: a late      *)
(* answer, an expiry task and retention never write over each other        *)
(* (RecordAttemptWithin, FinishWithin, expire_webhook_data).               *)
(***************************************************************************)
THEOREM SettledCorrect == Spec => SettledStays
  <1>1. IInv /\ [Next]_vars =>
          [\A d \in Deliveries :
             del[d] # None /\ del[d].state # "pending" => del'[d].state = del[d].state]_vars
    BY NextKeeps, Zenon DEF DelStep
  <1> QED BY <1>1, InvariantHolds, PTL DEF Spec, SettledStays

=============================================================================
