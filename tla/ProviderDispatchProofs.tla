------------------------ MODULE ProviderDispatchProofs ------------------------
(***************************************************************************)
(* Proofs about ProviderDispatch for every set of workers, callers, replay *)
(* identities, answers and attempts, and for every deadline and lease.     *)
(***************************************************************************)
EXTENDS ProviderDispatch, WellFoundedInduction, TLAPS

TypeOK ==
    /\ executor \in {"durable", "async"} /\ now \in Nat
    /\ dispatch \in [Numbers -> Results \cup {"none", "pending"}]
    /\ operation \in [Numbers -> Operation \cup {None}]
    /\ receipts \in [Numbers -> [ReplayIDs -> Receipt \cup {None}]]
    /\ submitted \in [Numbers -> Nat]
    /\ applied \in [Numbers -> Results \cup {None}]
    /\ work \in [Workers -> Delivery \cup {None}]
    /\ callback \in [Callers -> Inbound \cup {None}]

(***************************************************************************)
(* What the check accepted for an attempt is the result its dispatch row   *)
(* holds: poll, callback and deadline agree on one outcome.                *)
(***************************************************************************)
AppliedIsStored == \A k \in Numbers : applied[k] # None => dispatch[k] = applied[k]

(***************************************************************************)
(* A receipt was saved no later than now: it orders the receipts by age.   *)
(***************************************************************************)
ReceiptsArePast ==
    \A k \in Numbers, i \in ReplayIDs : receipts[k][i] # None => receipts[k][i].at <= now

(***************************************************************************)
(* The one claim that submits exists only once there is a dispatch row,    *)
(* and nothing was submitted before it calls; a prepared result is the     *)
(* stored one; a poller's fence is not ahead of its operation's.           *)
(***************************************************************************)
WorkInv(w) ==
    LET k == work[w].attempt IN
    work[w] # None =>
      /\ work[w].initial => dispatch[k] # "none" /\ work[w].step # "loaded"
      /\ work[w].initial /\ work[w].step = "claimed" => submitted[k] = 0
      /\ work[w].step = "prepared" => work[w].result # None /\ dispatch[k] = work[w].result
      /\ executor = "async" /\ Polls(w, k) =>
           operation[k] # None /\ work[w].fence <= operation[k].fence

(***************************************************************************)
(* No two deliveries of an attempt both submit, and no two hold one fence. *)
(***************************************************************************)
Distinct(v, w) ==
    (work[v] # None /\ work[w] # None /\ work[v].attempt = work[w].attempt) =>
      /\ work[v].initial /\ work[w].initial => v = w
      /\ (/\ executor = "async" /\ work[v].fence = work[w].fence
          /\ Polls(v, work[v].attempt) /\ Polls(w, work[w].attempt)) => v = w

IInv ==
    /\ TypeOK /\ ReceiptsArePast /\ UsageIsExact /\ AppliedIsStored
    /\ \A k \in Numbers : submitted[k] <= 1
    /\ \A k \in Numbers : dispatch[k] = "none" => submitted[k] = 0
    /\ \A k \in Numbers : executor = "durable" => operation[k] = None
    /\ \A w \in Workers : WorkInv(w)
    /\ \A v, w \in Workers : Distinct(v, w)

(***************************************************************************)
(* What every step does to the dispatch rows and to the operations: a      *)
(* stored result stays, a row stays, metering stays exact; a fence never   *)
(* goes back.                                                              *)
(***************************************************************************)
RowKeeps ==
    /\ dispatch' \in [Numbers -> Results \cup {"none", "pending"}]
    /\ UsageIsExact'
    /\ \A k \in Numbers : /\ Stored(k) => dispatch'[k] = dispatch[k]
                          /\ dispatch[k] # "none" => dispatch'[k] # "none"

OperationKeeps ==
    /\ operation' \in [Numbers -> Operation \cup {None}]
    /\ \A k \in Numbers :
         /\ executor = "durable" => operation'[k] = None
         /\ operation[k] # None =>
              operation'[k] # None /\ operation[k].fence <= operation'[k].fence

-----------------------------------------------------------------------------
(***************************************************************************)
(* A nonempty set of natural numbers has a least element.                  *)
(***************************************************************************)
LEMMA NatMin ==
    ASSUME NEW T, T \subseteq Nat, T # {}
    PROVE  \E x \in T : \A y \in T : x <= y
  <1>1. PICK x \in T : \A y \in T : ~(<<y, x>> \in OpToRel(<, Nat))
    BY WFMin, NatLessThanWellFounded, Zenon
  <1>2. \A y \in T : ~(y < x)
    BY <1>1, Zenon DEF OpToRel
  <1> QED BY <1>2

(***************************************************************************)
(* Among terminal receipts there is one that was received last, with the   *)
(* smallest identity: adoptCallbackReceipt's query finds a row.            *)
(***************************************************************************)
LEMMA LatestIsTerminal ==
    ASSUME IInv, NEW k \in Numbers, Terminal(k) # {}
    PROVE  LatestTerminal(k) \in Terminal(k)
  <1> DEFINE at(i) == receipts[k][i].at
  <1>1. \A i \in Terminal(k) : /\ i \in Nat /\ at(i) \in Nat /\ now - at(i) \in Nat
    BY DispatchConstants DEF IInv, TypeOK, ReceiptsArePast, Terminal, Receipt
  <1>2. now \in Nat
    BY Zenon DEF IInv, TypeOK
  <1> HIDE DEF at
  <1>3. PICK a \in Terminal(k) : \A j \in Terminal(k) : now - at(a) <= now - at(j)
    <2> DEFINE ages == {now - at(j) : j \in Terminal(k)}
    <2>1. ages \subseteq Nat /\ ages # {}
      BY <1>1, Zenon
    <2> HIDE DEF ages
    <2>2. PICK x \in ages : \A y \in ages : x <= y
      BY <2>1, NatMin, Zenon
    <2> QED BY <2>2, Zenon DEF ages
  <1>4. PICK i \in {j \in Terminal(k) : at(j) = at(a)} :
            \A j \in {l \in Terminal(k) : at(l) = at(a)} : i <= j
    <2>1. /\ {j \in Terminal(k) : at(j) = at(a)} \subseteq Nat
          /\ {j \in Terminal(k) : at(j) = at(a)} # {}
      BY <1>1, Zenon
    <2> QED BY <2>1, NatMin, Zenon
  <1>5. \A j \in Terminal(k) : at(j) < at(i) \/ (at(j) = at(i) /\ i <= j)
    BY <1>1, <1>2, <1>3, <1>4
  <1> QED BY <1>4, <1>5, Zenon DEF LatestTerminal, at

(***************************************************************************)
(* What a claim finds is nothing or a result, and is the stored result     *)
(* where there is one.                                                     *)
(***************************************************************************)
LEMMA ClaimedResult ==
    ASSUME IInv, NEW k \in Numbers
    PROVE  /\ Claimed(k) \in Results \cup {None}
           /\ Stored(k) => Claimed(k) = dispatch[k] /\ dispatch[k] \in Results
  <1>1. Stored(k) => dispatch[k] \in Results
    BY Zenon DEF IInv, TypeOK, Stored
  <1>2. \A i \in Terminal(k) : receipts[k][i].result \in Answers
    BY DEF IInv, TypeOK, Terminal, Receipt
  <1> QED BY <1>1, <1>2, LatestIsTerminal, Zenon DEF Claimed, Results

(***************************************************************************)
(* No result is taken for a missing row or for one without a result.       *)
(***************************************************************************)
LEMMA ResultIsStored ==
    ASSUME NEW r \in Results
    PROVE  r \notin {"none", "pending"} /\ r # None
  BY DispatchConstants, Zenon DEF Results, Uncertain, Unresolved

-----------------------------------------------------------------------------
(***************************************************************************)
(* A transaction that leaves the row of attempt k with the value d, and    *)
(* meters the dispatch if the row is new and the result if it is new.      *)
(***************************************************************************)
LEMMA RowStep ==
    ASSUME IInv, NEW k \in Numbers, NEW d \in Results \cup {"pending"},
           dispatch' = [dispatch EXCEPT ![k] = d],
           Stored(k) => d = dispatch[k],
           usage' = usage \cup
               ((IF dispatch[k] = "none" THEN {<<k, "provider_dispatch">>} ELSE {})
                \cup (IF d \in Results /\ ~Stored(k) THEN {<<k, "provider_terminal">>} ELSE {}))
    PROVE  RowKeeps /\ dispatch'[k] = d
  <1>1. dispatch \in [Numbers -> Results \cup {"none", "pending"}] /\ UsageIsExact
    BY Zenon DEF IInv, TypeOK
  <1>2. d # "none" /\ (d \in Results <=> d # "pending")
    BY ResultIsStored, Zenon
  <1>3. dispatch'[k] = d /\ \A j \in Numbers \ {k} : dispatch'[j] = dispatch[j]
    BY <1>1, Zenon
  <1>4. ASSUME NEW j \in Numbers
        PROVE  /\ <<j, "provider_dispatch">> \in usage' <=> dispatch'[j] # "none"
               /\ <<j, "provider_terminal">> \in usage' <=> Stored(j)'
    <2>1. CASE j # k
      BY <1>1, <1>3, <2>1, Zenon DEF UsageIsExact, Stored
    <2>2. CASE j = k
      BY <1>1, <1>2, <1>3, <2>2, Zenon DEF UsageIsExact, Stored
    <2> QED BY <2>1, <2>2, Zenon
  <1>5. UsageIsExact'
    BY <1>4, Zenon DEF UsageIsExact
  <1> QED BY <1>1, <1>2, <1>3, <1>5, Zenon DEF RowKeeps

(***************************************************************************)
(* RequestStore.Claim.                                                     *)
(***************************************************************************)
LEMMA ClaimRowKeeps ==
    ASSUME IInv, NEW k \in Numbers, ClaimRow(k)
    PROVE  /\ RowKeeps /\ dispatch'[k] # "none"
           /\ Claimed(k) # None => dispatch'[k] = Claimed(k)
  <1> DEFINE d == IF Claimed(k) = None THEN "pending" ELSE Claimed(k)
  <1>1. /\ Claimed(k) \in Results \cup {None}
        /\ Stored(k) => Claimed(k) = dispatch[k] /\ dispatch[k] \in Results
    BY ClaimedResult, Zenon
  <1>2. /\ d \in Results \cup {"pending"} /\ (Stored(k) => d = dispatch[k])
        /\ d # "none" /\ (d \in Results <=> Claimed(k) # None)
    BY <1>1, ResultIsStored, Zenon
  <1>3. /\ dispatch' = [dispatch EXCEPT ![k] = d]
        /\ usage' = usage \cup
               ((IF dispatch[k] = "none" THEN {<<k, "provider_dispatch">>} ELSE {})
                \cup (IF d \in Results /\ ~Stored(k) THEN {<<k, "provider_terminal">>} ELSE {}))
    BY <1>2, Zenon DEF ClaimRow, AppendUsage
  <1>4. Claimed(k) # None => d = Claimed(k)
    BY Zenon
  <1> HIDE DEF d
  <1> QED BY <1>2, <1>3, <1>4, RowStep, Zenon

(***************************************************************************)
(* RequestStore.Complete.                                                  *)
(***************************************************************************)
LEMMA CompleteKeeps ==
    ASSUME IInv, NEW k \in Numbers, NEW r \in Results, Complete(k, r)
    PROVE  RowKeeps /\ dispatch'[k] = r
  <1>1. /\ dispatch' = [dispatch EXCEPT ![k] = r] /\ ~Stored(k)
        /\ usage' = usage \cup
               ((IF dispatch[k] = "none" THEN {<<k, "provider_dispatch">>} ELSE {})
                \cup (IF r \in Results /\ ~Stored(k) THEN {<<k, "provider_terminal">>} ELSE {}))
    BY Zenon DEF Complete, AppendUsage, Stored
  <1> QED BY <1>1, RowStep, Zenon

(***************************************************************************)
(* A step that touches neither the rows nor their metering.                *)
(***************************************************************************)
LEMMA RowStays ==
    ASSUME IInv, UNCHANGED <<dispatch, usage>>
    PROVE  RowKeeps
  BY Zenon DEF IInv, TypeOK, RowKeeps, UsageIsExact, Stored

-----------------------------------------------------------------------------
(***************************************************************************)
(* What a delivery may become, d, in a step other than the remote call: it *)
(* submits only if it made the row or already was the one to submit, it is *)
(* prepared only with the stored result, and it polls only under a fence   *)
(* nobody had before.                                                      *)
(***************************************************************************)
Becomes(w, d) ==
    d # None =>
      /\ d.step # "called"
      /\ d.initial => /\ d.step # "loaded"
                      /\ dispatch'[d.attempt] # "none"
                      /\ \/ dispatch[d.attempt] = "none"
                         \/ /\ work[w] # None /\ work[w].initial
                            /\ work[w].attempt = d.attempt /\ d.step = "prepared"
      /\ d.step = "prepared" => d.result # None /\ dispatch'[d.attempt] = d.result
      /\ executor = "async" /\ d.step = "claimed" =>
           /\ operation'[d.attempt] # None /\ operation'[d.attempt].fence = d.fence
           /\ operation[d.attempt] = None \/ operation[d.attempt].fence < d.fence

(***************************************************************************)
(* Every step of a delivery but the remote call keeps the invariant.       *)
(***************************************************************************)
LEMMA DeliveryKeeps ==
    ASSUME IInv, NEW w \in Workers, NEW d \in Delivery \cup {None},
           work' = [work EXCEPT ![w] = d], Becomes(w, d),
           RowKeeps, OperationKeeps,
           applied' \in [Numbers -> Results \cup {None}], AppliedIsStored',
           UNCHANGED <<executor, receipts, submitted, callback, now>>
    PROVE  IInv'
  <1>a. /\ work \in [Workers -> Delivery \cup {None}]
        /\ work' \in [Workers -> Delivery \cup {None}]
        /\ work'[w] = d /\ \A v \in Workers \ {w} : work'[v] = work[v]
    BY Zenon DEF IInv, TypeOK
  <1>b. \A v \in Workers : work[v] # None => /\ work[v] \in Delivery
                                             /\ work[v].attempt \in Numbers
                                             /\ work[v].fence \in Nat
    BY <1>a, Zenon DEF Delivery
  <1>c. /\ executor' = executor /\ submitted' = submitted
        /\ \A k \in Numbers : dispatch[k] = "none" => submitted[k] = 0
        /\ \A v \in Workers : WorkInv(v)
        /\ \A u, v \in Workers : Distinct(u, v)
    BY Zenon DEF IInv
  <1>d. \A k \in Numbers : /\ operation[k] # None => operation[k].fence \in Nat
                           /\ operation'[k] # None => operation'[k].fence \in Nat
    BY Zenon DEF IInv, TypeOK, OperationKeeps, Operation
  <1>e. d # None => d \in Delivery /\ d.attempt \in Numbers /\ d.fence \in Nat
    BY Zenon DEF Delivery
  <1>f. \A v \in Workers : work[v] # None /\ work[v].step = "prepared" =>
            Stored(work[v].attempt)
    <2>1. \A v \in Workers : work[v] # None => work[v].result \in Results \cup {None}
      BY <1>b, Zenon DEF Delivery
    <2> QED BY <1>c, <2>1, ResultIsStored, Zenon DEF WorkInv, Stored
  <1>1. TypeOK'
    BY <1>a, Zenon DEF IInv, TypeOK, RowKeeps, OperationKeeps
  <1>2. ReceiptsArePast' /\ UsageIsExact' /\ AppliedIsStored'
    BY Zenon DEF IInv, ReceiptsArePast, RowKeeps
  <1>3. \A k \in Numbers : /\ submitted'[k] <= 1
                           /\ dispatch'[k] = "none" => submitted'[k] = 0
                           /\ executor' = "durable" => operation'[k] = None
    BY <1>c, Zenon DEF IInv, RowKeeps, OperationKeeps
  <1>4. ASSUME NEW v \in Workers PROVE WorkInv(v)'
    <2>1. CASE v = w
      BY <1>a, <1>c, <1>d, <1>e, <2>1 DEF WorkInv, Becomes, Polls
    <2>2. CASE v # w
      <3>1. work'[v] = work[v] /\ WorkInv(v)
        BY <1>a, <1>c, <2>2, Zenon
      <3> QED BY <1>b, <1>c, <1>d, <1>f, <3>1
               DEF WorkInv, Polls, RowKeeps, OperationKeeps
    <2> QED BY <2>1, <2>2, Zenon
  <1>5. ASSUME NEW v \in Workers \ {w}, d # None, work[v] # None,
               work[v].attempt = d.attempt
        PROVE  /\ ~(d.initial /\ work[v].initial)
               /\ ~(/\ executor = "async" /\ work[v].fence = d.fence
                    /\ d.step \in {"claimed", "called"}
                    /\ work[v].step \in {"claimed", "called"})
    BY <1>b, <1>c, <1>d, <1>e, <1>5 DEF WorkInv, Distinct, Becomes, Polls
  <1>6. ASSUME NEW u \in Workers, NEW v \in Workers PROVE Distinct(u, v)'
    <2>1. CASE u # w /\ v # w
      BY <1>a, <1>c, <2>1 DEF Distinct, Polls
    <2>2. CASE u = w /\ v # w
      BY <1>a, <1>c, <1>5, <2>2, Zenon DEF Distinct, Polls
    <2>3. CASE u # w /\ v = w
      BY <1>a, <1>c, <1>5, <2>3 DEF Distinct, Polls
    <2>4. CASE u = v
      BY <2>4, Zenon DEF Distinct
    <2> QED BY <2>1, <2>2, <2>3, <2>4, Zenon
  <1> QED BY <1>1, <1>2, <1>3, <1>4, <1>6, Zenon DEF IInv

-----------------------------------------------------------------------------
(***************************************************************************)
(* The deliveries the actions write.                                       *)
(***************************************************************************)
LEMMA PreparedFields ==
    ASSUME NEW x \in Delivery, NEW r \in Results
    PROVE  LET d == [x EXCEPT !.step = "prepared", !.result = r]
           IN  /\ d \in Delivery /\ d # None
               /\ d.attempt = x.attempt /\ d.initial = x.initial
               /\ d.step = "prepared" /\ d.result = r
  <1> DEFINE d == [x EXCEPT !.step = "prepared", !.result = r]
  <1>1. d \in Delivery
    BY Zenon DEF Delivery, Steps
  <1>2. /\ d.attempt = x.attempt /\ d.initial = x.initial
        /\ d.step = "prepared" /\ d.result = r
    BY Zenon DEF Delivery
  <1>3. d # None
    BY <1>1, DispatchConstants, Zenon
  <1> QED BY <1>1, <1>2, <1>3, Zenon

LEMMA ClaimedFields ==
    ASSUME NEW x \in Delivery
    PROVE  LET d == [x EXCEPT !.step = "claimed", !.initial = TRUE]
           IN  d \in Delivery /\ d.attempt = x.attempt /\ d.step = "claimed"
  <1> DEFINE d == [x EXCEPT !.step = "claimed", !.initial = TRUE]
  <1>1. d \in Delivery
    BY Zenon DEF Delivery, Steps
  <1>2. d.attempt = x.attempt /\ d.step = "claimed"
    BY Zenon DEF Delivery
  <1> QED BY <1>1, <1>2, Zenon

LEMMA JobFields ==
    ASSUME NEW k \in Numbers, NEW q \in Keys, NEW st \in Steps,
           NEW r \in Results \cup {None}
    PROVE  LET d == Job(k, q, st, 0, FALSE, r)
           IN  /\ d \in Delivery /\ d # None /\ d.attempt = k
               /\ ~d.initial /\ d.step = st /\ d.result = r
  <1> DEFINE d == Job(k, q, st, 0, FALSE, r)
  <1>1. 0 \in Nat /\ FALSE \in BOOLEAN
    BY Zenon
  <1>2. d \in Delivery
    BY <1>1, Zenon DEF Job, Delivery
  <1>3. d.attempt = k /\ ~d.initial /\ d.step = st /\ d.result = r
    BY Zenon DEF Job
  <1> QED BY <1>2, <1>3, DispatchConstants, Zenon

(***************************************************************************)
(* A delivery in progress, and what does not change when a step leaves     *)
(* operations, or the check's results, alone.                              *)
(***************************************************************************)
LEMMA InProgress ==
    ASSUME IInv, NEW w \in Workers, NEW step, At(w, step)
    PROVE  /\ work[w] \in Delivery /\ work[w].attempt \in Numbers
           /\ work[w].step = step
           /\ step = "loaded" => ~work[w].initial
           /\ step # "loaded" /\ work[w].initial => dispatch[work[w].attempt] # "none"
  BY Zenon DEF IInv, TypeOK, At, Delivery, WorkInv

LEMMA OperationStays ==
    ASSUME IInv, UNCHANGED operation
    PROVE  OperationKeeps
  <1>1. \A k \in Numbers : operation[k] # None => operation[k].fence \in Nat
    BY Zenon DEF IInv, TypeOK, Operation
  <1> QED BY <1>1 DEF IInv, TypeOK, OperationKeeps

LEMMA AppliedStays ==
    ASSUME IInv, RowKeeps, UNCHANGED applied
    PROVE  applied' \in [Numbers -> Results \cup {None}] /\ AppliedIsStored'
  <1>1. \A k \in Numbers : applied[k] # None => Stored(k) /\ dispatch[k] = applied[k]
    BY ResultIsStored, Zenon DEF IInv, TypeOK, AppliedIsStored, Stored
  <1> QED BY <1>1, Zenon DEF IInv, TypeOK, AppliedIsStored, RowKeeps

(***************************************************************************)
(* A delivery that is given up, or lost with its worker.                   *)
(***************************************************************************)
LEMMA IdleKeeps ==
    ASSUME IInv, NEW w \in Workers, Idle(w),
           UNCHANGED <<executor, dispatch, usage, operation, applied, receipts,
                       submitted, callback, now>>
    PROVE  IInv' /\ RowKeeps
  <1>1. RowKeeps /\ OperationKeeps
    BY RowStays, OperationStays, Zenon
  <1>2. applied' \in [Numbers -> Results \cup {None}] /\ AppliedIsStored'
    BY <1>1, AppliedStays, Zenon
  <1>3. Becomes(w, None)
    BY Zenon DEF Becomes
  <1>4. None \in Delivery \cup {None} /\ work' = [work EXCEPT ![w] = None]
    BY Zenon DEF Idle
  <1>5. UNCHANGED <<executor, receipts, submitted, callback, now>>
    BY Zenon
  <1> QED BY <1>1, <1>2, <1>3, <1>4, <1>5, DeliveryKeeps, Zenon

(***************************************************************************)
(* Prepare up to Load.                                                     *)
(***************************************************************************)
LEMMA LoadKeeps ==
    ASSUME IInv, NEW w \in Workers, Load(w)
    PROVE  IInv' /\ RowKeeps
  <1>1. PICK k \in Numbers, q \in Keys :
            /\ work' = [work EXCEPT ![w] = Job(k, q, "loaded", 0, FALSE, None)]
            /\ UNCHANGED <<executor, rows, submitted, callback, active, permitted, now>>
    BY Zenon DEF Load
  <1> DEFINE d == Job(k, q, "loaded", 0, FALSE, None)
  <1>2. d \in Delivery /\ d # None /\ ~d.initial /\ d.step = "loaded"
    <2>1. "loaded" \in Steps /\ None \in Results \cup {None}
      BY Zenon DEF Steps
    <2> QED BY <2>1, JobFields DEF Job
  <1>3. Becomes(w, d)
    <2> HIDE DEF d
    <2> QED BY <1>2, Zenon DEF Becomes
  <1>4. RowKeeps /\ OperationKeeps /\ UNCHANGED <<receipts, applied>>
    BY <1>1, RowStays, OperationStays, Zenon DEF rows
  <1>5. applied' \in [Numbers -> Results \cup {None}] /\ AppliedIsStored'
    BY <1>4, AppliedStays, Zenon
  <1> HIDE DEF d
  <1> QED BY <1>1, <1>2, <1>3, <1>4, <1>5, DeliveryKeeps, Zenon DEF d

(***************************************************************************)
(* DurableExecutor.Execute until the remote call.                          *)
(***************************************************************************)
LEMMA ClaimDispatchKeeps ==
    ASSUME IInv, NEW w \in Workers, ClaimDispatch(w)
    PROVE  IInv' /\ RowKeeps
  <1> DEFINE k == work[w].attempt
             d == IF Claimed(k) # None
                    THEN [work[w] EXCEPT !.step = "prepared", !.result = Claimed(k)]
                  ELSE IF dispatch[k] = "none"
                    THEN [work[w] EXCEPT !.step = "claimed", !.initial = TRUE]
                  ELSE None
  <1>1. /\ executor = "durable"
        /\ UNCHANGED <<executor, operation, receipts, applied, submitted, callback, now>>
    BY Zenon DEF ClaimDispatch
  <1>2. work[w] \in Delivery /\ k \in Numbers /\ ~work[w].initial
    BY InProgress, Zenon DEF ClaimDispatch
  <1>3. CASE ~MayClaim(k)
    BY <1>1, <1>3, IdleKeeps, Zenon DEF ClaimDispatch
  <1>4. CASE MayClaim(k)
    <2>1. ClaimRow(k) /\ work' = [work EXCEPT ![w] = d]
      BY <1>4, Zenon DEF ClaimDispatch
    <2>2. /\ RowKeeps /\ dispatch'[k] # "none"
          /\ Claimed(k) # None => dispatch'[k] = Claimed(k)
      BY <1>2, <2>1, ClaimRowKeeps, Zenon
    <2>3. Claimed(k) \in Results \cup {None}
      BY <1>2, ClaimedResult, Zenon
    <2>4. d \in Delivery \cup {None} /\ Becomes(w, d)
      <3>1. CASE Claimed(k) # None
        <4>1. /\ d \in Delivery /\ d.attempt = k /\ ~d.initial
              /\ d.step = "prepared" /\ d.result = Claimed(k)
          BY <1>2, <2>3, <3>1, PreparedFields, Zenon
        <4> HIDE DEF d
        <4> QED BY <2>2, <3>1, <4>1, Zenon DEF Becomes
      <3>2. CASE Claimed(k) = None /\ dispatch[k] = "none"
        <4>1. /\ d \in Delivery /\ d.attempt = k /\ d.step = "claimed"
          BY <1>2, <3>2, ClaimedFields, Zenon
        <4> HIDE DEF d
        <4> QED BY <1>1, <2>2, <3>2, <4>1, Zenon DEF Becomes
      <3>3. CASE Claimed(k) = None /\ dispatch[k] # "none"
        BY <3>3, Zenon DEF Becomes
      <3> QED BY <3>1, <3>2, <3>3, Zenon
    <2>5. OperationKeeps /\ applied' \in [Numbers -> Results \cup {None}] /\ AppliedIsStored'
      BY <1>1, <2>2, OperationStays, AppliedStays, Zenon
    <2> HIDE DEF d, k
    <2> QED BY <1>1, <2>1, <2>2, <2>4, <2>5, DeliveryKeeps, Zenon
  <1> QED BY <1>3, <1>4, Zenon

(***************************************************************************)
(* DurableExecutor.Execute after the call.                                 *)
(***************************************************************************)
LEMMA AnswerDispatchKeeps ==
    ASSUME IInv, NEW w \in Workers, AnswerDispatch(w)
    PROVE  IInv' /\ RowKeeps
  <1> DEFINE k == work[w].attempt
  <1>1. UNCHANGED <<executor, operation, receipts, applied, submitted, callback, now>>
    BY Zenon DEF AnswerDispatch
  <1>2. /\ work[w] \in Delivery /\ work[w] # None /\ k \in Numbers
        /\ work[w].initial => dispatch[k] # "none"
    BY InProgress, Zenon DEF AnswerDispatch, At
  <1>3. PICK r \in Results :
            \/ /\ Complete(k, r)
               /\ work' = [work EXCEPT ![w].step = "prepared", ![w].result = r]
            \/ Idle(w) /\ UNCHANGED <<dispatch, usage>>
    BY Zenon DEF AnswerDispatch, Results
  <1>4. CASE Idle(w) /\ UNCHANGED <<dispatch, usage>>
    BY <1>1, <1>4, IdleKeeps, Zenon
  <1>5. CASE /\ Complete(k, r)
             /\ work' = [work EXCEPT ![w].step = "prepared", ![w].result = r]
    <2> DEFINE d == [work[w] EXCEPT !.step = "prepared", !.result = r]
    <2>1. work' = [work EXCEPT ![w] = d]
      BY <1>2, <1>5, Zenon DEF IInv, TypeOK
    <2>2. RowKeeps /\ dispatch'[k] = r
      BY <1>2, <1>5, CompleteKeeps, Zenon
    <2>3. /\ d \in Delivery /\ d.attempt = k /\ d.initial = work[w].initial
          /\ d.step = "prepared" /\ d.result = r
      BY <1>2, PreparedFields, Zenon
    <2>4. dispatch'[k] # "none" /\ r # None
      BY <2>2, ResultIsStored, Zenon
    <2>5. OperationKeeps /\ applied' \in [Numbers -> Results \cup {None}] /\ AppliedIsStored'
      BY <1>1, <2>2, OperationStays, AppliedStays, Zenon
    <2> HIDE DEF d
    <2>6. Becomes(w, d)
      BY <1>2, <2>2, <2>3, <2>4, Zenon DEF Becomes
    <2> QED BY <1>1, <2>1, <2>2, <2>3, <2>5, <2>6, DeliveryKeeps, Zenon
  <1> QED BY <1>3, <1>4, <1>5, Zenon

(***************************************************************************)
(* A lease takes the operation under the next fence; a new operation       *)
(* starts before the first.                                                *)
(***************************************************************************)
LEMMA LeaseFields ==
    ASSUME IInv, NEW o \in Operation
    PROVE  Lease(o) \in Operation /\ Lease(o) # None /\ Lease(o).fence = o.fence + 1
  <1>1. now \in Nat /\ now + PollLease \in Nat /\ o.fence + 1 \in Nat
    BY DispatchConstants DEF IInv, TypeOK, Operation
  <1>2. Lease(o) \in Operation
    BY <1>1, Zenon DEF Lease, Operation
  <1>3. Lease(o).fence = o.fence + 1
    BY Zenon DEF Lease, Operation
  <1> QED BY <1>2, <1>3, DispatchConstants, Zenon

LEMMA NewOperationType ==
    ASSUME IInv
    PROVE  NewOperation \in Operation
  BY Zenon DEF IInv, TypeOK, NewOperation, Operation

(***************************************************************************)
(* ClaimAsync.                                                             *)
(***************************************************************************)
LEMMA ClaimAsyncKeeps ==
    ASSUME IInv, NEW w \in Workers, ClaimAsync(w)
    PROVE  IInv' /\ RowKeeps
  <1> DEFINE k == work[w].attempt
             o == IF operation[k] = None THEN NewOperation ELSE operation[k]
             taken == o.next > now \/ Leased(o)
             claims == now < Deadline /\ MayExecute /\ k \in running /\ MayClaim(k)
             p == [work[w] EXCEPT !.step = "prepared", !.result = Claimed(k)]
             c == [work[w] EXCEPT !.step = "claimed", !.fence = Lease(o).fence,
                                  !.initial = (dispatch[k] = "none")]
  <1>1. /\ executor = "async"
        /\ UNCHANGED <<executor, receipts, applied, submitted, callback, now>>
    BY Zenon DEF ClaimAsync
  <1>2. work[w] \in Delivery /\ k \in Numbers /\ ~work[w].initial
    BY InProgress, Zenon DEF ClaimAsync
  <1>3. CASE ~claims
    BY <1>1, <1>3, IdleKeeps, Zenon DEF ClaimAsync
  <1>4. CASE claims
    <2>1. /\ ClaimRow(k)
          /\ operation' = IF Claimed(k) # None THEN operation
                          ELSE [operation EXCEPT ![k] = IF taken THEN o ELSE Lease(o)]
          /\ work' = [work EXCEPT ![w] = IF Claimed(k) # None THEN p
                                         ELSE IF taken THEN None ELSE c]
      BY <1>4, Zenon DEF ClaimAsync
    <2>2. /\ RowKeeps /\ dispatch'[k] # "none"
          /\ Claimed(k) # None => dispatch'[k] = Claimed(k)
      BY <1>2, <2>1, ClaimRowKeeps, Zenon
    <2>3. Claimed(k) \in Results \cup {None}
      BY <1>2, ClaimedResult, Zenon
    <2>4. applied' \in [Numbers -> Results \cup {None}] /\ AppliedIsStored'
      BY <1>1, <2>2, AppliedStays, Zenon
    <2>5. /\ operation \in [Numbers -> Operation \cup {None}]
          /\ \A j \in Numbers : operation[j] # None => operation[j].fence \in Nat
      BY Zenon DEF IInv, TypeOK, Operation
    <2>6. o \in Operation /\ (operation[k] # None => o = operation[k])
          /\ o.fence \in Nat /\ o # None
      <3>1. o \in Operation /\ (operation[k] # None => o = operation[k])
        BY <1>2, <2>5, NewOperationType, Zenon
      <3> HIDE DEF o
      <3> QED BY <3>1, DispatchConstants, Zenon DEF Operation
    <2>7. Lease(o) \in Operation /\ Lease(o) # None /\ Lease(o).fence = o.fence + 1
      BY <2>6, LeaseFields, Zenon
    <2> HIDE DEF o, taken
    <2>8. CASE Claimed(k) # None
      <3>1. /\ p \in Delivery /\ p.attempt = k /\ ~p.initial
            /\ p.step = "prepared" /\ p.result = Claimed(k)
        BY <1>2, <2>3, <2>8, PreparedFields, Zenon
      <3>2. OperationKeeps /\ work' = [work EXCEPT ![w] = p]
        BY <2>1, <2>8, OperationStays, Zenon
      <3> HIDE DEF p
      <3>3. Becomes(w, p)
        BY <2>2, <2>8, <3>1, Zenon DEF Becomes
      <3> HIDE DEF k
      <3> QED BY <1>1, <2>2, <2>4, <3>1, <3>2, <3>3, DeliveryKeeps, Zenon
    <2>9. CASE Claimed(k) = None
      <3>1. operation' = [operation EXCEPT ![k] = IF taken THEN o ELSE Lease(o)]
        BY <2>1, <2>9, Zenon
      <3>2. OperationKeeps
        BY <1>1, <1>2, <2>5, <2>6, <2>7, <3>1 DEF OperationKeeps
      <3>3. CASE taken
        <4>1. work' = [work EXCEPT ![w] = None] /\ Becomes(w, None)
          BY <2>1, <2>9, <3>3, Zenon DEF Becomes
        <4> QED BY <1>1, <2>2, <2>4, <3>2, <4>1, DeliveryKeeps, Zenon
      <3>4. CASE ~taken
        <4>1. (dispatch[k] = "none") \in BOOLEAN /\ Lease(o).fence \in Nat
          BY <2>6, <2>7
        <4>2. /\ c \in Delivery /\ c.attempt = k /\ c.step = "claimed"
              /\ c.fence = Lease(o).fence
              /\ c.initial <=> dispatch[k] = "none"
          <5>1. c \in Delivery
            BY <1>2, <4>1, Zenon DEF Delivery, Steps
          <5> QED BY <1>2, <5>1, Zenon DEF Delivery
        <4>3. work' = [work EXCEPT ![w] = c] /\ operation'[k] = Lease(o)
          BY <1>2, <2>1, <2>5, <2>9, <3>1, <3>4, Zenon
        <4> HIDE DEF c
        <4>4. Becomes(w, c)
          BY <1>2, <2>2, <2>5, <2>6, <2>7, <4>2, <4>3 DEF Becomes
        <4> HIDE DEF k
        <4> QED BY <1>1, <2>2, <2>4, <3>2, <4>2, <4>3, <4>4, DeliveryKeeps, Zenon
      <3> QED BY <3>3, <3>4, Zenon
    <2> QED BY <2>8, <2>9, Zenon
  <1> QED BY <1>3, <1>4, Zenon

(***************************************************************************)
(* SaveProgress releases the operation under its fence.                    *)
(***************************************************************************)
LEMMA ReleasedFields ==
    ASSUME IInv, NEW o \in Operation, NEW j \in Jobs \cup {None}
    PROVE  LET u == [o EXCEPT !.job = j, !.lease = None, !.next = now + PollDelay]
           IN  u \in Operation /\ u # None /\ u.fence = o.fence
  <1> DEFINE u == [o EXCEPT !.job = j, !.lease = None, !.next = now + PollDelay]
  <1>1. now + PollDelay \in Nat
    BY DispatchConstants DEF IInv, TypeOK
  <1>2. u \in Operation
    BY <1>1, Zenon DEF Operation
  <1>3. u.fence = o.fence
    BY Zenon DEF Operation
  <1> QED BY <1>2, <1>3, DispatchConstants, Zenon

LEMMA SaveProgressKeeps ==
    ASSUME IInv, NEW w \in Workers, SaveProgress(w)
    PROVE  IInv' /\ RowKeeps
  <1> DEFINE k == work[w].attempt
             o == operation[k]
             released(p) == [o EXCEPT !.job = IF o.job = None THEN p.job ELSE o.job,
                                      !.lease = None, !.next = now + PollDelay]
  <1>1. /\ executor = "async"
        /\ UNCHANGED <<executor, receipts, applied, submitted, callback, now>>
    BY Zenon DEF SaveProgress
  <1>2. /\ work[w] \in Delivery /\ work[w] # None /\ k \in Numbers
        /\ work[w].step = "called" /\ (work[w].initial => dispatch[k] # "none")
    BY InProgress, Zenon DEF SaveProgress, At
  <1>3. PICK p \in Progress :
            \/ /\ operation' = [operation EXCEPT ![k] = released(p)]
               /\ IF p.result = None
                    THEN Idle(w) /\ UNCHANGED <<dispatch, usage>>
                    ELSE /\ Complete(k, p.result)
                         /\ work' = [work EXCEPT ![w].step = "prepared",
                                                 ![w].result = p.result]
            \/ Idle(w) /\ UNCHANGED <<dispatch, usage, operation>>
    BY Zenon DEF SaveProgress
  <1>4. CASE Idle(w) /\ UNCHANGED <<dispatch, usage, operation>>
    BY <1>1, <1>4, IdleKeeps, Zenon
  <1>5. CASE operation' = [operation EXCEPT ![k] = released(p)] /\
             IF p.result = None
               THEN Idle(w) /\ UNCHANGED <<dispatch, usage>>
               ELSE /\ Complete(k, p.result)
                    /\ work' = [work EXCEPT ![w].step = "prepared", ![w].result = p.result]
    <2>1. /\ operation \in [Numbers -> Operation \cup {None}] /\ o # None
          /\ \A j \in Numbers : operation[j] # None => operation[j].fence \in Nat
      BY <1>1, <1>2, Zenon DEF IInv, TypeOK, WorkInv, Polls, Operation
    <2>2. o \in Operation /\ (IF o.job = None THEN p.job ELSE o.job) \in Jobs \cup {None}
          /\ p.result \in Answers \cup {None}
      BY <1>2, <2>1, Zenon DEF Operation, Progress
    <2>3. released(p) \in Operation /\ released(p) # None /\ released(p).fence = o.fence
      BY <2>2, ReleasedFields, Zenon
    <2> HIDE DEF released
    <2>4. OperationKeeps
      BY <1>1, <1>2, <1>5, <2>1, <2>3 DEF OperationKeeps
    <2>5. CASE p.result = None
      <3>1. RowKeeps /\ work' = [work EXCEPT ![w] = None] /\ Becomes(w, None)
        BY <1>5, <2>5, RowStays, Zenon DEF Idle, Becomes
      <3>2. applied' \in [Numbers -> Results \cup {None}] /\ AppliedIsStored'
        BY <1>1, <3>1, AppliedStays, Zenon
      <3> QED BY <1>1, <2>4, <3>1, <3>2, DeliveryKeeps, Zenon
    <2>6. CASE p.result # None
      <3> DEFINE r == p.result
                 d == [work[w] EXCEPT !.step = "prepared", !.result = r]
      <3>1. r \in Results /\ r # None
        BY <2>2, <2>6, Zenon DEF Results
      <3>2. Complete(k, r) /\ work' = [work EXCEPT ![w] = d]
        BY <1>2, <1>5, <2>6, Zenon DEF IInv, TypeOK
      <3>3. RowKeeps /\ dispatch'[k] = r
        BY <1>2, <3>1, <3>2, CompleteKeeps, Zenon
      <3>4. /\ d \in Delivery /\ d.attempt = k /\ d.initial = work[w].initial
            /\ d.step = "prepared" /\ d.result = r
        BY <1>2, <3>1, PreparedFields, Zenon
      <3>5. dispatch'[k] # "none"
        BY <3>1, <3>3, ResultIsStored, Zenon
      <3>6. applied' \in [Numbers -> Results \cup {None}] /\ AppliedIsStored'
        BY <1>1, <3>3, AppliedStays, Zenon
      <3> HIDE DEF d
      <3>7. Becomes(w, d)
        BY <1>2, <3>1, <3>3, <3>4, <3>5, Zenon DEF Becomes
      <3> QED BY <1>1, <2>4, <3>2, <3>3, <3>4, <3>6, <3>7, DeliveryKeeps, Zenon
    <2> QED BY <2>5, <2>6, Zenon
  <1> QED BY <1>3, <1>4, <1>5, Zenon

(***************************************************************************)
(* RequestStore.Expire.                                                    *)
(***************************************************************************)
LEMMA ExpireKeeps ==
    ASSUME IInv, NEW w \in Workers, Expire(w)
    PROVE  IInv' /\ RowKeeps
  <1>1. PICK k \in Numbers :
        /\ dispatch' = [dispatch EXCEPT ![k] = ExpireResult(k)]
        /\ AppendUsage((IF dispatch[k] = "none" THEN {<<k, "provider_dispatch">>} ELSE {})
                       \cup (IF Stored(k) THEN {} ELSE {<<k, "provider_terminal">>}))
        /\ work' = [work EXCEPT ![w] = Job(k, "async", "prepared", 0, FALSE, ExpireResult(k))]
        /\ UNCHANGED <<executor, operation, receipts, applied, submitted, callback, now>>
    BY Zenon DEF Expire
  <1> DEFINE r == ExpireResult(k)
             d == Job(k, "async", "prepared", 0, FALSE, r)
  <1>2. r \in Results /\ (Stored(k) => r = dispatch[k])
    BY ClaimedResult, ResultIsStored, Zenon DEF ExpireResult, Results, Unresolved
  <1>3. r # None
    BY <1>2, ResultIsStored, Zenon
  <1> HIDE DEF r
  <1>4. usage' = usage \cup
               ((IF dispatch[k] = "none" THEN {<<k, "provider_dispatch">>} ELSE {})
                \cup (IF r \in Results /\ ~Stored(k) THEN {<<k, "provider_terminal">>} ELSE {}))
    BY <1>1, <1>2, Zenon DEF AppendUsage
  <1>5. RowKeeps /\ dispatch'[k] = r
    BY <1>1, <1>2, <1>4, RowStep, Zenon DEF r
  <1>6. /\ d \in Delivery /\ d # None /\ d.attempt = k
        /\ ~d.initial /\ d.step = "prepared" /\ d.result = r
    <2>1. "prepared" \in Steps /\ "async" \in Keys /\ r \in Results \cup {None}
      BY <1>2, Zenon DEF Steps, Keys
    <2> QED BY <2>1, JobFields DEF Job
  <1>7. work' = [work EXCEPT ![w] = d]
    BY <1>1, Zenon DEF r
  <1> HIDE DEF d
  <1>8. Becomes(w, d)
    BY <1>3, <1>5, <1>6, Zenon DEF Becomes
  <1>9. OperationKeeps /\ applied' \in [Numbers -> Results \cup {None}] /\ AppliedIsStored'
    BY <1>1, <1>5, OperationStays, AppliedStays, Zenon
  <1> QED BY <1>1, <1>5, <1>6, <1>7, <1>8, <1>9, DeliveryKeeps, Zenon

(***************************************************************************)
(* The fenced commit hands the stored result to the check.                 *)
(***************************************************************************)
LEMMA CommitKeeps ==
    ASSUME IInv, NEW w \in Workers, Commit(w)
    PROVE  IInv' /\ RowKeeps
  <1> DEFINE k == work[w].attempt
             r == work[w].result
  <1>1. /\ UNCHANGED <<executor, dispatch, usage, operation, receipts, submitted,
                       callback, now>>
        /\ work' = [work EXCEPT ![w] = None]
        /\ applied' = applied \/ applied' = [applied EXCEPT ![k] = r]
    BY Zenon DEF Commit, Idle
  <1>2. work[w] \in Delivery /\ k \in Numbers
    BY InProgress, Zenon DEF Commit
  <1>3. dispatch[k] = r /\ r \in Results
    BY <1>2, Zenon DEF IInv, WorkInv, Commit, At, Delivery
  <1>4. RowKeeps /\ OperationKeeps /\ Becomes(w, None)
    BY <1>1, RowStays, OperationStays, Zenon DEF Becomes
  <1>5. applied' \in [Numbers -> Results \cup {None}] /\ AppliedIsStored'
    <2>1. CASE applied' = applied
      BY <1>4, <2>1, AppliedStays, Zenon
    <2>2. CASE applied' = [applied EXCEPT ![k] = r]
      BY <1>1, <1>2, <1>3, <2>2, Zenon DEF IInv, TypeOK, AppliedIsStored
    <2> QED BY <1>1, <2>1, <2>2, Zenon
  <1> HIDE DEF k, r
  <1> QED BY <1>1, <1>4, <1>5, DeliveryKeeps, Zenon

(***************************************************************************)
(* The remote call: the one delivery that submits does so once.            *)
(***************************************************************************)
LEMMA CallKeeps ==
    ASSUME IInv, NEW w \in Workers, Call(w)
    PROVE  IInv' /\ RowKeeps
  <1> DEFINE k == work[w].attempt
             d == [work[w] EXCEPT !.step = "called"]
  <1>1. /\ UNCHANGED <<executor, dispatch, usage, operation, receipts, applied, callback,
                       now>>
        /\ submitted' = IF work[w].initial THEN [submitted EXCEPT ![k] = @ + 1]
                        ELSE submitted
    BY Zenon DEF Call, rows
  <1>2. /\ work[w] \in Delivery /\ work[w] # None /\ k \in Numbers
        /\ work[w].step = "claimed"
    BY InProgress, Zenon DEF Call, At
  <1>3. d \in Delivery
    BY <1>2, Zenon DEF Delivery, Steps
  <1>4. /\ d.attempt = k /\ d.initial = work[w].initial /\ d.fence = work[w].fence
        /\ d.step = "called" /\ d # None
    BY <1>2, <1>3, DispatchConstants, Zenon DEF Delivery
  <1>5. /\ work \in [Workers -> Delivery \cup {None}]
        /\ work'[w] = d /\ \A v \in Workers \ {w} : work'[v] = work[v]
        /\ work' \in [Workers -> Delivery \cup {None}]
    BY <1>2, <1>3, Zenon DEF IInv, TypeOK, Call
  <1>6. /\ \A v \in Workers : WorkInv(v)
        /\ \A u, v \in Workers : Distinct(u, v)
        /\ submitted \in [Numbers -> Nat]
    BY Zenon DEF IInv, TypeOK
  <1>7. RowKeeps
    BY <1>1, RowStays, Zenon
  <1>8. \A j \in Numbers : j # k \/ ~work[w].initial => submitted'[j] = submitted[j]
    BY <1>1, <1>2, <1>6, Zenon
  <1>9. work[w].initial => submitted[k] = 0 /\ submitted'[k] = 1 /\ dispatch[k] # "none"
    BY <1>1, <1>2, <1>6 DEF WorkInv
  <1>10. TypeOK'
    <2>1. submitted' \in [Numbers -> Nat]
      BY <1>1, <1>2, <1>6
    <2> QED BY <1>1, <1>5, <2>1, Zenon DEF IInv, TypeOK
  <1>11. ReceiptsArePast' /\ UsageIsExact' /\ AppliedIsStored'
    BY <1>1, Zenon DEF IInv, ReceiptsArePast, UsageIsExact, AppliedIsStored, Stored
  <1>12. \A j \in Numbers : /\ submitted'[j] <= 1
                            /\ dispatch'[j] = "none" => submitted'[j] = 0
                            /\ executor' = "durable" => operation'[j] = None
    BY <1>1, <1>8, <1>9 DEF IInv
  <1> HIDE DEF d
  <1>13. ASSUME NEW v \in Workers PROVE WorkInv(v)'
    <2>1. CASE v = w
      BY <1>1, <1>2, <1>4, <1>5, <1>6, <2>1, Zenon DEF WorkInv, Polls
    <2>2. CASE v # w
      <3>1. work'[v] = work[v] /\ WorkInv(v) /\ Distinct(v, w)
        BY <1>5, <1>6, <2>2, Zenon
      <3>2. work[v] # None => work[v].attempt \in Numbers
        BY <1>5, Zenon DEF Delivery
      <3>3. work[v] # None /\ work[v].initial /\ work[w].initial => work[v].attempt # k
        BY <1>2, <2>2, <3>1, Zenon DEF Distinct
      <3> QED BY <1>1, <1>8, <3>1, <3>2, <3>3 DEF WorkInv, Polls
    <2> QED BY <2>1, <2>2, Zenon
  <1>14. ASSUME NEW u \in Workers, NEW v \in Workers PROVE Distinct(u, v)'
    <2>1. Distinct(u, v)
      BY <1>6, Zenon
    <2>2. ASSUME NEW x \in Workers
          PROVE  /\ work'[x] # None <=> work[x] # None
                 /\ work[x] # None => /\ work'[x].attempt = work[x].attempt
                                      /\ work'[x].initial = work[x].initial
                                      /\ work'[x].fence = work[x].fence
                                      /\ work'[x].step \in {"claimed", "called"} <=>
                                           work[x].step \in {"claimed", "called"}
      BY <1>2, <1>4, <1>5, Zenon
    <2> QED BY <1>1, <2>1, <2>2, Zenon DEF Distinct, Polls
  <1> QED BY <1>7, <1>10, <1>11, <1>12, <1>13, <1>14, Zenon DEF IInv

-----------------------------------------------------------------------------
(***************************************************************************)
(* Steps outside the deliveries move receipts, callbacks and the clock.    *)
(***************************************************************************)
LEMMA OutsideKeeps ==
    ASSUME IInv,
           UNCHANGED <<executor, dispatch, operation, usage, submitted, work, applied>>,
           now' \in Nat, ReceiptsArePast',
           receipts' \in [Numbers -> [ReplayIDs -> Receipt \cup {None}]],
           callback' \in [Callers -> Inbound \cup {None}]
    PROVE  IInv' /\ RowKeeps
  <1>1. RowKeeps
    BY RowStays, Zenon
  <1>2. TypeOK'
    BY Zenon DEF IInv, TypeOK
  <1>3. UsageIsExact' /\ AppliedIsStored'
    BY Zenon DEF IInv, UsageIsExact, AppliedIsStored, Stored
  <1>4. \A w \in Workers : WorkInv(w)'
    BY Zenon DEF IInv, WorkInv, Polls
  <1>5. \A v, w \in Workers : Distinct(v, w)'
    BY Zenon DEF IInv, Distinct, Polls
  <1>6. \A k \in Numbers : /\ submitted'[k] <= 1
                           /\ dispatch'[k] = "none" => submitted'[k] = 0
                           /\ executor' = "durable" => operation'[k] = None
    BY Zenon DEF IInv
  <1> QED BY <1>1, <1>2, <1>3, <1>4, <1>5, <1>6, Zenon DEF IInv

LEMMA ResolveCallbackKeeps ==
    ASSUME IInv, NEW c \in Callers, ResolveCallback(c), running \subseteq Numbers
    PROVE  IInv' /\ RowKeeps
  <1>1. PICK k \in running \cap request, i \in ReplayIDs, p \in Progress :
            /\ callback' = [callback EXCEPT ![c] =
                               [attempt |-> k, replay |-> i, progress |-> p]]
            /\ UNCHANGED <<executor, rows, submitted, work, active, permitted, now>>
    BY Zenon DEF ResolveCallback
  <1>2. callback' \in [Callers -> Inbound \cup {None}]
    BY <1>1, Zenon DEF IInv, TypeOK, Inbound
  <1>3. /\ UNCHANGED <<executor, dispatch, operation, usage, submitted, work, applied>>
        /\ UNCHANGED <<now, receipts>>
    BY <1>1, Zenon DEF rows
  <1>4. now' \in Nat /\ ReceiptsArePast'
        /\ receipts' \in [Numbers -> [ReplayIDs -> Receipt \cup {None}]]
    BY <1>3, Zenon DEF IInv, TypeOK, ReceiptsArePast
  <1> QED BY <1>2, <1>3, <1>4, OutsideKeeps, Zenon

(***************************************************************************)
(* SaveCallbackProgress stamps the receipt with the present.               *)
(***************************************************************************)
LEMMA SaveCallbackKeeps ==
    ASSUME IInv, NEW c \in Callers, SaveCallback(c)
    PROVE  IInv' /\ RowKeeps
  <1> DEFINE k == callback[c].attempt
             i == callback[c].replay
             p == callback[c].progress
             old == receipts[k][i]
             new == [job |-> IF old # None /\ old.job # None THEN old.job ELSE p.job,
                     result |-> p.result, at |-> now]
  <1>1. /\ UNCHANGED <<executor, dispatch, operation, usage, submitted, work, applied, now>>
        /\ callback' = [callback EXCEPT ![c] = None]
        /\ receipts' = receipts \/ receipts' = [receipts EXCEPT ![k][i] = new]
    BY Zenon DEF SaveCallback
  <1>2. k \in Numbers /\ i \in ReplayIDs /\ p \in Progress /\ now \in Nat
    BY Zenon DEF IInv, TypeOK, SaveCallback, Inbound
  <1>3. /\ receipts \in [Numbers -> [ReplayIDs -> Receipt \cup {None}]]
        /\ ReceiptsArePast
    BY Zenon DEF IInv, TypeOK
  <1>4. new \in Receipt /\ new.at = now
    BY <1>2, <1>3 DEF Receipt, Progress
  <1> HIDE DEF new
  <1>5. receipts' \in [Numbers -> [ReplayIDs -> Receipt \cup {None}]] /\ ReceiptsArePast'
    <2>1. CASE receipts' = receipts
      BY <1>1, <1>3, <2>1, Zenon DEF ReceiptsArePast
    <2>2. CASE receipts' = [receipts EXCEPT ![k][i] = new]
      BY <1>1, <1>2, <1>3, <1>4, <2>2 DEF ReceiptsArePast
    <2> QED BY <1>1, <2>1, <2>2, Zenon
  <1>6. callback' \in [Callers -> Inbound \cup {None}]
    BY <1>1, Zenon DEF IInv, TypeOK
  <1> QED BY <1>1, <1>2, <1>5, <1>6, OutsideKeeps, Zenon

(***************************************************************************)
(* The clock, a stop, a refused task, and no step at all.                  *)
(***************************************************************************)
LEMMA QuietKeeps ==
    ASSUME IInv, PrepareStopped \/ Stop \/ Tick \/ UNCHANGED vars
    PROVE  IInv' /\ RowKeeps
  <1>1. /\ UNCHANGED <<executor, dispatch, operation, usage, submitted, work, applied>>
        /\ UNCHANGED <<receipts, callback>>
        /\ now' = now \/ now' = now + 1
    BY Zenon DEF PrepareStopped, Stop, Tick, vars, rows
  <1>2. /\ now' \in Nat
        /\ callback' \in [Callers -> Inbound \cup {None}]
        /\ receipts' \in [Numbers -> [ReplayIDs -> Receipt \cup {None}]]
    BY <1>1 DEF IInv, TypeOK
  <1>3. ReceiptsArePast'
    BY <1>1 DEF IInv, TypeOK, ReceiptsArePast, Receipt
  <1> QED BY <1>1, <1>2, <1>3, OutsideKeeps, Zenon

(***************************************************************************)
(* Running attempts are attempts: a semantic retry stays below the limit.  *)
(***************************************************************************)
LEMMA RunningKeeps ==
    ASSUME IInv, running \subseteq Numbers, [Next]_vars
    PROVE  running' \subseteq Numbers
  <1>1. ASSUME NEW w \in Workers, Commit(w) PROVE running' \subseteq Numbers
    <2>1. work[w].attempt \in Numbers
      BY <1>1, InProgress, Zenon DEF Commit
    <2>2. \/ running' = running \/ running' = running \ {work[w].attempt}
          \/ /\ work[w].attempt < MaxSemantic
             /\ running' = (running \ {work[w].attempt}) \cup {work[w].attempt + 1}
      BY <1>1, Zenon DEF Commit
    <2>3. work[w].attempt < MaxSemantic => work[w].attempt + 1 \in Numbers
      BY <2>1, DispatchConstants DEF Numbers
    <2> QED BY <2>2, <2>3, Zenon
  <1>2. CASE \A w \in Workers : ~Commit(w)
    <2>1. running' = running
      BY <1>2, Zenon DEF Next, Step, Load, ClaimDispatch, ClaimAsync, Call, AnswerDispatch,
         SaveProgress, Expire, Crash, ResolveCallback, SaveCallback, PrepareStopped, Stop,
         Tick, vars, rows
    <2> QED BY <2>1, Zenon
  <1> QED BY <1>1, <1>2, Zenon

LEMMA NextKeeps ==
    ASSUME IInv, running \subseteq Numbers, [Next]_vars
    PROVE  IInv' /\ RowKeeps
  <1>1. ASSUME NEW w \in Workers, Step(w) \/ Crash(w) PROVE IInv' /\ RowKeeps
    <2>1. CASE Crash(w)
      <3>1. Idle(w) /\ UNCHANGED <<executor, dispatch, usage, operation, applied, receipts,
                                   submitted, callback, now>>
        BY <2>1, Zenon DEF Crash, rows
      <3> QED BY <3>1, IdleKeeps, Zenon
    <2> QED BY <1>1, <2>1, LoadKeeps, ClaimDispatchKeeps, ClaimAsyncKeeps, CallKeeps,
               AnswerDispatchKeeps, SaveProgressKeeps, ExpireKeeps, CommitKeeps, Zenon DEF Step
  <1>2. ASSUME NEW c \in Callers, ResolveCallback(c) \/ SaveCallback(c)
        PROVE  IInv' /\ RowKeeps
    BY <1>2, ResolveCallbackKeeps, SaveCallbackKeeps, Zenon
  <1>3. CASE PrepareStopped \/ Stop \/ Tick \/ UNCHANGED vars
    BY <1>3, QuietKeeps, Zenon
  <1> QED BY <1>1, <1>2, <1>3, Zenon DEF Next

LEMMA InitHolds ==
    ASSUME Init
    PROVE  IInv /\ running \subseteq Numbers
  <1> USE DispatchConstants DEF Init
  <1>1. TypeOK
    BY Zenon DEF TypeOK
  <1>2. ReceiptsArePast /\ UsageIsExact /\ AppliedIsStored
    BY Zenon DEF ReceiptsArePast, UsageIsExact, AppliedIsStored, Stored
  <1>3. /\ \A k \in Numbers : submitted[k] = 0 /\ operation[k] = None
        /\ \A w \in Workers : work[w] = None
    BY Zenon
  <1>4. running \subseteq Numbers
    BY DEF Numbers
  <1> HIDE DEF Init
  <1> QED BY <1>1, <1>2, <1>3, <1>4 DEF IInv, WorkInv, Distinct

LEMMA Invariance == Spec => [](IInv /\ running \subseteq Numbers)
  <1>1. Init => IInv /\ running \subseteq Numbers
    BY InitHolds, Zenon
  <1>2. IInv /\ running \subseteq Numbers /\ [Next]_vars
          => (IInv /\ running \subseteq Numbers)'
    BY NextKeeps, RunningKeeps, Zenon
  <1> QED BY <1>1, <1>2, PTL DEF Spec

-----------------------------------------------------------------------------
(***************************************************************************)
(* However often a task is delivered and wherever workers die, AsyncExec-  *)
(* utor and DurableExecutor submit an attempt at most once.                *)
(***************************************************************************)
THEOREM SubmittedCorrect == Spec => []SubmittedOnce
  <1>1. IInv => SubmittedOnce
    BY Zenon DEF IInv, SubmittedOnce
  <1> QED BY <1>1, Invariance, PTL

(***************************************************************************)
(* appendProviderUsage meters a dispatch row and a stored result exactly   *)
(* once each, whichever of the four paths stored it.                       *)
(***************************************************************************)
THEOREM UsageCorrect == Spec => []UsageIsExact
  <1>1. IInv => UsageIsExact
    BY Zenon DEF IInv
  <1> QED BY <1>1, Invariance, PTL

(***************************************************************************)
(* ClaimAsync's fence tells the one poller of an attempt from every worker *)
(* whose lease lapsed.                                                     *)
(***************************************************************************)
THEOREM PollerCorrect == Spec => []OnePoller
  <1>1. ASSUME IInv PROVE OnePoller
    <2> SUFFICES ASSUME NEW k \in Numbers, NEW v \in Workers, NEW w \in Workers,
                        operation[k] # None, Polls(v, k), Polls(w, k),
                        work[v].fence = work[w].fence
                 PROVE  v = w
      BY Zenon DEF OnePoller
    <2>1. executor = "async"
      BY <1>1, Zenon DEF IInv, TypeOK
    <2>2. Distinct(v, w)
      BY <1>1, Zenon DEF IInv
    <2> QED BY <2>1, <2>2, Zenon DEF Distinct, Polls
  <1> QED BY <1>1, Invariance, PTL

(***************************************************************************)
(* The result the check accepted is the one the dispatch row holds: poll,  *)
(* callback and deadline agree on one outcome.                             *)
(***************************************************************************)
THEOREM AppliedCorrect == Spec => []AppliedIsStored
  <1>1. IInv => AppliedIsStored
    BY Zenon DEF IInv
  <1> QED BY <1>1, Invariance, PTL

(***************************************************************************)
(* Complete, adoptCallbackReceipt and Expire never replace a stored        *)
(* result.                                                                 *)
(***************************************************************************)
THEOREM FirstResultCorrect == Spec => FirstResultWins
  <1>1. IInv /\ running \subseteq Numbers /\ [Next]_vars =>
          [\A k \in Numbers : Stored(k) => dispatch'[k] = dispatch[k]]_vars
    BY NextKeeps, Zenon DEF RowKeeps
  <1> QED BY <1>1, Invariance, PTL DEF Spec, FirstResultWins

=============================================================================
