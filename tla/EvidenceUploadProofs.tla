-------------------------- MODULE EvidenceUploadProofs --------------------------
(***************************************************************************)
(* Proofs about EvidenceUpload for every set of requests and reconcilers,  *)
(* every number of attempts and every choice of timeouts in which an       *)
(* orphan is older than an attempt may last.  The acceptance transaction   *)
(* does not outlast its look at the clock (LongCommits is FALSE).          *)
(***************************************************************************)
EXTENDS EvidenceUpload, TLAPS

UploadStates == {"issued", "uploading", "accepted", "rejected", "expired"}

Upload ==
    [state : UploadStates, version : Nat, attempt : 0 .. MaxAttempts,
     lease : Nat \cup {None}]

Object == [state : {"none", "stored", "deleted"}, at : Nat]

RequestSteps ==
    {"idle", "staging", "staged", "recorded", "committing", "discarding",
     "unrecorded", "resolving", "orphan", "failing"}

Request ==
    [step : RequestSteps, attempt : 0 .. MaxAttempts, version : Nat, lease : Nat, at : Nat]

WorkSteps == {"idle", "claimed", "found", "delete", "deleted", "retained", "retry"}

Seen == [state : UploadStates, attempt : 0 .. MaxAttempts]

Work ==
    [step : WorkSteps, attempt : 0 .. MaxAttempts, version : Nat, seen : Seen \cup {None}]

TypeOK ==
    /\ now \in Nat
    /\ upload \in Upload
    /\ asset \in Attempts \cup {None}
    /\ object \in [Attempts -> Object]
    /\ rec \in [Attempts -> Obligation \cup {None}]
    /\ req \in [Requests -> Request]
    /\ work \in [Reconcilers -> Work]
    /\ sweep \in Attempts \cup {None}

(***************************************************************************)
(* The attempt of the upload that may still be accepted.                   *)
(***************************************************************************)
Current(a) == upload.state = "uploading" /\ upload.attempt = a

(***************************************************************************)
(* Nothing can accept the object of this attempt any more, now or later:   *)
(* it is what every deletion but a request's own rests on.                 *)
(***************************************************************************)
Lost(a) ==
    /\ a \in Attempts /\ a <= upload.attempt
    /\ asset # a
    /\ Current(a) => now >= upload.lease

UploadInv ==
    /\ upload.state = "uploading" =>
         /\ upload.lease \in Nat /\ upload.attempt \in Attempts
         /\ upload.lease <= now + AttemptTimeout
         /\ object[upload.attempt].state = "stored" =>
              upload.lease <= object[upload.attempt].at + AttemptTimeout
    /\ asset # None <=> upload.state = "accepted"
    /\ asset # None => asset = upload.attempt
    /\ asset # None => object[asset].state = "stored" /\ rec[asset] # None
    /\ \A a \in Attempts : a > upload.attempt => object[a].state = "none" /\ rec[a] = None

(***************************************************************************)
(* A request owns its attempt, and holds the upload's version exactly as   *)
(* long as the upload is in that attempt.                                  *)
(***************************************************************************)
RequestInv(r) ==
    LET a == req[r].attempt IN
    req[r].step # "idle" =>
      /\ a \in Attempts /\ a <= upload.attempt
      /\ asset # a
      /\ req[r].version <= upload.version
      /\ req[r].version = upload.version <=> Current(a)
      /\ Current(a) => req[r].lease = upload.lease
      /\ req[r].step = "staging" => object[a].state = "none" /\ rec[a] = None
      /\ req[r].step = "staged" => rec[a] = None
      /\ req[r].step = "resolving" => object[a].state = "deleted"
      /\ req[r].step \in {"staged", "recorded", "committing"} =>
           (Current(a) /\ now < upload.lease => object[a].state = "stored")
      /\ req[r].step = "committing" => Current(a) /\ now < upload.lease

Owners == \A r, s \in Requests :
    req[r].step # "idle" /\ req[s].step # "idle" /\ req[r].attempt = req[s].attempt
        => r = s

(***************************************************************************)
(* An obligation is not due while its attempt can be accepted, and tells   *)
(* the truth once it is settled.                                           *)
(***************************************************************************)
ObligationInv(a) ==
    rec[a] # None =>
      /\ Current(a) => rec[a].available >= upload.lease
      /\ Current(a) /\ rec[a].state = "claimed" => now >= upload.lease
      /\ rec[a].state = "retained" <=> asset = a
      /\ rec[a].state = "deleted" => object[a].state = "deleted"

WorkInv(w) ==
    LET a == work[w].attempt IN
    work[w].step # "idle" =>
      /\ a \in Attempts /\ a <= upload.attempt
      /\ Current(a) => now >= upload.lease
      /\ rec[a] # None
      /\ work[w].version <= rec[a].version
      /\ work[w].version = rec[a].version => rec[a].state = "claimed"
      /\ work[w].step \in {"delete", "deleted"} => asset # a
      /\ work[w].step = "deleted" => object[a].state = "deleted"
      /\ work[w].step = "retained" => asset = a
      /\ work[w].step = "found" => work[w].seen \in Seen

SweepInv == sweep # None => Lost(sweep) /\ object[sweep].state # "none"

IInv ==
    /\ TypeOK
    /\ UploadInv
    /\ \A r \in Requests : RequestInv(r)
    /\ Owners
    /\ \A a \in Attempts : ObligationInv(a)
    /\ \A w \in Reconcilers : WorkInv(w)
    /\ SweepInv

-----------------------------------------------------------------------------
(* Types of the values the actions write. *)

(***************************************************************************)
(* A request at another step is a request.                                 *)
(***************************************************************************)
LEMMA RequestStep ==
    ASSUME NEW q \in Request, NEW s \in RequestSteps
    PROVE  [q EXCEPT !.step = s] \in Request
  BY Zenon DEF Request

(***************************************************************************)
(* The same, with the instant read after staging.                          *)
(***************************************************************************)
LEMMA RequestStepAt ==
    ASSUME NEW q \in Request, NEW s \in RequestSteps, NEW t \in Nat
    PROVE  [q EXCEPT !.step = s, !.at = t] \in Request
  BY Zenon DEF Request

(***************************************************************************)
(* A step of a request that changes nothing but its place.                 *)
(***************************************************************************)
LEMMA GotoType ==
    ASSUME TypeOK, NEW r \in Requests, NEW s \in RequestSteps, Goto(r, s)
    PROVE  req' \in [Requests -> Request]
  <1>1. [req[r] EXCEPT !.step = s] \in Request
    BY RequestStep, Zenon DEF TypeOK
  <1> QED BY <1>1, Zenon DEF TypeOK, Goto

(***************************************************************************)
(* A request that ends holds nothing.                                      *)
(***************************************************************************)
LEMMA LeaveType ==
    ASSUME TypeOK, NEW r \in Requests, Leave(r)
    PROVE  req' \in [Requests -> Request]
  <1>1. IdleRequest \in Request
    BY EvidenceConstants DEF IdleRequest, Request, RequestSteps
  <1> QED BY <1>1, Zenon DEF TypeOK, Leave

(***************************************************************************)
(* Storing and deleting an object.                                         *)
(***************************************************************************)
LEMMA ObjectType ==
    ASSUME TypeOK, NEW a \in Attempts
    PROVE  /\ Stored(a) \in [Attempts -> Object]
           /\ Deleted(a) \in [Attempts -> Object]
  BY Zenon DEF TypeOK, Stored, Deleted, Object

(***************************************************************************)
(* An obligation in another state.                                         *)
(***************************************************************************)
LEMMA ObligationType ==
    ASSUME NEW o \in Obligation, NEW s \in {"pending", "claimed", "retained", "deleted"},
           NEW v \in Nat, NEW l \in Nat \cup {None}
    PROVE  [o EXCEPT !.state = s, !.version = v, !.lease = l] \in Obligation
  BY Zenon DEF Obligation

(***************************************************************************)
(* A settled obligation.                                                   *)
(***************************************************************************)
LEMMA ResolvedType ==
    ASSUME TypeOK, NEW a \in Attempts, rec[a] # None, NEW s \in {"retained", "deleted"}
    PROVE  Resolved(a, s) \in [Attempts -> Obligation \cup {None}]
  <1>1. rec[a] \in Obligation /\ rec[a].version + 1 \in Nat
    BY DEF TypeOK, Obligation
  <1>2. [rec[a] EXCEPT !.state = s, !.version = rec[a].version + 1, !.lease = None]
          \in Obligation
    BY <1>1, ObligationType, Zenon
  <1> QED BY <1>2, Zenon DEF TypeOK, Resolved

(***************************************************************************)
(* The obligation a request writes.                                        *)
(***************************************************************************)
LEMMA NewObligationType ==
    ASSUME TypeOK, NEW r \in Requests
    PROVE  NewObligation(r) \in Obligation
  BY Zenon DEF TypeOK, NewObligation, Request, Obligation

(***************************************************************************)
(* A reconciler at another step.                                           *)
(***************************************************************************)
LEMMA WorkStep ==
    ASSUME NEW q \in Work, NEW s \in WorkSteps
    PROVE  [q EXCEPT !.step = s] \in Work
  BY Zenon DEF Work

(***************************************************************************)
(* The same, with the upload it read.                                      *)
(***************************************************************************)
LEMMA WorkStepSeen ==
    ASSUME NEW q \in Work, NEW s \in WorkSteps, NEW x \in Seen \cup {None}
    PROVE  [q EXCEPT !.step = s, !.seen = x] \in Work
  BY Zenon DEF Work

(***************************************************************************)
(* The upload after its attempt ended.                                     *)
(***************************************************************************)
LEMMA EndedType ==
    ASSUME TypeOK, NEW s \in UploadStates
    PROVE  Ended(s) \in Upload
  <1>1. upload.version + 1 \in Nat /\ upload \in Upload
    BY DEF TypeOK, Upload
  <1> QED BY <1>1, Zenon DEF Ended, Upload

(***************************************************************************)
(* An asset that exists references an attempt.                             *)
(***************************************************************************)
LEMMA NoneIsNoAttempt ==
    ASSUME TRUE
    PROVE  None \notin Attempts /\ Attempts \subseteq Nat
  BY EvidenceConstants DEF Attempts

(***************************************************************************)
(* An attempt that ended: its number stays and the version moves on.       *)
(***************************************************************************)
LEMMA EndedFields ==
    ASSUME TypeOK, NEW s \in UploadStates
    PROVE  /\ Ended(s).state = s /\ Ended(s).attempt = upload.attempt
           /\ Ended(s).version = upload.version + 1
  BY Zenon DEF TypeOK, Upload, Ended

(***************************************************************************)
(* What settling an obligation changes.                                    *)
(***************************************************************************)
LEMMA ResolvedFields ==
    ASSUME TypeOK, NEW a \in Attempts, rec[a] # None, NEW s \in {"retained", "deleted"}
    PROVE  /\ \A b \in Attempts \ {a} : Resolved(a, s)[b] = rec[b]
           /\ Resolved(a, s)[a] # None /\ Resolved(a, s)[a].state = s
           /\ Resolved(a, s)[a].version = rec[a].version + 1
           /\ Resolved(a, s)[a].available = rec[a].available
  <1>1. rec[a] \in Obligation /\ rec[a].version + 1 \in Nat
    BY DEF TypeOK, Obligation
  <1>2. Resolved(a, s)[a] \in Obligation \cup {None}
    BY ResolvedType, Zenon
  <1>3. Resolved(a, s)[a] =
          [rec[a] EXCEPT !.state = s, !.version = rec[a].version + 1, !.lease = None]
    BY Zenon DEF TypeOK, Resolved
  <1>4. [rec[a] EXCEPT !.state = s, !.version = rec[a].version + 1, !.lease = None]
          \in Obligation
    BY <1>1, ObligationType, Zenon
  <1>5. \A b \in Attempts \ {a} : Resolved(a, s)[b] = rec[b]
    BY Zenon DEF TypeOK, Resolved
  <1> QED BY <1>1, <1>3, <1>4, <1>5, EvidenceConstants, Zenon DEF Obligation

-----------------------------------------------------------------------------
(* Each action keeps the invariant: the request. *)

(***************************************************************************)
(* A new attempt: it takes the next number, so nothing yet refers to it,   *)
(* and whoever holds an older one loses the fence.                         *)
(***************************************************************************)
LEMMA BeginKeeps ==
    ASSUME IInv, NEW r \in Requests, Begin(r)
    PROVE  IInv'
  <1> USE EvidenceConstants DEF IInv, TypeOK, Begin, At, Unlocked, Claimable
  <1>a. /\ upload'.state = "uploading" /\ upload'.version = upload.version + 1
        /\ upload'.attempt = upload.attempt + 1 /\ upload'.attempt \in Attempts
        /\ upload'.lease \in Nat /\ upload'.lease <= now + AttemptTimeout
        /\ upload.version \in Nat /\ upload.attempt \in Nat
    <2>1. /\ upload \in Upload /\ now \in Nat /\ upload.attempt < MaxAttempts
          /\ upload' = ClaimAttempt
      BY Zenon
    <2> HIDE DEF IInv, TypeOK, Begin
    <2> QED BY <2>1 DEF Upload, ClaimAttempt, Attempts
  <1>b. /\ req'[r] = [step |-> "staging", attempt |-> upload'.attempt,
                     version |-> upload'.version, lease |-> upload'.lease, at |-> 0]
        /\ \A s \in Requests \ {r} : req'[s] = req[s]
    BY Zenon
  <1>c. asset = None
    BY Zenon DEF UploadInv
  <1>1. TypeOK'
    <2>1. upload' \in Upload
      BY DEF Upload, UploadStates, UploadInv, ClaimAttempt
    <2>2. req' \in [Requests -> Request]
      BY DEF Request, RequestSteps, Upload, UploadInv, ClaimAttempt
    <2> QED BY <2>1, <2>2, Zenon
  <1>2. UploadInv'
    <2>1. object[upload'.attempt].state = "none"
      BY <1>a, SMTT(20) DEF UploadInv
    <2> QED BY <1>a, <1>c, <2>1, NoneIsNoAttempt DEF UploadInv
  <1>3. ASSUME NEW s \in Requests PROVE RequestInv(s)'
    BY <1>a, <1>b, <1>c DEF RequestInv, UploadInv, Current, Request
  <1>4. Owners'
    BY <1>a, <1>b DEF Owners, RequestInv
  <1>5. ASSUME NEW b \in Attempts PROVE ObligationInv(b)'
    BY <1>a, <1>c DEF ObligationInv, UploadInv, Current
  <1>6. ASSUME NEW v \in Reconcilers PROVE WorkInv(v)'
    BY <1>a, <1>c, NoneIsNoAttempt DEF WorkInv, Current
  <1>7. SweepInv'
    <2>1. UNCHANGED <<sweep, object, asset>>
      BY Zenon
    <2>2. sweep # None => /\ sweep \in Attempts /\ sweep <= upload.attempt
                          /\ asset # sweep /\ object[sweep].state # "none"
      BY Zenon DEF SweepInv, Lost
    <2> HIDE DEF IInv, TypeOK, Begin
    <2> QED BY <1>a, <2>1, <2>2 DEF SweepInv, Lost, Current, Attempts
  <1> QED BY <1>1, <1>2, <1>3, <1>4, <1>5, <1>6, <1>7, Zenon

(***************************************************************************)
(* The object of the attempt is written; its lease was set no later than   *)
(* now, which is what the age of an orphan is compared with.               *)
(***************************************************************************)
LEMMA StageKeeps ==
    ASSUME IInv, NEW r \in Requests, Stage(r)
    PROVE  IInv'
  <1> USE EvidenceConstants DEF IInv, TypeOK, Stage, At, Stored
  <1>1. TypeOK'
    <2>1. req[r].attempt \in Attempts
      BY Zenon DEF RequestInv
    <2>2. object' \in [Attempts -> Object]
      BY <2>1, ObjectType, Zenon
    <2>3. [req[r] EXCEPT !.step = "staged", !.at = now] \in Request
      BY RequestStepAt, Zenon DEF RequestSteps
    <2>4. req' \in [Requests -> Request]
      BY <2>3, Zenon
    <2> QED BY <2>1, <2>2, <2>3, <2>4, Zenon
  <1>2. UploadInv'
    BY SMTT(20) DEF UploadInv, RequestInv, Current, Upload, Object, Request, Obligation
  <1>3. ASSUME NEW s \in Requests PROVE RequestInv(s)'
    BY DEF RequestInv, Owners, Current, Object, Request
  <1>4. Owners'
    BY DEF Owners, Request
  <1>5. ASSUME NEW b \in Attempts PROVE ObligationInv(b)'
    BY DEF ObligationInv, RequestInv, UploadInv, Current, Upload, Object,
       Request
  <1>6. ASSUME NEW v \in Reconcilers PROVE WorkInv(v)'
    BY DEF WorkInv, RequestInv, ObligationInv, Current, Object, Work,
       Obligation
  <1>7. SweepInv'
    BY DEF SweepInv, Lost, RequestInv, WorkInv, Current, Object
  <1> QED BY <1>1, <1>2, <1>3, <1>4, <1>5, <1>6, <1>7, Zenon

(***************************************************************************)
(* No object was written.                                                  *)
(***************************************************************************)
LEMMA StageFailsKeeps ==
    ASSUME IInv, NEW r \in Requests, StageFails(r)
    PROVE  IInv'
  <1> USE EvidenceConstants DEF IInv, TypeOK, StageFails, At, Goto
  <1>1. TypeOK'
    <2>1. req' \in [Requests -> Request]
      BY GotoType, Zenon DEF RequestSteps
    <2> QED BY <2>1, Zenon
  <1>2. UploadInv'
    BY Zenon DEF UploadInv
  <1>3. ASSUME NEW s \in Requests PROVE RequestInv(s)'
    BY DEF RequestInv, Current, Request
  <1>4. Owners'
    BY DEF Owners, Request
  <1>5. ASSUME NEW b \in Attempts PROVE ObligationInv(b)'
    BY Zenon DEF ObligationInv, Current
  <1>6. ASSUME NEW v \in Reconcilers PROVE WorkInv(v)'
    BY Zenon DEF WorkInv, Current
  <1>7. SweepInv'
    BY Zenon DEF SweepInv, Lost, Current
  <1> QED BY <1>1, <1>2, <1>3, <1>4, <1>5, <1>6, <1>7, Zenon

(***************************************************************************)
(* An object without an obligation is left behind.                         *)
(***************************************************************************)
LEMMA StageLeavesKeeps ==
    ASSUME IInv, NEW r \in Requests, StageLeaves(r)
    PROVE  IInv'
  <1> USE EvidenceConstants DEF IInv, TypeOK, StageLeaves, At, Stored
  <1>1. TypeOK'
    <2>1. req[r].attempt \in Attempts
      BY Zenon DEF RequestInv
    <2>2. object' \in [Attempts -> Object]
      BY <2>1, ObjectType, Zenon
    <2>3. [req[r] EXCEPT !.step = "orphan", !.at = now] \in Request
      BY RequestStepAt, Zenon DEF RequestSteps
    <2>4. req' \in [Requests -> Request]
      BY <2>3, Zenon
    <2> QED BY <2>1, <2>2, <2>3, <2>4, Zenon
  <1>2. UploadInv'
    BY SMTT(20) DEF UploadInv, RequestInv, Current, Upload, Object, Request, Obligation
  <1>3. ASSUME NEW s \in Requests PROVE RequestInv(s)'
    BY DEF RequestInv, Owners, Current, Object, Request
  <1>4. Owners'
    BY DEF Owners, Request
  <1>5. ASSUME NEW b \in Attempts PROVE ObligationInv(b)'
    BY DEF ObligationInv, RequestInv, UploadInv, Current, Upload, Object,
       Request
  <1>6. ASSUME NEW v \in Reconcilers PROVE WorkInv(v)'
    BY DEF WorkInv, RequestInv, ObligationInv, Current, Object, Work,
       Obligation
  <1>7. SweepInv'
    BY DEF SweepInv, Lost, RequestInv, WorkInv, Current, Object
  <1> QED BY <1>1, <1>2, <1>3, <1>4, <1>5, <1>6, <1>7, Zenon

(***************************************************************************)
(* The obligation is due at the end of the attempt, not before.            *)
(***************************************************************************)
LEMMA RecordKeeps ==
    ASSUME IInv, NEW r \in Requests, Record(r)
    PROVE  IInv'
  <1> USE EvidenceConstants DEF IInv, TypeOK, Record, At, NewObligation, Goto
  <1>1. TypeOK'
    <2>1. req[r].attempt \in Attempts
      BY Zenon DEF RequestInv
    <2>2. rec' \in [Attempts -> Obligation \cup {None}]
      BY <2>1, NewObligationType, Zenon
    <2>3. req' \in [Requests -> Request]
      BY GotoType, Zenon DEF RequestSteps
    <2> QED BY <2>1, <2>2, <2>3, Zenon
  <1>2. UploadInv'
    BY DEF UploadInv, RequestInv, Current, Upload, Object, Request, Obligation
  <1>3. ASSUME NEW s \in Requests PROVE RequestInv(s)'
    BY DEF RequestInv, Owners, Current, Object, Request
  <1>4. Owners'
    BY DEF Owners, Request
  <1>5. ASSUME NEW b \in Attempts PROVE ObligationInv(b)'
    BY SMTT(20) DEF ObligationInv, RequestInv, UploadInv, Current, Upload, Object,
       Request
  <1>6. ASSUME NEW v \in Reconcilers PROVE WorkInv(v)'
    BY DEF WorkInv, RequestInv, ObligationInv, Current, Object, Work,
       Obligation
  <1>7. SweepInv'
    BY Zenon DEF SweepInv, Lost, Current
  <1> QED BY <1>1, <1>2, <1>3, <1>4, <1>5, <1>6, <1>7, Zenon

(***************************************************************************)
(* The obligation may or may not have been written; the request only       *)
(* deletes its own object from here on.                                    *)
(***************************************************************************)
LEMMA RecordFailsKeeps ==
    ASSUME IInv, NEW r \in Requests, RecordFails(r)
    PROVE  IInv'
  <1> USE EvidenceConstants DEF IInv, TypeOK, RecordFails, At, NewObligation, Goto
  <1>a. req[r].attempt \in Attempts /\ rec[req[r].attempt] = None
    BY Zenon DEF RequestInv
  <1>b. \A b \in Attempts \ {req[r].attempt} : rec'[b] = rec[b]
    BY <1>a, Zenon
  <1>1. TypeOK'
    <2>1. rec' \in [Attempts -> Obligation \cup {None}]
      BY <1>a, NewObligationType
    <2>2. req' \in [Requests -> Request]
      BY GotoType, Zenon DEF RequestSteps
    <2> QED BY <2>1, <2>2, Zenon
  <1>2. UploadInv'
    BY DEF UploadInv, RequestInv, Current, Upload, Object, Request, Obligation
  <1>3. ASSUME NEW s \in Requests PROVE RequestInv(s)'
    BY DEF RequestInv, Owners, Current, Object, Request
  <1>4. Owners'
    BY DEF Owners, Request
  <1>5. ASSUME NEW b \in Attempts PROVE ObligationInv(b)'
    BY DEF ObligationInv, RequestInv, UploadInv, Current, Upload, Object,
       Request
  <1>6. ASSUME NEW v \in Reconcilers PROVE WorkInv(v)'
    BY <1>a, <1>b DEF WorkInv, Current, Work
  <1>7. SweepInv'
    BY Zenon DEF SweepInv, Lost, Current
  <1> QED BY <1>1, <1>2, <1>3, <1>4, <1>5, <1>6, <1>7, Zenon

(***************************************************************************)
(* The acceptance starts inside the window of its attempt.                 *)
(***************************************************************************)
LEMMA AcceptCheckedKeeps ==
    ASSUME IInv, NEW r \in Requests, AcceptChecked(r)
    PROVE  IInv'
  <1> USE EvidenceConstants DEF IInv, TypeOK, AcceptChecked, At, Unlocked, Acceptable, Goto
  <1>1. TypeOK'
    <2>1. req' \in [Requests -> Request]
      BY GotoType, Zenon DEF RequestSteps
    <2> QED BY <2>1, Zenon
  <1>2. UploadInv'
    BY Zenon DEF UploadInv
  <1>3. ASSUME NEW s \in Requests PROVE RequestInv(s)'
    BY DEF RequestInv, Current, Request
  <1>4. Owners'
    BY DEF Owners, Request
  <1>5. ASSUME NEW b \in Attempts PROVE ObligationInv(b)'
    BY Zenon DEF ObligationInv, Current
  <1>6. ASSUME NEW v \in Reconcilers PROVE WorkInv(v)'
    BY Zenon DEF WorkInv, Current
  <1>7. SweepInv'
    BY Zenon DEF SweepInv, Lost, Current
  <1> QED BY <1>1, <1>2, <1>3, <1>4, <1>5, <1>6, <1>7, Zenon

(***************************************************************************)
(* The acceptance: the window is still open, so no obligation of the       *)
(* attempt was claimed, nobody set out to delete the object, and it is     *)
(* there.                                                                  *)
(***************************************************************************)
LEMMA AcceptCommitsKeeps ==
    ASSUME IInv, NEW r \in Requests, AcceptCommits(r)
    PROVE  IInv'
  <1> USE EvidenceConstants DEF IInv, TypeOK, AcceptCommits, At, Retainable, Leave, IdleRequest
  <1>a. /\ req[r].attempt \in Attempts /\ Current(req[r].attempt)
        /\ now < upload.lease /\ object[req[r].attempt].state = "stored"
        /\ rec[req[r].attempt] # None /\ asset = None
        /\ upload.lease \in Nat
    BY Zenon DEF RequestInv, Current, UploadInv
  <1>b. /\ upload'.state = "accepted" /\ upload'.attempt = upload.attempt
        /\ upload'.version = upload.version + 1
    BY EndedFields, Zenon DEF UploadStates
  <1>c. /\ \A b \in Attempts \ {req[r].attempt} : rec'[b] = rec[b]
        /\ rec'[req[r].attempt] # None
        /\ rec'[req[r].attempt].state = "retained"
        /\ rec'[req[r].attempt].version = rec[req[r].attempt].version + 1
        /\ rec'[req[r].attempt].available = rec[req[r].attempt].available
    BY <1>a, ResolvedFields, Zenon
  <1>1. TypeOK'
    <2>1. upload' \in Upload
      BY EndedType, Zenon DEF UploadStates
    <2>2. asset' \in Attempts
      BY <1>a, Zenon
    <2>3. rec' \in [Attempts -> Obligation \cup {None}]
      BY <1>a, ResolvedType, Zenon
    <2>4. req' \in [Requests -> Request]
      BY LeaveType, Zenon
    <2> QED BY <2>1, <2>2, <2>3, <2>4, Zenon
  <1>2. UploadInv'
    BY <1>a, <1>b, <1>c, NoneIsNoAttempt, SMTT(20) DEF UploadInv, Current
  <1>3. ASSUME NEW s \in Requests PROVE RequestInv(s)'
    BY <1>a, <1>b, <1>c DEF RequestInv, Owners, Current, Upload, Request
  <1>4. Owners'
    BY SMTT(20) DEF Owners
  <1>5. ASSUME NEW b \in Attempts PROVE ObligationInv(b)'
    BY <1>a, <1>b, <1>c, NoneIsNoAttempt, SMTT(20) DEF ObligationInv, Current
  <1>6. ASSUME NEW v \in Reconcilers PROVE WorkInv(v)'
    <2>1. work[v].step # "idle" => work[v].attempt # req[r].attempt
      BY <1>a DEF WorkInv, Current
    <2> QED BY <1>a, <1>b, <1>c, <2>1, NoneIsNoAttempt DEF WorkInv, Current
  <1>7. SweepInv'
    <2>1. sweep # req[r].attempt
      BY <1>a, NoneIsNoAttempt DEF SweepInv, Lost, Current
    <2> QED BY <1>a, <1>b, <2>1, Zenon DEF SweepInv, Lost, Current
  <1> QED BY <1>1, <1>2, <1>3, <1>4, <1>5, <1>6, <1>7, Zenon

(***************************************************************************)
(* A request that does not know its outcome leaves object and obligation   *)
(* to the reconciler.                                                      *)
(***************************************************************************)
LEMMA AcceptUnknownKeeps ==
    ASSUME IInv, NEW r \in Requests, AcceptUnknown(r)
    PROVE  IInv'
  <1> USE EvidenceConstants DEF IInv, TypeOK, AcceptUnknown, At, Leave, IdleRequest
  <1>1. TypeOK'
    <2>1. req' \in [Requests -> Request]
      BY LeaveType, Zenon
    <2> QED BY <2>1, Zenon
  <1>2. UploadInv'
    BY Zenon DEF UploadInv
  <1>3. ASSUME NEW s \in Requests PROVE RequestInv(s)'
    BY DEF RequestInv, Current, Request
  <1>4. Owners'
    BY Zenon DEF Owners
  <1>5. ASSUME NEW b \in Attempts PROVE ObligationInv(b)'
    BY Zenon DEF ObligationInv, Current
  <1>6. ASSUME NEW v \in Reconcilers PROVE WorkInv(v)'
    BY Zenon DEF WorkInv, Current
  <1>7. SweepInv'
    BY Zenon DEF SweepInv, Lost, Current
  <1> QED BY <1>1, <1>2, <1>3, <1>4, <1>5, <1>6, <1>7, Zenon

(***************************************************************************)
(* A refused acceptance goes on to delete its own object.                  *)
(***************************************************************************)
LEMMA AcceptFailsKeeps ==
    ASSUME IInv, NEW r \in Requests, AcceptFails(r)
    PROVE  IInv'
  <1> USE EvidenceConstants DEF IInv, TypeOK, AcceptFails, At, Goto
  <1>1. TypeOK'
    <2>1. req' \in [Requests -> Request]
      BY GotoType, Zenon DEF RequestSteps
    <2> QED BY <2>1, Zenon
  <1>2. UploadInv'
    BY Zenon DEF UploadInv
  <1>3. ASSUME NEW s \in Requests PROVE RequestInv(s)'
    BY DEF RequestInv, Current, Request
  <1>4. Owners'
    BY DEF Owners, Request
  <1>5. ASSUME NEW b \in Attempts PROVE ObligationInv(b)'
    BY Zenon DEF ObligationInv, Current
  <1>6. ASSUME NEW v \in Reconcilers PROVE WorkInv(v)'
    BY Zenon DEF WorkInv, Current
  <1>7. SweepInv'
    BY Zenon DEF SweepInv, Lost, Current
  <1> QED BY <1>1, <1>2, <1>3, <1>4, <1>5, <1>6, <1>7, Zenon

(***************************************************************************)
(* A request deletes the object of an attempt that only it can accept.     *)
(***************************************************************************)
LEMMA DiscardKeeps ==
    ASSUME IInv, NEW r \in Requests, Discard(r)
    PROVE  IInv'
  <1> USE EvidenceConstants DEF IInv, TypeOK, Discard, At, Deleted, Goto
  <1>1. TypeOK'
    <2>1. req[r].attempt \in Attempts
      BY Zenon DEF RequestInv
    <2>2. object' \in [Attempts -> Object]
      BY <2>1, ObjectType, Zenon
    <2>3. req' \in [Requests -> Request]
      BY GotoType, Zenon DEF RequestSteps
    <2> QED BY <2>1, <2>2, <2>3, Zenon
  <1>2. UploadInv'
    BY DEF UploadInv, RequestInv, Current, Upload, Object, Request, Obligation
  <1>3. ASSUME NEW s \in Requests PROVE RequestInv(s)'
    BY DEF RequestInv, Owners, Current, Object, Request
  <1>4. Owners'
    BY DEF Owners, Request
  <1>5. ASSUME NEW b \in Attempts PROVE ObligationInv(b)'
    BY Zenon DEF ObligationInv, RequestInv, UploadInv, Current, Upload, Object,
       Request
  <1>6. ASSUME NEW v \in Reconcilers PROVE WorkInv(v)'
    BY Zenon DEF WorkInv, RequestInv, ObligationInv, Current, Object, Work,
       Obligation
  <1>7. SweepInv'
    BY Zenon DEF SweepInv, Lost, RequestInv, WorkInv, Current, Object
  <1> QED BY <1>1, <1>2, <1>3, <1>4, <1>5, <1>6, <1>7, Zenon

(***************************************************************************)
(* The same with the answer lost.                                          *)
(***************************************************************************)
LEMMA DiscardFailsKeeps ==
    ASSUME IInv, NEW r \in Requests, DiscardFails(r)
    PROVE  IInv'
  <1> USE EvidenceConstants DEF IInv, TypeOK, DiscardFails, At, Deleted, AfterLostDiscard, Goto
  <1>1. TypeOK'
    <2>1. req[r].attempt \in Attempts
      BY Zenon DEF RequestInv
    <2>2. object' \in [Attempts -> Object]
      BY <2>1, ObjectType
    <2>3. req' \in [Requests -> Request]
      BY GotoType, Zenon DEF RequestSteps
    <2> QED BY <2>1, <2>2, <2>3, Zenon
  <1>2. UploadInv'
    BY SMTT(20) DEF UploadInv, RequestInv, Current, Upload, Object, Request, Obligation
  <1>3. ASSUME NEW s \in Requests PROVE RequestInv(s)'
    BY DEF RequestInv, Owners, Current, Object, Request
  <1>4. Owners'
    BY DEF Owners, Request
  <1>5. ASSUME NEW b \in Attempts PROVE ObligationInv(b)'
    BY SMTT(20) DEF ObligationInv, RequestInv, UploadInv, Current, Upload, Object,
       Request
  <1>6. ASSUME NEW v \in Reconcilers PROVE WorkInv(v)'
    BY DEF WorkInv, RequestInv, ObligationInv, Current, Object, Work,
       Obligation
  <1>7. SweepInv'
    BY DEF SweepInv, Lost, RequestInv, WorkInv, Current, Object
  <1> QED BY <1>1, <1>2, <1>3, <1>4, <1>5, <1>6, <1>7, Zenon

(***************************************************************************)
(* The request settles its obligation after the deletion.                  *)
(***************************************************************************)
LEMMA ResolveDiscardedKeeps ==
    ASSUME IInv, NEW r \in Requests, ResolveDiscarded(r)
    PROVE  IInv'
  <1> USE EvidenceConstants DEF IInv, TypeOK, ResolveDiscarded, At, Open, Goto
  <1>a. req[r].attempt \in Attempts /\ object[req[r].attempt].state = "deleted"
        /\ asset # req[r].attempt
    BY Zenon DEF RequestInv
  <1>b. \/ rec' = rec
        \/ /\ Open(req[r].attempt) /\ rec[req[r].attempt] # None
           /\ \A b \in Attempts \ {req[r].attempt} : rec'[b] = rec[b]
           /\ rec'[req[r].attempt] # None
           /\ rec'[req[r].attempt].state = "deleted"
           /\ rec'[req[r].attempt].version = rec[req[r].attempt].version + 1
           /\ rec'[req[r].attempt].available = rec[req[r].attempt].available
    BY <1>a, ResolvedFields
  <1>1. TypeOK'
    <2>1. rec' \in [Attempts -> Obligation \cup {None}]
      BY <1>a, ResolvedType, Zenon
    <2>2. req' \in [Requests -> Request]
      BY GotoType, Zenon DEF RequestSteps
    <2> QED BY <2>1, <2>2, Zenon
  <1>2. UploadInv'
    BY <1>a, <1>b, SMTT(20) DEF UploadInv
  <1>3. ASSUME NEW s \in Requests PROVE RequestInv(s)'
    BY <1>a, <1>b DEF RequestInv, Owners, Current, Request
  <1>4. Owners'
    BY DEF Owners
  <1>5. ASSUME NEW b \in Attempts PROVE ObligationInv(b)'
    BY <1>a, <1>b, SMTT(20) DEF ObligationInv, Current
  <1>6. ASSUME NEW v \in Reconcilers PROVE WorkInv(v)'
    BY <1>a, <1>b DEF WorkInv, Current, Work, Obligation
  <1>7. SweepInv'
    BY Zenon DEF SweepInv, Lost, Current
  <1> QED BY <1>1, <1>2, <1>3, <1>4, <1>5, <1>6, <1>7, Zenon

(***************************************************************************)
(* The obligation of an object that was left behind.                       *)
(***************************************************************************)
LEMMA RecordOrphanKeeps ==
    ASSUME IInv, NEW r \in Requests, RecordOrphan(r)
    PROVE  IInv'
  <1> USE EvidenceConstants DEF IInv, TypeOK, RecordOrphan, At, NewObligation, Goto, Leave,
                            IdleRequest
  <1>1. TypeOK'
    <2>1. req[r].attempt \in Attempts
      BY Zenon DEF RequestInv
    <2>2. rec' \in [Attempts -> Obligation \cup {None}]
      BY <2>1, NewObligationType
    <2>3. req' \in [Requests -> Request]
      BY GotoType, LeaveType, Zenon DEF RequestSteps
    <2> QED BY <2>1, <2>2, <2>3, Zenon
  <1>2. UploadInv'
    BY DEF UploadInv, RequestInv, Current, Upload, Object, Request, Obligation
  <1>3. ASSUME NEW s \in Requests PROVE RequestInv(s)'
    BY DEF RequestInv, Owners, Current, Object, Request
  <1>4. Owners'
    BY DEF Owners, Request
  <1>5. ASSUME NEW b \in Attempts PROVE ObligationInv(b)'
    BY SMTT(20) DEF ObligationInv, RequestInv, UploadInv, Current, Upload, Object,
       Request
  <1>6. ASSUME NEW v \in Reconcilers PROVE WorkInv(v)'
    BY SMTT(20) DEF WorkInv, RequestInv, ObligationInv, Current, Object, Work,
       Obligation
  <1>7. SweepInv'
    BY Zenon DEF SweepInv, Lost, Current
  <1> QED BY <1>1, <1>2, <1>3, <1>4, <1>5, <1>6, <1>7, Zenon

(***************************************************************************)
(* The attempt ends, if the request still holds it.                        *)
(***************************************************************************)
LEMMA RecordFailureKeeps ==
    ASSUME IInv, NEW r \in Requests, RecordFailure(r)
    PROVE  IInv'
  <1> USE EvidenceConstants DEF IInv, TypeOK, RecordFailure, At, Unlocked, Closings, Leave,
                            IdleRequest
  <1>a. \/ upload' = upload
        \/ /\ Current(req[r].attempt) /\ asset = None
           /\ upload'.state \in {"rejected", "issued", "expired"}
           /\ upload'.attempt = upload.attempt /\ upload'.version = upload.version + 1
    BY EndedFields, Zenon DEF UploadStates, RequestInv, UploadInv, Current
  <1>b. upload.version \in Nat
    BY Zenon DEF Upload
  <1>1. TypeOK'
    <2>1. upload' \in Upload
      BY EndedType, Zenon DEF UploadStates
    <2>2. req' \in [Requests -> Request]
      BY LeaveType, Zenon
    <2> QED BY <2>1, <2>2, Zenon
  <1>2. UploadInv'
    BY <1>a, Zenon DEF UploadInv
  <1>3. ASSUME NEW s \in Requests PROVE RequestInv(s)'
    BY <1>a, <1>b DEF RequestInv, Current, Request
  <1>4. Owners'
    BY DEF Owners
  <1>5. ASSUME NEW b \in Attempts PROVE ObligationInv(b)'
    BY <1>a, Zenon DEF ObligationInv, Current
  <1>6. ASSUME NEW v \in Reconcilers PROVE WorkInv(v)'
    BY <1>a, Zenon DEF WorkInv, Current
  <1>7. SweepInv'
    BY <1>a, Zenon DEF SweepInv, Lost, Current
  <1> QED BY <1>1, <1>2, <1>3, <1>4, <1>5, <1>6, <1>7, Zenon

(***************************************************************************)
(* A request that dies leaves only durable state.                          *)
(***************************************************************************)
LEMMA RequestCrashKeeps ==
    ASSUME IInv, NEW r \in Requests, RequestCrash(r)
    PROVE  IInv'
  <1> USE EvidenceConstants DEF IInv, TypeOK, RequestCrash, At, Leave, IdleRequest
  <1>1. TypeOK'
    <2>1. req' \in [Requests -> Request]
      BY LeaveType, Zenon
    <2> QED BY <2>1, Zenon
  <1>2. UploadInv'
    BY Zenon DEF UploadInv
  <1>3. ASSUME NEW s \in Requests PROVE RequestInv(s)'
    BY DEF RequestInv, Current, Request
  <1>4. Owners'
    BY DEF Owners
  <1>5. ASSUME NEW b \in Attempts PROVE ObligationInv(b)'
    BY Zenon DEF ObligationInv, Current
  <1>6. ASSUME NEW v \in Reconcilers PROVE WorkInv(v)'
    BY Zenon DEF WorkInv, Current
  <1>7. SweepInv'
    BY Zenon DEF SweepInv, Lost, Current
  <1> QED BY <1>1, <1>2, <1>3, <1>4, <1>5, <1>6, <1>7, Zenon

-----------------------------------------------------------------------------
(* The reconciler and the sweep. *)

(***************************************************************************)
(* An obligation is claimed when it is due, which is after the window of   *)
(* its attempt.                                                            *)
(***************************************************************************)
LEMMA ClaimReconciliationKeeps ==
    ASSUME IInv, NEW w \in Reconcilers, ClaimReconciliation(w)
    PROVE  IInv'
  <1> USE EvidenceConstants DEF IInv, TypeOK, ClaimReconciliation, Ready, IdleWork
  <1>a. \A b \in Attempts : rec[b] # None <=> rec'[b] # None
    BY DEF Obligation
  <1>1. TypeOK'
    <2>1. rec' \in [Attempts -> Obligation \cup {None}]
      BY DEF Obligation
    <2>2. work' \in [Reconcilers -> Work]
      BY SMTT(20) DEF Work, WorkSteps, Obligation
    <2> QED BY <2>1, <2>2, Zenon
  <1>2. UploadInv'
    BY <1>a, Zenon DEF UploadInv
  <1>3. ASSUME NEW s \in Requests PROVE RequestInv(s)'
    BY DEF RequestInv, UploadInv, WorkInv, SweepInv, Lost, Current, Object,
       Upload
  <1>4. Owners'
    BY Zenon DEF Owners
  <1>5. ASSUME NEW b \in Attempts PROVE ObligationInv(b)'
    BY SMTT(20) DEF ObligationInv, UploadInv, WorkInv, SweepInv, Lost, Current, Object,
       Obligation
  <1>6. ASSUME NEW v \in Reconcilers PROVE WorkInv(v)'
    BY DEF WorkInv, RequestInv, ObligationInv, Current, Object, Work,
       Obligation
  <1>7. SweepInv'
    BY Zenon DEF SweepInv, Lost, Current
  <1> QED BY <1>1, <1>2, <1>3, <1>4, <1>5, <1>6, <1>7, Zenon

(***************************************************************************)
(* The reconciler reads the upload.                                        *)
(***************************************************************************)
LEMMA FindUploadKeeps ==
    ASSUME IInv, NEW w \in Reconcilers, FindUpload(w)
    PROVE  IInv'
  <1> USE EvidenceConstants DEF IInv, TypeOK, FindUpload
  <1>a. [state |-> upload.state, attempt |-> upload.attempt] \in Seen
    BY Zenon DEF Upload, Seen
  <1>b. /\ work'[w].step = "found" /\ work'[w].attempt = work[w].attempt
        /\ work'[w].version = work[w].version /\ work'[w].seen \in Seen
        /\ \A v \in Reconcilers \ {w} : work'[v] = work[v]
    BY <1>a DEF Work
  <1>1. TypeOK'
    <2>1. [work[w] EXCEPT !.step = "found",
                         !.seen = [state |-> upload.state, attempt |-> upload.attempt]] \in Work
      BY <1>a, WorkStepSeen, Zenon DEF WorkSteps
    <2>2. work' \in [Reconcilers -> Work]
      BY <2>1, Zenon
    <2> QED BY <2>1, <2>2, Zenon
  <1>2. UploadInv'
    BY Zenon DEF UploadInv
  <1>3. ASSUME NEW s \in Requests PROVE RequestInv(s)'
    BY Zenon DEF RequestInv, Current
  <1>4. Owners'
    BY Zenon DEF Owners
  <1>5. ASSUME NEW b \in Attempts PROVE ObligationInv(b)'
    BY Zenon DEF ObligationInv, Current
  <1>6. ASSUME NEW v \in Reconcilers PROVE WorkInv(v)'
    BY <1>b DEF WorkInv, Current
  <1>7. SweepInv'
    BY Zenon DEF SweepInv, Lost, Current
  <1> QED BY <1>1, <1>2, <1>3, <1>4, <1>5, <1>6, <1>7, Zenon

(***************************************************************************)
(* It decides; without an asset the object of a closed attempt can go.     *)
(***************************************************************************)
LEMMA DetermineKeeps ==
    ASSUME IInv, NEW w \in Reconcilers, Determine(w)
    PROVE  IInv'
  <1> USE EvidenceConstants DEF IInv, TypeOK, Determine
  <1>b. /\ work'[w].step = Disposition(w) /\ work'[w].attempt = work[w].attempt
        /\ work'[w].version = work[w].version
        /\ \A v \in Reconcilers \ {w} : work'[v] = work[v]
    BY DEF Work
  <1>c. /\ Disposition(w) \in {"delete", "retained", "retry"}
        /\ Disposition(w) = "delete" => asset = None
        /\ Disposition(w) = "retained" => asset = work[w].attempt
    BY Zenon DEF Disposition
  <1>1. TypeOK'
    <2>1. [work[w] EXCEPT !.step = Disposition(w), !.seen = None] \in Work
      BY WorkStepSeen, Zenon DEF WorkSteps, Disposition
    <2>2. work' \in [Reconcilers -> Work]
      BY <2>1, Zenon
    <2> QED BY <2>1, <2>2, Zenon
  <1>2. UploadInv'
    BY Zenon DEF UploadInv
  <1>3. ASSUME NEW s \in Requests PROVE RequestInv(s)'
    BY Zenon DEF RequestInv, Current
  <1>4. Owners'
    BY Zenon DEF Owners
  <1>5. ASSUME NEW b \in Attempts PROVE ObligationInv(b)'
    BY Zenon DEF ObligationInv, Current
  <1>6. ASSUME NEW v \in Reconcilers PROVE WorkInv(v)'
    BY <1>b, <1>c, NoneIsNoAttempt DEF WorkInv, Current
  <1>7. SweepInv'
    BY Zenon DEF SweepInv, Lost, Current
  <1> QED BY <1>1, <1>2, <1>3, <1>4, <1>5, <1>6, <1>7, Zenon

(***************************************************************************)
(* The deletion: the attempt is lost for good, so what was read before     *)
(* still holds.                                                            *)
(***************************************************************************)
LEMMA DeleteObjectKeeps ==
    ASSUME IInv, NEW w \in Reconcilers, DeleteObject(w)
    PROVE  IInv'
  <1> USE EvidenceConstants DEF IInv, TypeOK, DeleteObject, Deleted
  <1>1. TypeOK'
    <2>1. work[w].attempt \in Attempts
      BY Zenon DEF WorkInv
    <2>2. object' \in [Attempts -> Object]
      BY <2>1, ObjectType, Zenon
    <2>3. [work[w] EXCEPT !.step = "deleted"] \in Work
      BY WorkStep, Zenon DEF WorkSteps
    <2>4. work' \in [Reconcilers -> Work]
      BY <2>3, Zenon
    <2> QED BY <2>1, <2>2, <2>3, <2>4, Zenon
  <1>2. UploadInv'
    BY SMTT(20) DEF UploadInv, WorkInv, SweepInv, Lost, Current, Upload, Object
  <1>3. ASSUME NEW s \in Requests PROVE RequestInv(s)'
    BY DEF RequestInv, UploadInv, WorkInv, SweepInv, Lost, Current, Object,
       Upload
  <1>4. Owners'
    BY Zenon DEF Owners
  <1>5. ASSUME NEW b \in Attempts PROVE ObligationInv(b)'
    BY SMTT(20) DEF ObligationInv, UploadInv, WorkInv, SweepInv, Lost, Current, Object,
       Obligation
  <1>6. ASSUME NEW v \in Reconcilers PROVE WorkInv(v)'
    BY SMTT(20) DEF WorkInv, RequestInv, ObligationInv, Current, Object, Work,
       Obligation
  <1>7. SweepInv'
    BY DEF SweepInv, Lost, RequestInv, WorkInv, Current, Object
  <1> QED BY <1>1, <1>2, <1>3, <1>4, <1>5, <1>6, <1>7, Zenon

(***************************************************************************)
(* The same with the answer lost.                                          *)
(***************************************************************************)
LEMMA DeleteFailsKeeps ==
    ASSUME IInv, NEW w \in Reconcilers, DeleteFails(w)
    PROVE  IInv'
  <1> USE EvidenceConstants DEF IInv, TypeOK, DeleteFails, Deleted
  <1>1. TypeOK'
    <2>1. work[w].attempt \in Attempts
      BY Zenon DEF WorkInv
    <2>2. object' \in [Attempts -> Object]
      BY <2>1, ObjectType
    <2>3. [work[w] EXCEPT !.step = "retry"] \in Work
      BY WorkStep, Zenon DEF WorkSteps
    <2>4. work' \in [Reconcilers -> Work]
      BY <2>3, Zenon
    <2> QED BY <2>1, <2>2, <2>3, <2>4, Zenon
  <1>2. UploadInv'
    BY SMTT(20) DEF UploadInv, WorkInv, SweepInv, Lost, Current, Upload, Object
  <1>3. ASSUME NEW s \in Requests PROVE RequestInv(s)'
    BY DEF RequestInv, UploadInv, WorkInv, SweepInv, Lost, Current, Object,
       Upload
  <1>4. Owners'
    BY Zenon DEF Owners
  <1>5. ASSUME NEW b \in Attempts PROVE ObligationInv(b)'
    BY SMTT(20) DEF ObligationInv, UploadInv, WorkInv, SweepInv, Lost, Current, Object,
       Obligation
  <1>6. ASSUME NEW v \in Reconcilers PROVE WorkInv(v)'
    BY DEF WorkInv, RequestInv, ObligationInv, Current, Object, Work,
       Obligation
  <1>7. SweepInv'
    BY DEF SweepInv, Lost, RequestInv, WorkInv, Current, Object
  <1> QED BY <1>1, <1>2, <1>3, <1>4, <1>5, <1>6, <1>7, Zenon

(***************************************************************************)
(* The disposition is written under the fence of the claim.                *)
(***************************************************************************)
LEMMA CompleteKeeps ==
    ASSUME IInv, NEW w \in Reconcilers, Complete(w)
    PROVE  IInv'
  <1> USE EvidenceConstants DEF IInv, TypeOK, Complete, IdleWork
  <1>a. work[w].attempt \in Attempts /\ rec[work[w].attempt] # None
    BY Zenon DEF WorkInv
  <1>b. \/ rec' = rec
        \/ /\ Fenced(w)
           /\ \A b \in Attempts \ {work[w].attempt} : rec'[b] = rec[b]
           /\ rec'[work[w].attempt] # None
           /\ rec'[work[w].attempt].state = work[w].step
           /\ rec'[work[w].attempt].version = rec[work[w].attempt].version + 1
           /\ rec'[work[w].attempt].available = rec[work[w].attempt].available
    BY <1>a, ResolvedFields
  <1>c. /\ work' = [work EXCEPT ![w] = IdleWork]
        /\ UNCHANGED <<now, upload, asset, object, req, sweep>>
    BY Zenon
  <1>d. work[w].step \in {"retained", "deleted"}
    BY Zenon
  <1>1. TypeOK'
    <2>1. rec' \in [Attempts -> Obligation \cup {None}]
      BY <1>a, ResolvedType, Zenon
    <2>2. work' \in [Reconcilers -> Work]
      BY DEF Work, WorkSteps
    <2> QED BY <2>1, <2>2, Zenon
  <1> HIDE DEF Complete
  <1>2. UploadInv'
    BY <1>a, <1>b, <1>c, SMTT(20) DEF UploadInv
  <1>3. ASSUME NEW s \in Requests PROVE RequestInv(s)'
    BY <1>a, <1>b, <1>c DEF RequestInv, Current
  <1>4. Owners'
    BY <1>c, Zenon DEF Owners
  <1>5. ASSUME NEW b \in Attempts PROVE ObligationInv(b)'
    <2>1. ObligationInv(b) /\ WorkInv(w)
      BY Zenon
    <2>2. CASE b # work[w].attempt \/ rec' = rec
      BY <1>a, <1>b, <1>c, <2>1, <2>2, ZenonT(30) DEF ObligationInv, Current
    <2>3. CASE b = work[w].attempt /\ rec' # rec
      BY <1>a, <1>b, <1>c, <1>d, <2>1, <2>3 DEF ObligationInv, WorkInv, Current
    <2> QED BY <2>2, <2>3, Zenon
  <1>6. ASSUME NEW v \in Reconcilers PROVE WorkInv(v)'
    <2>1. CASE v = w
      <3>1. work'[v] = IdleWork
        BY <1>c, <2>1, Zenon
      <3> QED BY <3>1 DEF WorkInv
    <2>2. CASE v # w
      <3>1. work'[v] = work[v] /\ WorkInv(v) /\ work[v] \in Work
        BY <1>c, <2>2, Zenon
      <3>2. rec[work[w].attempt].version \in Nat /\ work[v].version \in Nat
        BY <1>a, <3>1, Zenon DEF Obligation, Work
      <3> HIDE DEF IInv, TypeOK
      <3> QED BY <1>a, <1>b, <1>c, <3>1, <3>2 DEF WorkInv, Current
    <2> QED BY <2>1, <2>2, ZenonT(30)
  <1>7. SweepInv'
    BY <1>c, Zenon DEF SweepInv, Lost, Current
  <1> QED BY <1>1, <1>2, <1>3, <1>4, <1>5, <1>6, <1>7, Zenon

(***************************************************************************)
(* The obligation is given back; its next instant lies after the window    *)
(* too.                                                                    *)
(***************************************************************************)
LEMMA RetryKeeps ==
    ASSUME IInv, NEW w \in Reconcilers, Retry(w)
    PROVE  IInv'
  <1> USE EvidenceConstants DEF IInv, TypeOK, Retry, IdleWork
  <1>a. work[w].attempt \in Attempts /\ rec[work[w].attempt] \in Obligation
    BY Zenon DEF WorkInv
  <1>b. \/ rec' = rec
        \/ /\ Fenced(w)
           /\ \A b \in Attempts \ {work[w].attempt} : rec'[b] = rec[b]
           /\ rec'[work[w].attempt] # None
           /\ rec'[work[w].attempt].state = "pending"
           /\ rec'[work[w].attempt].version = rec[work[w].attempt].version + 1
           /\ rec'[work[w].attempt].available = now + RetryDelay
    BY <1>a DEF Obligation
  <1>c. /\ work' = [work EXCEPT ![w] = IdleWork]
        /\ UNCHANGED <<now, upload, asset, object, req, sweep>>
    BY Zenon
  <1>d. work[w].step \in {"retry"}
    BY Zenon
  <1>1. TypeOK'
    <2>1. rec' \in [Attempts -> Obligation \cup {None}]
      BY <1>a DEF Obligation
    <2>2. work' \in [Reconcilers -> Work]
      BY SMTT(20) DEF Work, WorkSteps
    <2> QED BY <2>1, <2>2, Zenon
  <1> HIDE DEF Retry
  <1>2. UploadInv'
    BY <1>a, <1>b, <1>c DEF UploadInv
  <1>3. ASSUME NEW s \in Requests PROVE RequestInv(s)'
    BY <1>a, <1>b, <1>c, ZenonT(30) DEF RequestInv, Current
  <1>4. Owners'
    BY <1>c, Zenon DEF Owners
  <1>5. ASSUME NEW b \in Attempts PROVE ObligationInv(b)'
    <2>1. ObligationInv(b) /\ WorkInv(w)
      BY Zenon
    <2>2. CASE b # work[w].attempt \/ rec' = rec
      BY <1>a, <1>b, <1>c, <2>1, <2>2, Zenon DEF ObligationInv, Current
    <2>3. CASE b = work[w].attempt /\ rec' # rec
      <3>1. rec[b].state = "claimed" /\ asset # b /\ rec'[b].state = "pending"
            /\ rec'[b].available = now + RetryDelay
        BY <1>a, <1>b, <1>d, <2>1, <2>3, Zenon DEF ObligationInv, WorkInv, Fenced
      <3>2. Current(b) => now + RetryDelay >= upload.lease
        BY <1>a, <1>d, <2>1, <2>3, SMTT(20) DEF WorkInv, UploadInv, Current
      <3> QED BY <1>c, <3>1, <3>2, Zenon DEF ObligationInv, Current
    <2> QED BY <2>2, <2>3, Zenon
  <1>6. ASSUME NEW v \in Reconcilers PROVE WorkInv(v)'
    <2>1. CASE v = w
      <3>1. work'[v] = IdleWork
        BY <1>c, <2>1, Zenon
      <3> QED BY <3>1 DEF WorkInv
    <2>2. CASE v # w
      <3>1. work'[v] = work[v] /\ WorkInv(v) /\ work[v] \in Work
        BY <1>c, <2>2, Zenon
      <3>2. rec[work[w].attempt].version \in Nat /\ work[v].version \in Nat
        BY <1>a, <3>1, Zenon DEF Obligation, Work
      <3> HIDE DEF IInv, TypeOK
      <3> QED BY <1>a, <1>b, <1>c, <3>1, <3>2 DEF WorkInv, Current
    <2> QED BY <2>1, <2>2, Zenon
  <1>7. SweepInv'
    BY <1>c, Zenon DEF SweepInv, Lost, Current
  <1> QED BY <1>1, <1>2, <1>3, <1>4, <1>5, <1>6, <1>7, Zenon

(***************************************************************************)
(* A reconciler that dies leaves its claim to expire.                      *)
(***************************************************************************)
LEMMA ReconcilerCrashKeeps ==
    ASSUME IInv, NEW w \in Reconcilers, ReconcilerCrash(w)
    PROVE  IInv'
  <1> USE EvidenceConstants DEF IInv, TypeOK, ReconcilerCrash, IdleWork
  <1>1. TypeOK'
    <2>1. work' \in [Reconcilers -> Work]
      BY DEF Work, WorkSteps
    <2> QED BY <2>1, Zenon
  <1>2. UploadInv'
    BY Zenon DEF UploadInv
  <1>3. ASSUME NEW s \in Requests PROVE RequestInv(s)'
    BY Zenon DEF RequestInv, Current
  <1>4. Owners'
    BY Zenon DEF Owners
  <1>5. ASSUME NEW b \in Attempts PROVE ObligationInv(b)'
    BY Zenon DEF ObligationInv, Current
  <1>6. ASSUME NEW v \in Reconcilers PROVE WorkInv(v)'
    BY Zenon DEF WorkInv, Current, Work
  <1>7. SweepInv'
    BY Zenon DEF SweepInv, Lost, Current
  <1> QED BY <1>1, <1>2, <1>3, <1>4, <1>5, <1>6, <1>7, Zenon

(***************************************************************************)
(* An unreferenced object that is older than an attempt lasts belongs to   *)
(* an attempt that is lost.                                                *)
(***************************************************************************)
LEMMA SweepClassifiesKeeps ==
    ASSUME IInv, SweepClassifies
    PROVE  IInv'
  <1> USE EvidenceConstants DEF IInv, TypeOK, SweepClassifies, Old, Referenced
  <1>a. asset # sweep'
    BY Zenon
  <1>b. sweep' \in Attempts /\ Old(sweep')
    BY Zenon
  <1>c. sweep' <= upload.attempt
    BY <1>b DEF UploadInv, Attempts, Upload
  <1>d. Current(sweep') => now >= upload.lease
    BY <1>b DEF UploadInv, Current, Object
  <1>1. TypeOK'
    <2> QED BY Zenon
  <1>2. UploadInv'
    BY Zenon DEF UploadInv
  <1>3. ASSUME NEW s \in Requests PROVE RequestInv(s)'
    BY DEF RequestInv, Current
  <1>4. Owners'
    BY Zenon DEF Owners
  <1>5. ASSUME NEW b \in Attempts PROVE ObligationInv(b)'
    BY Zenon DEF ObligationInv, Current
  <1>6. ASSUME NEW v \in Reconcilers PROVE WorkInv(v)'
    BY Zenon DEF WorkInv, Current
  <1>7. SweepInv'
    BY <1>a, <1>b, <1>c, <1>d, Zenon DEF SweepInv, Lost, Current
  <1> QED BY <1>1, <1>2, <1>3, <1>4, <1>5, <1>6, <1>7, Zenon

(***************************************************************************)
(* The sweep deletes it, in a later step.                                  *)
(***************************************************************************)
LEMMA SweepDeletesKeeps ==
    ASSUME IInv, SweepDeletes
    PROVE  IInv'
  <1> USE EvidenceConstants DEF IInv, TypeOK, SweepDeletes, Deleted
  <1>a. /\ \A a \in Attempts : a # sweep => object'[a] = object[a]
        /\ object'[sweep].state = "deleted"
        /\ UNCHANGED <<now, upload, asset, rec, req, work>>
    BY Zenon
  <1>1. TypeOK'
    <2>1. object' \in [Attempts -> Object]
      BY ObjectType, Zenon
    <2> QED BY <2>1, Zenon
  <1>2. UploadInv'
    BY SMTT(20) DEF UploadInv, WorkInv, SweepInv, Lost, Current, Upload, Object
  <1>3. ASSUME NEW s \in Requests PROVE RequestInv(s)'
    BY DEF RequestInv, UploadInv, WorkInv, SweepInv, Lost, Current, Object,
       Upload
  <1>4. Owners'
    BY Zenon DEF Owners
  <1>5. ASSUME NEW b \in Attempts PROVE ObligationInv(b)'
    <2>1. ObligationInv(b)
      BY Zenon
    <2> HIDE DEF IInv, TypeOK, SweepDeletes
    <2> QED BY <1>a, <2>1, Zenon DEF ObligationInv, Current
  <1>6. ASSUME NEW v \in Reconcilers PROVE WorkInv(v)'
    <2>1. WorkInv(v)
      BY Zenon
    <2> HIDE DEF IInv, TypeOK, SweepDeletes
    <2> QED BY <1>a, <2>1, Zenon DEF WorkInv, Current
  <1>7. SweepInv'
    BY Zenon DEF SweepInv, Lost, RequestInv, WorkInv, Current, Object
  <1> QED BY <1>1, <1>2, <1>3, <1>4, <1>5, <1>6, <1>7, Zenon

(***************************************************************************)
(* The sweep gives up.                                                     *)
(***************************************************************************)
LEMMA SweepFailsKeeps ==
    ASSUME IInv, SweepFails
    PROVE  IInv'
  <1> USE EvidenceConstants DEF IInv, TypeOK, SweepFails
  <1>1. TypeOK'
    <2> QED BY Zenon
  <1>2. UploadInv'
    BY Zenon DEF UploadInv
  <1>3. ASSUME NEW s \in Requests PROVE RequestInv(s)'
    BY Zenon DEF RequestInv, Current
  <1>4. Owners'
    BY Zenon DEF Owners
  <1>5. ASSUME NEW b \in Attempts PROVE ObligationInv(b)'
    BY Zenon DEF ObligationInv, Current
  <1>6. ASSUME NEW v \in Reconcilers PROVE WorkInv(v)'
    BY Zenon DEF WorkInv, Current
  <1>7. SweepInv'
    BY Zenon DEF SweepInv, Lost, RequestInv, WorkInv, Current, Object
  <1> QED BY <1>1, <1>2, <1>3, <1>4, <1>5, <1>6, <1>7, Zenon

(***************************************************************************)
(* Time passes while no acceptance is between its check and its commit:    *)
(* windows close, and none opens.                                          *)
(***************************************************************************)
LEMMA TickKeeps ==
    ASSUME IInv, LongCommits = FALSE, Tick
    PROVE  IInv'
  <1> USE EvidenceConstants DEF IInv, TypeOK, Tick, Unlocked
  <1>1. TypeOK'
    OBVIOUS
  <1>2. UploadInv'
    BY SMTT(20) DEF UploadInv
  <1>3. ASSUME NEW s \in Requests PROVE RequestInv(s)'
    BY DEF RequestInv, UploadInv, Current
  <1>4. Owners'
    BY Zenon DEF Owners
  <1>5. ASSUME NEW b \in Attempts PROVE ObligationInv(b)'
    BY SMTT(20) DEF ObligationInv, UploadInv, Current
  <1>6. ASSUME NEW v \in Reconcilers PROVE WorkInv(v)'
    BY SMTT(20) DEF WorkInv, UploadInv, Current
  <1>7. SweepInv'
    BY DEF SweepInv, UploadInv, Lost, Current
  <1> QED BY <1>1, <1>2, <1>3, <1>4, <1>5, <1>6, <1>7, Zenon

(***************************************************************************)
(* The upload is issued and nothing exists.                                *)
(***************************************************************************)
LEMMA InitHolds ==
    ASSUME Init
    PROVE  IInv
  <1> USE EvidenceConstants DEF Init
  <1>1. TypeOK
    BY DEF TypeOK, Upload, UploadStates, Object, IdleRequest, Request, RequestSteps,
           IdleWork, Work, WorkSteps
  <1>2. UploadInv
    BY Zenon DEF UploadInv
  <1>3. ASSUME NEW r \in Requests PROVE RequestInv(r)
    BY Zenon DEF RequestInv, IdleRequest
  <1>4. Owners
    BY Zenon DEF Owners, IdleRequest
  <1>5. ASSUME NEW a \in Attempts PROVE ObligationInv(a)
    BY Zenon DEF ObligationInv
  <1>6. ASSUME NEW w \in Reconcilers PROVE WorkInv(w)
    BY Zenon DEF WorkInv, IdleWork
  <1>7. SweepInv
    BY Zenon DEF SweepInv
  <1> QED BY <1>1, <1>2, <1>3, <1>4, <1>5, <1>6, <1>7, Zenon DEF IInv

(***************************************************************************)
(* A step that changes nothing.                                            *)
(***************************************************************************)
LEMMA StutterKeeps ==
    ASSUME IInv, UNCHANGED vars
    PROVE  IInv'
  <1> USE DEF vars
  <1>1. TypeOK' BY Zenon DEF IInv, TypeOK
  <1>2. UploadInv' BY Zenon DEF IInv, UploadInv
  <1>3. ASSUME NEW r \in Requests PROVE RequestInv(r)' BY Zenon DEF IInv, RequestInv, Current
  <1>4. Owners' BY Zenon DEF IInv, Owners
  <1>5. ASSUME NEW a \in Attempts PROVE ObligationInv(a)' BY Zenon
                                                             DEF IInv, ObligationInv, Current
  <1>6. ASSUME NEW w \in Reconcilers PROVE WorkInv(w)' BY Zenon DEF IInv, WorkInv, Current
  <1>7. SweepInv' BY Zenon DEF IInv, SweepInv, Lost, Current
  <1> QED BY <1>1, <1>2, <1>3, <1>4, <1>5, <1>6, <1>7, Zenon DEF IInv

(***************************************************************************)
(* Every step keeps the invariant.                                         *)
(***************************************************************************)
LEMMA NextKeeps ==
    ASSUME IInv, LongCommits = FALSE, [Next]_vars
    PROVE  IInv'
  <1>1. ASSUME NEW r \in Requests, RequestNext(r) PROVE IInv'
    BY <1>1, BeginKeeps, StageKeeps, StageFailsKeeps, StageLeavesKeeps, RecordKeeps,
       RecordFailsKeeps, AcceptCheckedKeeps, AcceptCommitsKeeps, AcceptUnknownKeeps,
       AcceptFailsKeeps, DiscardKeeps, DiscardFailsKeeps, ResolveDiscardedKeeps,
       RecordOrphanKeeps, RecordFailureKeeps, RequestCrashKeeps, Zenon DEF RequestNext
  <1>2. ASSUME NEW w \in Reconcilers,
               Reconcile(w) \/ DeleteFails(w) \/ ReconcilerCrash(w)
        PROVE  IInv'
    BY <1>2, ClaimReconciliationKeeps, FindUploadKeeps, DetermineKeeps,
       DeleteObjectKeeps, DeleteFailsKeeps, CompleteKeeps, RetryKeeps,
       ReconcilerCrashKeeps, Zenon DEF Reconcile
  <1> QED BY <1>1, <1>2, SweepClassifiesKeeps, SweepDeletesKeeps, SweepFailsKeeps,
             TickKeeps, StutterKeeps, Zenon DEF Next

-----------------------------------------------------------------------------
(***************************************************************************)
(* Accepted evidence has its ciphertext, whatever the requests, the        *)
(* reconcilers and the sweep do and wherever they stop, provided the       *)
(* acceptance commits inside the window it checked.                        *)
(***************************************************************************)
THEOREM AcceptedCorrect ==
    ASSUME LongCommits = FALSE
    PROVE  Spec => []AcceptedObjectExists
  <1>1. Init => IInv
    BY InitHolds, Zenon
  <1>2. IInv /\ [Next]_vars => IInv'
    BY NextKeeps, Zenon
  <1>3. IInv => AcceptedObjectExists
    BY Zenon DEF IInv, UploadInv, AcceptedObjectExists
  <1> QED BY <1>1, <1>2, <1>3, PTL DEF Spec

(***************************************************************************)
(* A settled obligation tells the truth: what is retained is the object of *)
(* the accepted upload, and what is deleted is gone.                       *)
(***************************************************************************)
THEOREM DispositionCorrect ==
    ASSUME LongCommits = FALSE
    PROVE  Spec => []DispositionIsTrue
  <1>1. Init => IInv
    BY InitHolds, Zenon
  <1>2. IInv /\ [Next]_vars => IInv'
    BY NextKeeps, Zenon
  <1>3. IInv => DispositionIsTrue
    BY Zenon DEF IInv, ObligationInv, DispositionIsTrue
  <1> QED BY <1>1, <1>2, <1>3, PTL DEF Spec
===============================================================================
