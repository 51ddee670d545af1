---------------------------- MODULE EvidenceUpload ----------------------------
(***************************************************************************)
(* Evidence upload and the recovery of its staged objects                  *)
(* (internal/evidence, internal/authority/upload_acceptance_service.go):   *)
(* a request claims an attempt of the upload, stages the ciphertext as an  *)
(* immutable object, writes an obligation for that object ahead of the     *)
(* acceptance, and accepts the upload in one transaction.                  *)
(*                                                                         *)
(* Three parties delete objects: the request that compensates for its own  *)
(* failure, the reconciler that settles obligations left behind, and the   *)
(* sweep over the object store's inventory.  Object store and database     *)
(* share no transaction, and any process may stop between two steps.       *)
(* Every attempt stages at most one object, so an attempt names its object *)
(* and its obligation.                                                     *)
(***************************************************************************)
EXTENDS Integers

CONSTANTS Requests,        \* the requests in flight
          Reconcilers,     \* the callers of ReconcileNext
          None,
          MaxAttempts,     \* bound on the attempts of the upload
          AttemptTimeout,  \* UploadRecord.AttemptTimeout
          Expires,         \* UploadRecord.ExpiresAt
          ClaimTimeout,    \* lease of a reconciliation claim
          RetryDelay,      \* delay before a reconciliation is retried
          OrphanAge,       \* minimum age of an orphan in the inventory
          LateDeletes,     \* may a failed deletion have deleted? a set of Booleans
          LongCommits,     \* may the acceptance transaction outlast its check?
          MaxVersion,      \* bound on the versions of an obligation
          MaxTime          \* bound on time

VARIABLES now,
          upload,          \* the evidence_upload_intents row
          asset,           \* the evidence_assets row: the attempt it references
          object,          \* the object store: state and ModifiedAt, by attempt
          rec,             \* evidence_object_reconciliations, by attempt
          req,             \* per request: its step and what it holds
          work,            \* per reconciler: its step and what it holds
          sweep            \* the object the sweep found unreferenced

vars == <<now, upload, asset, object, rec, req, work, sweep>>

Attempts == 1 .. MaxAttempts

Obligation ==
    [state : {"pending", "claimed", "retained", "deleted"}, version : Nat,
     available : Nat, lease : Nat \cup {None}]

ASSUME EvidenceConstants ==
    /\ {MaxAttempts, AttemptTimeout, Expires, ClaimTimeout, RetryDelay, MaxVersion}
         \subseteq Nat \ {0}
    /\ MaxTime \in Nat
    /\ OrphanAge \in Nat /\ OrphanAge > AttemptTimeout
    /\ LateDeletes \subseteq BOOLEAN /\ LongCommits \in BOOLEAN
    /\ None \notin Nat /\ None \notin Obligation

IdleRequest ==
    [step |-> "idle", attempt |-> 0, version |-> 0, lease |-> 0, at |-> 0]

IdleWork == [step |-> "idle", attempt |-> 0, version |-> 0, seen |-> None]

Init ==
    /\ now = 0
    /\ upload = [state |-> "issued", version |-> 1, attempt |-> 0, lease |-> None]
    /\ asset = None
    /\ object = [a \in Attempts |-> [state |-> "none", at |-> 0]]
    /\ rec = [a \in Attempts |-> None]
    /\ req = [r \in Requests |-> IdleRequest]
    /\ work = [w \in Reconcilers |-> IdleWork]
    /\ sweep = None

(***************************************************************************)
(* The acceptance transaction locks the upload's row until it ends.        *)
(***************************************************************************)
Unlocked == \A r \in Requests : req[r].step # "committing"

At(r, step) == req[r].step = step

Goto(r, step) == req' = [req EXCEPT ![r].step = step]

Leave(r) == req' = [req EXCEPT ![r] = IdleRequest]

Deleted(a) == [object EXCEPT ![a] = [state |-> "deleted", at |-> 0]]

(***************************************************************************)
(* Upload.Accept, Reject and FailAttempt end the attempt the same way.     *)
(***************************************************************************)
Ended(state) == [upload EXCEPT !.state = state, !.version = @ + 1, !.lease = None]

(***************************************************************************)
(* ObjectReconciliation.Resolve.                                           *)
(***************************************************************************)
Resolved(a, state) ==
    [rec EXCEPT ![a].state = state, ![a].version = @ + 1, ![a].lease = None]

-----------------------------------------------------------------------------
(* The request: UploadAcceptanceService.Accept. *)

Claimable ==
    /\ now < Expires
    /\ \/ upload.state = "issued"
       \/ upload.state = "uploading" /\ now >= upload.lease

ClaimAttempt ==
    [state |-> "uploading", version |-> upload.version + 1,
     attempt |-> upload.attempt + 1,
     lease |-> IF now + AttemptTimeout < Expires THEN now + AttemptTimeout ELSE Expires]

(***************************************************************************)
(* UploadPreflight.Begin and ClaimUploadAttempt: the attempt is fenced by  *)
(* the upload's version.  A request that does not hold the current version *)
(* or repeats an accepted upload changes nothing.                          *)
(***************************************************************************)
Begin(r) ==
    /\ At(r, "idle") /\ Unlocked /\ Claimable
    /\ upload.attempt < MaxAttempts
    /\ upload' = ClaimAttempt
    /\ req' = [req EXCEPT ![r] =
           [step |-> "staging", attempt |-> ClaimAttempt.attempt,
            version |-> ClaimAttempt.version, lease |-> ClaimAttempt.lease, at |-> 0]]
    /\ UNCHANGED <<now, asset, object, rec, work, sweep>>

Stored(a) == [object EXCEPT ![a] = [state |-> "stored", at |-> now]]

(***************************************************************************)
(* Protector.Prepare succeeds, and Accept reads the clock once.            *)
(***************************************************************************)
Stage(r) ==
    /\ At(r, "staging")
    /\ object' = Stored(req[r].attempt)
    /\ req' = [req EXCEPT ![r].step = "staged", ![r].at = now]
    /\ UNCHANGED <<now, upload, asset, rec, work, sweep>>

(***************************************************************************)
(* Prepare fails and leaves no object: the body was refused, nothing was   *)
(* written, or the compensation deleted what was.                          *)
(***************************************************************************)
StageFails(r) ==
    /\ At(r, "staging")
    /\ Goto(r, "failing")
    /\ UNCHANGED <<now, upload, asset, object, rec, work, sweep>>

(***************************************************************************)
(* Prepare fails after the object was written, and so does the deletion:   *)
(* a CleanupError.                                                         *)
(***************************************************************************)
StageLeaves(r) ==
    /\ At(r, "staging")
    /\ object' = Stored(req[r].attempt)
    /\ req' = [req EXCEPT ![r].step = "orphan", ![r].at = now]
    /\ UNCHANGED <<now, upload, asset, rec, work, sweep>>

NewObligation(r) ==
    [state |-> "pending", version |-> 1,
     available |-> IF req[r].lease < req[r].at THEN req[r].at ELSE req[r].lease,
     lease |-> None]

(***************************************************************************)
(* CreateObjectReconciliation, ahead of the acceptance.                    *)
(***************************************************************************)
Record(r) ==
    /\ At(r, "staged")
    /\ rec' = [rec EXCEPT ![req[r].attempt] = NewObligation(r)]
    /\ Goto(r, "recorded")
    /\ UNCHANGED <<now, upload, asset, object, work, sweep>>

(***************************************************************************)
(* It fails; the transaction may nevertheless have committed.              *)
(***************************************************************************)
RecordFails(r) ==
    /\ At(r, "staged")
    /\ \/ rec' = [rec EXCEPT ![req[r].attempt] = NewObligation(r)]
       \/ UNCHANGED rec
    /\ Goto(r, "unrecorded")
    /\ UNCHANGED <<now, upload, asset, object, work, sweep>>

(***************************************************************************)
(* The check as it would be with the time read after staging.              *)
(***************************************************************************)
AcceptableBackdated(r) ==
    /\ upload.version = req[r].version
    /\ upload.state = "uploading" /\ upload.attempt = req[r].attempt
    /\ req[r].at < upload.lease /\ req[r].at < Expires

(***************************************************************************)
(* ValidateUploadAcceptanceWithin looks at the clock under the lock, and   *)
(* Upload.Accept compares the fence.                                       *)
(***************************************************************************)
Acceptable(r) ==
    /\ upload.version = req[r].version
    /\ upload.state = "uploading" /\ upload.attempt = req[r].attempt
    /\ now < upload.lease /\ now < Expires

AcceptChecked(r) ==
    /\ At(r, "recorded") /\ Unlocked
    /\ Acceptable(r)
    /\ Goto(r, "committing")
    /\ UNCHANGED <<now, upload, asset, object, rec, work, sweep>>

(***************************************************************************)
(* RetainEvidenceObjectReconciliationForAcceptance takes a pending row.    *)
(***************************************************************************)
Retainable(a) == rec[a] # None /\ rec[a].state = "pending"

(***************************************************************************)
(* The rest of AcceptUpload and its commit, known to the request or not.   *)
(***************************************************************************)
AcceptCommits(r) ==
    LET a == req[r].attempt IN
    /\ At(r, "committing")
    /\ Retainable(a)
    /\ upload' = Ended("accepted")
    /\ asset' = a
    /\ rec' = Resolved(a, "retained")
    /\ Leave(r)
    /\ UNCHANGED <<now, object, work, sweep>>

(***************************************************************************)
(* ErrUploadAcceptanceOutcomeUnknown where nothing was committed: the      *)
(* request leaves the object and its obligation alone.                     *)
(***************************************************************************)
AcceptUnknown(r) ==
    /\ At(r, "committing")
    /\ Leave(r)
    /\ UNCHANGED <<now, upload, asset, object, rec, work, sweep>>

(***************************************************************************)
(* The acceptance fails and nothing of it is committed: the body, the      *)
(* session or the current authority does not permit it, the obligation is  *)
(* no longer pending, or the database fails.                               *)
(***************************************************************************)
AcceptFails(r) ==
    /\ At(r, "recorded") \/ At(r, "committing")
    /\ Goto(r, "discarding")
    /\ UNCHANGED <<now, upload, asset, object, rec, work, sweep>>

(***************************************************************************)
(* discardRecordedAndFail: delete the object, then settle the obligation.  *)
(***************************************************************************)
Discard(r) ==
    /\ At(r, "discarding") \/ At(r, "unrecorded")
    /\ object' = Deleted(req[r].attempt)
    /\ Goto(r, IF At(r, "discarding") THEN "resolving" ELSE "failing")
    /\ UNCHANGED <<now, upload, asset, rec, work, sweep>>

(***************************************************************************)
(* The next step as it would be if the deletion's error were ignored.      *)
(***************************************************************************)
AfterLostDiscardResolves(r) == IF At(r, "discarding") THEN "resolving" ELSE "orphan"

AfterLostDiscard(r) == IF At(r, "discarding") THEN "failing" ELSE "orphan"

DiscardFails(r) ==
    /\ At(r, "discarding") \/ At(r, "unrecorded")
    /\ \E late \in LateDeletes :
         object' = IF late THEN Deleted(req[r].attempt) ELSE object
    /\ Goto(r, AfterLostDiscard(r))
    /\ UNCHANGED <<now, upload, asset, rec, work, sweep>>

Open(a) == rec[a] # None /\ rec[a].state \in {"pending", "claimed"}

(***************************************************************************)
(* ResolveObjectReconciliation; the update itself may fail.                *)
(***************************************************************************)
ResolveDiscarded(r) ==
    /\ At(r, "resolving")
    /\ \/ rec' = IF Open(req[r].attempt) THEN Resolved(req[r].attempt, "deleted") ELSE rec
       \/ UNCHANGED rec
    /\ Goto(r, "failing")
    /\ UNCHANGED <<now, upload, asset, object, work, sweep>>

(***************************************************************************)
(* recordOrphan: writing the same obligation again is accepted, another    *)
(* one under the attempt is a conflict and ends the request.               *)
(***************************************************************************)
RecordOrphan(r) ==
    LET a == req[r].attempt IN
    /\ At(r, "orphan")
    /\ IF rec[a] \in {None, NewObligation(r)}
         THEN rec' = [rec EXCEPT ![a] = NewObligation(r)] /\ Goto(r, "failing")
         ELSE UNCHANGED rec /\ Leave(r)
    /\ UNCHANGED <<now, upload, asset, object, work, sweep>>

(***************************************************************************)
(* recordFailure: RejectUploadAttempt where the cause is final and the     *)
(* attempt's window is open, else FailUploadAttempt; both are fenced by    *)
(* the version the attempt was claimed with.                               *)
(***************************************************************************)
Closings(r) ==
    (IF now < req[r].lease THEN {"rejected"} ELSE {})
        \cup {IF now < Expires THEN "issued" ELSE "expired"}

RecordFailure(r) ==
    /\ At(r, "failing") /\ Unlocked
    /\ IF upload.version = req[r].version
         THEN \E state \in Closings(r) :
                upload' = Ended(state)
         ELSE UNCHANGED upload
    /\ Leave(r)
    /\ UNCHANGED <<now, asset, object, rec, work, sweep>>

(***************************************************************************)
(* The process dies, or a step's own error path cannot write.              *)
(***************************************************************************)
RequestCrash(r) ==
    /\ ~At(r, "idle")
    /\ Leave(r)
    /\ UNCHANGED <<now, upload, asset, object, rec, work, sweep>>

-----------------------------------------------------------------------------
(* The reconciler: ReconciliationService.ReconcileNext. *)

Ready(a) ==
    \/ rec[a] # None /\ rec[a].state = "pending" /\ rec[a].available <= now
    \/ rec[a] # None /\ rec[a].state = "claimed" /\ rec[a].lease <= now

DueAt(a) == IF rec[a].lease # None THEN rec[a].lease ELSE rec[a].available

(***************************************************************************)
(* LockNextEvidenceObjectReconciliation: the obligation that is due first. *)
(***************************************************************************)
Foremost(a) ==
    \A b \in Attempts : Ready(b) =>
        DueAt(a) < DueAt(b) \/ (DueAt(a) = DueAt(b) /\ a <= b)

ClaimReconciliation(w) ==
    /\ work[w].step = "idle"
    /\ \E a \in Attempts :
         /\ Ready(a) /\ Foremost(a)
         /\ rec[a].version < MaxVersion
         /\ rec' = [rec EXCEPT ![a].state = "claimed", ![a].version = @ + 1,
                               ![a].lease = now + ClaimTimeout]
         /\ work' = [work EXCEPT ![w] = [IdleWork EXCEPT
                !.step = "claimed", !.attempt = a, !.version = rec[a].version + 1]]
    /\ UNCHANGED <<now, upload, asset, object, req, sweep>>

FindUpload(w) ==
    /\ work[w].step = "claimed"
    /\ work' = [work EXCEPT ![w].step = "found",
                            ![w].seen = [state |-> upload.state, attempt |-> upload.attempt]]
    /\ UNCHANGED <<now, upload, asset, object, rec, req, sweep>>

(***************************************************************************)
(* determineAndApply, once it has read the upload and then the asset.      *)
(***************************************************************************)
Disposition(w) ==
    IF work[w].seen.state = "accepted"
      THEN IF asset = work[w].attempt /\ work[w].seen.attempt = work[w].attempt
             THEN "retained" ELSE "retry"
      ELSE IF asset = None THEN "delete" ELSE "retry"

Determine(w) ==
    /\ work[w].step = "found"
    /\ work' = [work EXCEPT ![w].step = Disposition(w), ![w].seen = None]
    /\ UNCHANGED <<now, upload, asset, object, rec, req, sweep>>

DeleteObject(w) ==
    /\ work[w].step = "delete"
    /\ object' = Deleted(work[w].attempt)
    /\ work' = [work EXCEPT ![w].step = "deleted"]
    /\ UNCHANGED <<now, upload, asset, rec, req, sweep>>

DeleteFails(w) ==
    /\ work[w].step = "delete"
    /\ \E late \in LateDeletes :
         object' = IF late THEN Deleted(work[w].attempt) ELSE object
    /\ work' = [work EXCEPT ![w].step = "retry"]
    /\ UNCHANGED <<now, upload, asset, rec, req, sweep>>

Fenced(w) == rec[work[w].attempt].version = work[w].version

(***************************************************************************)
(* CompleteObjectReconciliation and RetryObjectReconciliation, fenced by   *)
(* the version and claim of the claimed obligation.                        *)
(***************************************************************************)
Complete(w) ==
    /\ work[w].step \in {"retained", "deleted"}
    /\ rec' = IF Fenced(w) THEN Resolved(work[w].attempt, work[w].step) ELSE rec
    /\ work' = [work EXCEPT ![w] = IdleWork]
    /\ UNCHANGED <<now, upload, asset, object, req, sweep>>

Retry(w) ==
    /\ work[w].step = "retry"
    /\ rec' = IF Fenced(w)
                THEN [rec EXCEPT ![work[w].attempt] =
                        [state |-> "pending", version |-> @.version + 1,
                         available |-> now + RetryDelay, lease |-> None]]
                ELSE rec
    /\ work' = [work EXCEPT ![w] = IdleWork]
    /\ UNCHANGED <<now, upload, asset, object, req, sweep>>

ReconcilerCrash(w) ==
    /\ work[w].step # "idle"
    /\ work' = [work EXCEPT ![w] = IdleWork]
    /\ UNCHANGED <<now, upload, asset, object, rec, req, sweep>>

-----------------------------------------------------------------------------
(* The sweep: OrphanDiscoveryService.DiscoverPage, object by object. *)

Old(a) == object[a].state = "stored" /\ object[a].at <= now - OrphanAge

(***************************************************************************)
(* IsEvidenceObjectReferenced.                                             *)
(***************************************************************************)
Referenced(a) ==
    \/ asset = a
    \/ rec[a] # None /\ rec[a].state \in {"pending", "claimed", "retained"}

SweepClassifies ==
    /\ sweep = None
    /\ \E a \in Attempts : Old(a) /\ ~Referenced(a) /\ sweep' = a
    /\ UNCHANGED <<now, upload, asset, object, rec, req, work>>

SweepDeletes ==
    /\ sweep # None
    /\ object' = Deleted(sweep)
    /\ sweep' = None
    /\ UNCHANGED <<now, upload, asset, rec, req, work>>

SweepFails ==
    /\ sweep # None
    /\ sweep' = None
    /\ UNCHANGED <<now, upload, asset, object, rec, req, work>>

(***************************************************************************)
(* Time passes; while an acceptance sits between its look at the clock and *)
(* its commit, only where such a transaction may be long.                  *)
(***************************************************************************)
Tick ==
    /\ now < MaxTime
    /\ Unlocked \/ LongCommits
    /\ now' = now + 1
    /\ UNCHANGED <<upload, asset, object, rec, req, work, sweep>>

-----------------------------------------------------------------------------
RequestNext(r) ==
    \/ Begin(r) \/ Stage(r) \/ StageFails(r) \/ StageLeaves(r)
    \/ Record(r) \/ RecordFails(r)
    \/ AcceptChecked(r) \/ AcceptCommits(r) \/ AcceptUnknown(r) \/ AcceptFails(r)
    \/ Discard(r) \/ DiscardFails(r) \/ ResolveDiscarded(r)
    \/ RecordOrphan(r) \/ RecordFailure(r) \/ RequestCrash(r)

Reconcile(w) ==
    \/ ClaimReconciliation(w) \/ FindUpload(w) \/ Determine(w)
    \/ DeleteObject(w) \/ Complete(w) \/ Retry(w)

Next ==
    \/ \E r \in Requests : RequestNext(r)
    \/ \E w \in Reconcilers : Reconcile(w) \/ DeleteFails(w) \/ ReconcilerCrash(w)
    \/ SweepClassifies \/ SweepDeletes \/ SweepFails
    \/ Tick

Spec == Init /\ [][Next]_vars

-----------------------------------------------------------------------------
(***************************************************************************)
(* Accepted evidence has its ciphertext: neither the compensation of a     *)
(* request, nor the reconciler, nor the sweep, none of which shares a      *)
(* transaction with the acceptance, deletes the object an accepted upload  *)
(* references.                                                             *)
(***************************************************************************)
AcceptedObjectExists == asset # None => object[asset].state = "stored"

(***************************************************************************)
(* A settled obligation tells the truth: "retained" is the object of the   *)
(* accepted upload, and "deleted" is an object that is gone.  The          *)
(* disposition is written after the deletion, by a process that may have   *)
(* been overtaken.                                                         *)
(***************************************************************************)
DispositionIsTrue ==
    \A a \in Attempts : rec[a] # None =>
        /\ rec[a].state = "retained" <=> asset = a
        /\ rec[a].state = "deleted" => object[a].state = "deleted"

===============================================================================
