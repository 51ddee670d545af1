---------------------------- MODULE RealtimeStream ----------------------------
(***************************************************************************)
(* The durable event stream of one verification                            *)
(* (internal/realtime/postgres/replay_store.go) and what writes to it: the *)
(* acceptance of an upload appends capture progress in its own transaction *)
(* (internal/evidence/postgres/upload_store.go), and projectors move the   *)
(* check-progress rows of the outbox into it                               *)
(* (internal/verification/postgres/coordination.go).  Every worker runs a  *)
(* projector; rows are taken FOR UPDATE SKIP LOCKED, and the stream row's  *)
(* lock orders the appends.                                                *)
(*                                                                         *)
(* Events expire: capture progress with the capture token, check progress  *)
(* with the session.  A stream only takes events whose expiry does not     *)
(* decrease, which is what lets expiry remove a prefix.                    *)
(***************************************************************************)
EXTENDS Clock, FiniteSets

CONSTANTS Projectors,
          SessionExpiry,  \* verification_sessions.expires_at
          TokenTTL,       \* lifetime of a capture token
          BatchSize,      \* rows one projection takes
          MaxRows,        \* bound on check-progress rows
          MaxUploads      \* bound on accepted uploads

VARIABLES stage,       \* of the session
          token,       \* expiry of the latest capture token
          outbox,      \* check-progress rows, numbered in order of creation
          locked,      \* per projector: the rows its transaction holds
          latest,      \* realtime_streams.latest_cursor
          lastExpires, \* realtime_streams.latest_expires_at
          floor,       \* realtime_streams.retained_from_cursor
          log,         \* realtime_events: cursor -> [expires, row]
          sweep,       \* the deletion in progress
          uploads      \* accepted uploads

streamVars == <<now, stage, token, outbox, locked, latest, lastExpires, floor, log, sweep, uploads>>

ASSUME StreamConstants ==
    /\ SessionExpiry \in Nat \ {0} /\ TokenTTL \in Nat \ {0}
    /\ BatchSize \in Nat \ {0}
    /\ MaxRows \in Nat /\ MaxUploads \in Nat /\ MaxTime \in Nat

(***************************************************************************)
(* A new token never outlives the session.                                 *)
(***************************************************************************)
NewToken(at) == IF at + TokenTTL > SessionExpiry THEN SessionExpiry ELSE at + TokenTTL

NoSweep == [gone |-> {}, kept |-> {}]

StreamInit ==
    /\ now = 0
    /\ stage = "collecting"
    /\ token = NewToken(0)
    /\ outbox = [i \in {} |-> "pending"]
    /\ locked = [p \in Projectors |-> {}]
    /\ latest = 0
    /\ lastExpires = 0
    /\ floor = 1
    /\ log = [c \in {} |-> [expires |-> 0, row |-> 0]]
    /\ sweep = NoSweep
    /\ uploads = 0

-----------------------------------------------------------------------------
(***************************************************************************)
(* AppendEventWithinTransaction refuses an event that expires before the   *)
(* last one; appending then extends the log by one cursor.                 *)
(***************************************************************************)
AppendableAlways(expires) == TRUE

Appendable(expires) == latest = 0 \/ expires >= lastExpires

Append1(events, c, expires, row) ==
    [k \in DOMAIN events \cup {c} |->
        IF k = c THEN [expires |-> expires, row |-> row] ELSE events[k]]

(***************************************************************************)
(* An upload is accepted: its transaction appends capture progress that    *)
(* expires with the token.  A refused append aborts the acceptance.        *)
(***************************************************************************)
AcceptUpload ==
    /\ stage = "collecting" /\ now < token /\ now < SessionExpiry
    /\ uploads < MaxUploads
    /\ Appendable(token)
    /\ log' = Append1(log, latest + 1, token, 0)
    /\ latest' = latest + 1
    /\ lastExpires' = token
    /\ uploads' = uploads + 1
    /\ UNCHANGED <<now, stage, token, outbox, locked, floor, sweep>>

(* Capture is complete and processing starts.                              *)
StartProcessing ==
    /\ stage = "collecting" /\ now < SessionExpiry
    /\ stage' = "processing"
    /\ UNCHANGED <<now, token, outbox, locked, latest, lastExpires, floor, log, sweep, uploads>>

(* A check changes state: insertCheckProgress adds an outbox row.          *)
CheckProgress ==
    /\ stage = "processing" /\ now < SessionExpiry
    /\ Cardinality(DOMAIN outbox) < MaxRows
    /\ outbox' = [i \in 1..(Cardinality(DOMAIN outbox) + 1) |->
                     IF i \in DOMAIN outbox THEN outbox[i] ELSE "pending"]
    /\ UNCHANGED <<now, stage, token, locked, latest, lastExpires, floor, log, sweep, uploads>>

(* Policy routes the session to subject input.                             *)
RequestInput ==
    /\ stage = "processing" /\ now < SessionExpiry
    /\ stage' = "awaiting_input"
    /\ UNCHANGED <<now, token, outbox, locked, latest, lastExpires, floor, log, sweep, uploads>>

(***************************************************************************)
(* Resume keeps a live token and replaces a dead one, never past the       *)
(* session's expiry.                                                       *)
(***************************************************************************)
Resume ==
    /\ stage = "awaiting_input" /\ now < SessionExpiry
    /\ stage' = "collecting"
    /\ token' = IF now < token THEN token ELSE NewToken(now)
    /\ UNCHANGED <<now, outbox, locked, latest, lastExpires, floor, log, sweep, uploads>>

(* RenewCaptureToken replaces the expired token of a collecting session.   *)
RenewToken ==
    /\ stage = "collecting" /\ now < SessionExpiry /\ now >= token
    /\ token' = NewToken(now)
    /\ UNCHANGED <<now, stage, outbox, locked, latest, lastExpires, floor, log, sweep, uploads>>

-----------------------------------------------------------------------------
Free == {i \in DOMAIN outbox :
            outbox[i] = "pending" /\ \A p \in Projectors : i \notin locked[p]}

(* ListPendingCheckProgressEvents: the first free rows, skipping locked ones. *)
Lock(p) ==
    /\ locked[p] = {}
    /\ Free # {}
    /\ locked' = [locked EXCEPT ![p] =
          {i \in Free : Cardinality({j \in Free : j < i}) < BatchSize}]
    /\ UNCHANGED <<now, stage, token, outbox, latest, lastExpires, floor, log, sweep, uploads>>

(* Every row up to the batch's last is marked.                             *)
MarkedThrough(rows) ==
    [i \in DOMAIN outbox |-> IF \E j \in rows : i <= j THEN "published" ELSE outbox[i]]

Marked(rows) == [i \in DOMAIN outbox |-> IF i \in rows THEN "published" ELSE outbox[i]]

(***************************************************************************)
(* The rest of ProjectCheckProgress: the rows of the batch are appended in *)
(* order, those the stream does not hold yet, marked published, and        *)
(* committed with the events.  A row that is no longer pending fails the   *)
(* transaction.                                                            *)
(***************************************************************************)
Place(rows, i) == Cardinality({j \in rows : j <= i})

Project(p) ==
    LET rows == locked[p]
        unseen == {i \in rows : \A c \in DOMAIN log : log[c].row # i}
        added == (latest + 1)..(latest + Cardinality(unseen))
    IN  /\ rows # {}
        /\ \A i \in rows : outbox[i] = "pending"
        /\ Appendable(SessionExpiry)
        /\ log' = [c \in DOMAIN log \cup added |->
                      IF c \in added
                      THEN [expires |-> SessionExpiry,
                            row |-> CHOOSE i \in unseen : Place(unseen, i) = c - latest]
                      ELSE log[c]]
        /\ latest' = latest + Cardinality(unseen)
        /\ lastExpires' = SessionExpiry
        /\ outbox' = Marked(rows)
        /\ locked' = [locked EXCEPT ![p] = {}]
        /\ UNCHANGED <<now, stage, token, floor, sweep, uploads>>

(* The transaction fails or its worker dies: the rows are free again.      *)
Rollback(p) ==
    /\ locked[p] # {}
    /\ locked' = [locked EXCEPT ![p] = {}]
    /\ UNCHANGED <<now, stage, token, outbox, latest, lastExpires, floor, log, sweep, uploads>>

(***************************************************************************)
(* DeleteExpiredEvents, up to the statement that sets the floor: a batch of *)
(* expired events is deleted, those that expired first and of these the    *)
(* lowest cursors.  The floor's statement reads the events as committed    *)
(* when it starts, and may then wait for the stream row.                   *)
(***************************************************************************)
Expired == {c \in DOMAIN log : log[c].expires <= now}

Earlier(c, d) ==
    \/ log[c].expires < log[d].expires
    \/ log[c].expires = log[d].expires /\ c < d

SweepDelete ==
    /\ sweep = NoSweep
    /\ \E gone \in (SUBSET Expired) \ {{}} :
          /\ \A c \in gone, d \in Expired : Earlier(d, c) => d \in gone
          /\ sweep' = [gone |-> gone, kept |-> DOMAIN log \ gone]
    /\ UNCHANGED <<now, stage, token, outbox, locked, latest, lastExpires, floor, log, uploads>>

(***************************************************************************)
(* RefreshRealtimeRetainedFrom and the commit: the floor is the lowest     *)
(* event the statement saw, or else one past the cursor the row holds once *)
(* it is locked.                                                           *)
(***************************************************************************)
Lowest(cursors) == CHOOSE c \in cursors : \A d \in cursors : c <= d

SweepCommit ==
    /\ sweep # NoSweep
    /\ log' = [c \in DOMAIN log \ sweep.gone |-> log[c]]
    /\ floor' = IF sweep.kept = {} THEN latest + 1 ELSE Lowest(sweep.kept)
    /\ sweep' = NoSweep
    /\ UNCHANGED <<now, stage, token, outbox, locked, latest, lastExpires, uploads>>

StreamTick ==
    /\ ClockAdvances
    /\ UNCHANGED <<stage, token, outbox, locked, latest, lastExpires, floor, log, sweep, uploads>>

StreamNext ==
    \/ AcceptUpload \/ StartProcessing \/ CheckProgress \/ RequestInput
    \/ Resume \/ RenewToken \/ SweepDelete \/ SweepCommit \/ StreamTick
    \/ \E p \in Projectors : Lock(p) \/ Project(p) \/ Rollback(p)

StreamSpec == StreamInit /\ [][StreamNext]_streamVars

-----------------------------------------------------------------------------
(***************************************************************************)
(* Whatever expires and is deleted, and whatever is appended while the     *)
(* deletion runs, the stream holds every cursor from its floor to its      *)
(* latest, and what is still live is a suffix of it: the refusal of        *)
(* decreasing expiries leaves a reader no gap but the one below the floor. *)
(***************************************************************************)
StreamIsContiguous ==
    /\ floor..latest \subseteq DOMAIN log /\ DOMAIN log \subseteq 1..latest
    /\ \A c \in DOMAIN log \ Expired : c..latest \subseteq DOMAIN log \ Expired

(***************************************************************************)
(* Every event is exactly one accepted upload or one published row, none   *)
(* lost and none doubled, although rows are taken by projectors that fail, *)
(* are cut short and overtake each other, and events are deleted.          *)
(***************************************************************************)
PublishedOnce ==
    /\ latest = uploads + Cardinality({i \in DOMAIN outbox : outbox[i] = "published"})
    /\ \A c, d \in DOMAIN log : log[c].row = log[d].row /\ log[c].row # 0 => c = d
    /\ \A c \in DOMAIN log : log[c].row # 0 => outbox[log[c].row] = "published"

===============================================================================
