---------------------------- MODULE RealtimeProofs ----------------------------
(***************************************************************************)
(* Proofs about the durable event stream and the session that follows it,  *)
(* for every number of projectors, rows, uploads, connections and          *)
(* commands, every page and queue size, and every expiry.                  *)
(***************************************************************************)
EXTENDS RealtimeSession, FiniteSetTheorems, WellFoundedInduction, TLAPS
(* The event stream. *)

StreamTypeOK ==
    /\ now \in Nat /\ token \in Nat /\ latest \in Nat /\ lastExpires \in Nat
    /\ floor \in Nat
    /\ DOMAIN log \subseteq 1..latest
    /\ \A c \in DOMAIN log : log[c].expires \in Nat
    /\ \E m \in Nat : DOMAIN outbox = 1..m
    /\ locked \in [Projectors -> SUBSET (DOMAIN outbox)]

(***************************************************************************)
(* What the stream holds is a suffix of what was ever appended, in order   *)
(* of expiry; nothing expires after the session.                           *)
(***************************************************************************)
LogInv ==
    /\ \A c \in DOMAIN log : c..latest \subseteq DOMAIN log
    /\ \A c, d \in DOMAIN log : c <= d => log[c].expires <= log[d].expires
    /\ \A c \in DOMAIN log : log[c].expires <= lastExpires
    /\ floor <= latest + 1 /\ floor..latest \subseteq DOMAIN log
    /\ token <= SessionExpiry /\ lastExpires <= SessionExpiry

(***************************************************************************)
(* What a deletion takes is a prefix of the stream, also of the stream     *)
(* that grew since.                                                        *)
(***************************************************************************)
SweepInv ==
    /\ sweep.gone \subseteq DOMAIN log
    /\ sweep.kept \subseteq DOMAIN log \ sweep.gone
    /\ \A g \in sweep.gone, d \in DOMAIN log : d < g => d \in sweep.gone

StreamIInv == StreamTypeOK /\ LogInv /\ SweepInv

(***************************************************************************)
(* The stream takes a check-progress event whenever one comes.             *)
(***************************************************************************)
ProgressIsAppendable == Appendable(SessionExpiry)

-----------------------------------------------------------------------------
(***************************************************************************)
(* A nonempty set of natural numbers has a least element, and Lowest is it.*)
(***************************************************************************)
LEMMA LowestIsLeast ==
    ASSUME NEW T, T \subseteq Nat, T # {}
    PROVE  Lowest(T) \in T /\ \A y \in T : Lowest(T) <= y
  <1>1. PICK x \in T : \A y \in T : ~(<<y, x>> \in OpToRel(<, Nat))
    BY WFMin, NatLessThanWellFounded, Zenon
  <1>2. \A y \in T : ~(y < x)
    BY <1>1, Zenon DEF OpToRel
  <1>3. \A y \in T : x <= y
    BY <1>2
  <1> QED BY <1>3, Zenon DEF Lowest

(***************************************************************************)
(* A new token expires no later than the session.                          *)
(***************************************************************************)
LEMMA NewTokenType ==
    ASSUME NEW at \in Nat
    PROVE  NewToken(at) \in Nat /\ NewToken(at) <= SessionExpiry
  BY StreamConstants DEF NewToken

(***************************************************************************)
(* Appending n events that expire at e, as AppendEventWithinTransaction    *)
(* admits them, at the end of the stream.                                  *)
(***************************************************************************)
LEMMA AppendKeeps ==
    ASSUME StreamIInv, NEW n \in Nat, NEW e \in Nat, Appendable(e), e <= SessionExpiry,
           latest' = latest + n, lastExpires' = e,
           DOMAIN log' = DOMAIN log \cup (latest + 1)..(latest + n),
           \A c \in DOMAIN log : log'[c] = log[c],
           \A c \in (latest + 1)..(latest + n) : log'[c].expires = e,
           UNCHANGED <<now, token, floor, sweep>>
    PROVE  /\ DOMAIN log' \subseteq 1..latest'
           /\ \A c \in DOMAIN log' : log'[c].expires \in Nat
           /\ LogInv' /\ SweepInv'
  <1> DEFINE added == (latest + 1)..(latest + n)
  <1>1. /\ latest \in Nat /\ lastExpires \in Nat /\ floor \in Nat
        /\ DOMAIN log \subseteq 1..latest
        /\ \A c \in DOMAIN log : log[c].expires \in Nat /\ log[c].expires <= lastExpires
    BY Zenon DEF StreamIInv, StreamTypeOK, LogInv
  <1>2. \A c \in DOMAIN log : log[c].expires <= e
    BY <1>1 DEF Appendable
  <1>3. \A c \in DOMAIN log' : c \in DOMAIN log \/ c \in added
    BY Zenon
  <1>4. \A c \in DOMAIN log' : c \in 1..(latest + n) /\ log'[c].expires \in Nat
                               /\ log'[c].expires <= e
    BY <1>1, <1>2
  <1>5. ASSUME NEW c \in DOMAIN log' PROVE c..(latest + n) \subseteq DOMAIN log'
    <2>1. CASE c \in DOMAIN log
      <3>1. c..latest \subseteq DOMAIN log /\ c \in Nat
        BY <1>1, <2>1 DEF StreamIInv, LogInv
      <3>2. \A d \in c..(latest + n) : d \in c..latest \/ d \in added
        BY <1>1, <3>1
      <3> QED BY <3>1, <3>2, Zenon
    <2>2. CASE c \in added
      BY <1>1, <2>2
    <2> QED BY <1>3, <2>1, <2>2, Zenon
  <1>6. ASSUME NEW c \in DOMAIN log', NEW d \in DOMAIN log', c <= d
        PROVE  log'[c].expires <= log'[d].expires
    <2>1. CASE d \in added
      BY <1>4, <2>1, Zenon
    <2>2. CASE d \in DOMAIN log
      <3>1. c \in DOMAIN log
        BY <1>1, <1>3, <1>6, <2>2
      <3> QED BY <1>6, <2>2, <3>1, Zenon DEF StreamIInv, LogInv
    <2> QED BY <1>3, <2>1, <2>2, Zenon
  <1>7. floor <= latest + n + 1 /\ floor..(latest + n) \subseteq DOMAIN log'
    <2>1. floor <= latest + 1 /\ floor..latest \subseteq DOMAIN log
      BY Zenon DEF StreamIInv, LogInv
    <2>2. \A d \in floor..(latest + n) : d \in floor..latest \/ d \in added
      BY <1>1
    <2> QED BY <1>1, <2>1, <2>2
  <1>8. token' <= SessionExpiry
    BY Zenon DEF StreamIInv, LogInv
  <1>9. LogInv'
    BY <1>1, <1>4, <1>5, <1>6, <1>7, <1>8, Zenon DEF LogInv
  <1>10. SweepInv'
    <2>1. \A g \in sweep.gone, d \in added : ~(d < g)
      BY <1>1 DEF StreamIInv, SweepInv
    <2> QED BY <1>3, <2>1, Zenon DEF StreamIInv, SweepInv
  <1> QED BY <1>1, <1>4, <1>9, <1>10, Zenon

(***************************************************************************)
(* The acceptance of an upload.                                            *)
(***************************************************************************)
LEMMA AcceptUploadKeeps ==
    ASSUME StreamIInv, AcceptUpload
    PROVE  StreamIInv'
  <1>1. /\ latest' = latest + 1 /\ lastExpires' = token /\ Appendable(token)
        /\ log' = Append1(log, latest + 1, token, 0)
        /\ UNCHANGED <<now, token, outbox, locked, floor, sweep>>
    BY Zenon DEF AcceptUpload
  <1>2. latest \in Nat /\ token \in Nat /\ token <= SessionExpiry /\ DOMAIN log \subseteq 1..latest
    BY Zenon DEF StreamIInv, StreamTypeOK, LogInv
  <1>3. /\ DOMAIN log' = DOMAIN log \cup {latest + 1}
        /\ log'[latest + 1].expires = token
        /\ \A c \in DOMAIN log : log'[c] = log[c]
    BY <1>1, <1>2 DEF Append1
  <1>4. (latest + 1)..(latest + 1) = {latest + 1}
    BY <1>2
  <1>5. /\ DOMAIN log' \subseteq 1..latest' /\ LogInv' /\ SweepInv'
        /\ \A c \in DOMAIN log' : log'[c].expires \in Nat
    BY <1>1, <1>2, <1>3, <1>4, AppendKeeps, Zenon
  <1> QED BY <1>1, <1>2, <1>5 DEF StreamIInv, StreamTypeOK

(***************************************************************************)
(* ProjectCheckProgress appends as many events as rows are unseen.         *)
(***************************************************************************)
LEMMA ProjectKeeps ==
    ASSUME StreamIInv, NEW p \in Projectors, Project(p)
    PROVE  StreamIInv'
  <1> DEFINE rows == locked[p]
             unseen == {i \in rows : \A c \in DOMAIN log : log[c].row # i}
             n == Cardinality(unseen)
             added == (latest + 1)..(latest + n)
  <1>1. /\ Appendable(SessionExpiry)
        /\ log' = [c \in DOMAIN log \cup added |->
                      IF c \in added
                      THEN [expires |-> SessionExpiry,
                            row |-> CHOOSE i \in unseen : Place(unseen, i) = c - latest]
                      ELSE log[c]]
        /\ latest' = latest + n /\ lastExpires' = SessionExpiry
        /\ outbox' = Marked(rows) /\ locked' = [locked EXCEPT ![p] = {}]
        /\ UNCHANGED <<now, token, floor, sweep>>
    BY Zenon DEF Project
  <1>2. latest \in Nat /\ DOMAIN log \subseteq 1..latest /\ SessionExpiry \in Nat
    BY StreamConstants, Zenon DEF StreamIInv, StreamTypeOK
  <1>3. n \in Nat
    <2>1. PICK m \in Nat : DOMAIN outbox = 1..m
      BY Zenon DEF StreamIInv, StreamTypeOK
    <2>2. IsFiniteSet(1..m)
      BY FS_Interval
    <2>3. rows \subseteq DOMAIN outbox
      BY Zenon DEF StreamIInv, StreamTypeOK
    <2>4. unseen \subseteq DOMAIN outbox
      BY <2>3, Zenon
    <2> HIDE DEF unseen
    <2> QED BY <2>1, <2>2, <2>4, FS_Subset, FS_CardinalityType, Zenon
  <1>4. DOMAIN outbox' = DOMAIN outbox
    BY <1>1, Zenon DEF Marked
  <1> HIDE DEF unseen, n
  <1>5. /\ DOMAIN log' = DOMAIN log \cup added
        /\ \A c \in added : log'[c].expires = SessionExpiry
        /\ \A c \in DOMAIN log : log'[c] = log[c]
    BY <1>1, <1>2, <1>3
  <1>6. /\ DOMAIN log' \subseteq 1..latest' /\ LogInv' /\ SweepInv'
        /\ \A c \in DOMAIN log' : log'[c].expires \in Nat
    <2>1. /\ Appendable(SessionExpiry) /\ SessionExpiry <= SessionExpiry
          /\ latest' = latest + n /\ lastExpires' = SessionExpiry
          /\ UNCHANGED <<now, token, floor, sweep>>
      BY <1>1, <1>2
    <2> QED BY <1>2, <1>3, <1>5, <2>1, AppendKeeps, Zenon
  <1>7. /\ locked' \in [Projectors -> SUBSET (DOMAIN outbox')]
        /\ \E m \in Nat : DOMAIN outbox' = 1..m
    BY <1>1, <1>4, Zenon DEF StreamIInv, StreamTypeOK
  <1>8. /\ now' \in Nat /\ token' \in Nat /\ floor' \in Nat
        /\ latest' \in Nat /\ lastExpires' \in Nat
    BY <1>1, <1>2, <1>3 DEF StreamIInv, StreamTypeOK
  <1> QED BY <1>6, <1>7, <1>8, Zenon DEF StreamIInv, StreamTypeOK

(***************************************************************************)
(* DeleteExpiredEvents selects a prefix: what expired is one, because      *)
(* expiries do not decrease.                                               *)
(***************************************************************************)
LEMMA SweepDeleteKeeps ==
    ASSUME StreamIInv, SweepDelete
    PROVE  StreamIInv'
  <1>1. PICK gone \in SUBSET Expired :
            /\ \A c \in gone, d \in Expired : Earlier(d, c) => d \in gone
            /\ sweep' = [gone |-> gone, kept |-> DOMAIN log \ gone]
    BY Zenon DEF SweepDelete
  <1>2. UNCHANGED <<now, token, outbox, locked, latest, lastExpires, floor, log>>
    BY Zenon DEF SweepDelete
  <1>3. gone \subseteq DOMAIN log
    BY Zenon DEF Expired
  <1>4. ASSUME NEW g \in gone, NEW d \in DOMAIN log, d < g PROVE d \in gone
    <2>1. /\ log[d].expires <= log[g].expires /\ log[g].expires <= now
          /\ d \in Nat /\ g \in Nat /\ now \in Nat
          /\ log[d].expires \in Nat /\ log[g].expires \in Nat
      BY <1>3, <1>4 DEF StreamIInv, StreamTypeOK, LogInv, Expired
    <2>2. d \in Expired /\ Earlier(d, g)
      BY <1>4, <2>1 DEF Expired, Earlier
    <2> QED BY <1>1, <2>2, Zenon
  <1>5. SweepInv'
    BY <1>1, <1>2, <1>3, <1>4, Zenon DEF SweepInv
  <1> QED BY <1>2, <1>5, Zenon DEF StreamIInv, StreamTypeOK, LogInv

(***************************************************************************)
(* RefreshRealtimeRetainedFrom: what is left is a suffix, and the floor is *)
(* in it or one past its end.                                              *)
(***************************************************************************)
LEMMA SweepCommitKeeps ==
    ASSUME StreamIInv, SweepCommit
    PROVE  StreamIInv'
  <1> DEFINE gone == sweep.gone
             kept == sweep.kept
  <1>1. /\ log' = [c \in DOMAIN log \ gone |-> log[c]]
        /\ floor' = IF kept = {} THEN latest + 1 ELSE Lowest(kept)
        /\ sweep' = NoSweep
        /\ UNCHANGED <<now, token, outbox, locked, latest, lastExpires>>
    BY Zenon DEF SweepCommit
  <1>2. /\ latest \in Nat /\ DOMAIN log \subseteq 1..latest
        /\ kept \subseteq DOMAIN log \ gone
        /\ \A g \in gone, d \in DOMAIN log : d < g => d \in gone
    BY Zenon DEF StreamIInv, StreamTypeOK, SweepInv
  <1>3. /\ DOMAIN log' = DOMAIN log \ gone
        /\ \A c \in DOMAIN log' : log'[c] = log[c]
    BY <1>1, Zenon
  <1> HIDE DEF gone, kept
  <1>4. ASSUME NEW c \in DOMAIN log' PROVE c..latest \subseteq DOMAIN log'
    <2>1. c \in DOMAIN log /\ c \notin gone /\ c..latest \subseteq DOMAIN log
      BY <1>3, Zenon DEF StreamIInv, LogInv
    <2>2. ASSUME NEW d \in c..latest PROVE d \notin gone
      <3>1. d = c \/ c < d
        BY <1>2, <2>1
      <3> QED BY <1>2, <2>1, <3>1, Zenon
    <2> QED BY <1>3, <2>1, <2>2, Zenon
  <1>5. floor' \in Nat /\ floor' <= latest + 1 /\ floor'..latest \subseteq DOMAIN log'
    <2>1. CASE kept = {}
      BY <1>1, <1>2, <2>1
    <2>2. CASE kept # {}
      <3>1. kept \subseteq Nat
        BY <1>2
      <3>2. floor' \in kept
        BY <1>1, <2>2, <3>1, LowestIsLeast, Zenon
      <3>3. floor' \in DOMAIN log'
        BY <1>2, <1>3, <3>2, Zenon
      <3> QED BY <1>2, <1>3, <1>4, <3>3
    <2> QED BY <2>1, <2>2, Zenon
  <1>6. LogInv'
    <2>1. token' <= SessionExpiry /\ lastExpires' <= SessionExpiry
      BY <1>1, Zenon DEF StreamIInv, LogInv
    <2> QED BY <1>1, <1>3, <1>4, <1>5, <2>1, Zenon DEF StreamIInv, LogInv
  <1>7. SweepInv'
    BY <1>1, Zenon DEF SweepInv, NoSweep
  <1>8. StreamTypeOK'
    BY <1>1, <1>2, <1>3, <1>5, Zenon DEF StreamIInv, StreamTypeOK
  <1> QED BY <1>6, <1>7, <1>8, Zenon DEF StreamIInv

(***************************************************************************)
(* The session, the clock and the locks move without the stream.           *)
(***************************************************************************)
LEMMA OutsideKeeps ==
    ASSUME StreamIInv, UNCHANGED <<latest, lastExpires, floor, log, sweep>>,
           now' \in Nat, token' \in Nat, token' <= SessionExpiry,
           \E m \in Nat : DOMAIN outbox' = 1..m,
           locked' \in [Projectors -> SUBSET (DOMAIN outbox')]
    PROVE  StreamIInv'
  BY Zenon DEF StreamIInv, StreamTypeOK, LogInv, SweepInv

LEMMA CheckProgressKeeps ==
    ASSUME StreamIInv, CheckProgress
    PROVE  StreamIInv'
  <1>1. PICK m \in Nat : DOMAIN outbox = 1..m
    BY Zenon DEF StreamIInv, StreamTypeOK
  <1>2. Cardinality(DOMAIN outbox) = m
    BY <1>1, FS_Interval
  <1>3. /\ DOMAIN outbox' = 1..(m + 1)
        /\ UNCHANGED <<now, token, locked, latest, lastExpires, floor, log, sweep>>
    <2>1. /\ outbox' = [i \in 1..(Cardinality(DOMAIN outbox) + 1) |->
                           IF i \in DOMAIN outbox THEN outbox[i] ELSE "pending"]
          /\ UNCHANGED <<now, token, locked, latest, lastExpires, floor, log, sweep>>
      BY Zenon DEF CheckProgress
    <2>2. DOMAIN outbox' = 1..(Cardinality(DOMAIN outbox) + 1)
      BY <2>1, Zenon
    <2> QED BY <1>2, <2>1, <2>2, Zenon
  <1>4. locked' \in [Projectors -> SUBSET (DOMAIN outbox')]
    BY <1>1, <1>3 DEF StreamIInv, StreamTypeOK
  <1> QED BY <1>3, <1>4, OutsideKeeps DEF StreamIInv, StreamTypeOK, LogInv

(***************************************************************************)
(* Locks are taken on rows of the outbox.                                  *)
(***************************************************************************)
LEMMA LockKeeps ==
    ASSUME StreamIInv, NEW p \in Projectors, Lock(p) \/ Rollback(p)
    PROVE  StreamIInv'
  <1>1. UNCHANGED <<now, token, outbox, latest, lastExpires, floor, log, sweep>>
    BY Zenon DEF Lock, Rollback
  <1>2. PICK rows \in SUBSET (DOMAIN outbox) : locked' = [locked EXCEPT ![p] = rows]
    <2>1. CASE Lock(p)
      BY <2>1, Zenon DEF Lock, Free
    <2>2. CASE Rollback(p)
      BY <2>2, Zenon DEF Rollback
    <2> QED BY <2>1, <2>2, Zenon
  <1>3. locked' \in [Projectors -> SUBSET (DOMAIN outbox)]
    BY <1>2, Zenon DEF StreamIInv, StreamTypeOK
  <1>4. /\ now' \in Nat /\ token' \in Nat /\ token' <= SessionExpiry
        /\ \E m \in Nat : DOMAIN outbox' = 1..m
    BY <1>1, Zenon DEF StreamIInv, StreamTypeOK, LogInv
  <1> QED BY <1>1, <1>3, <1>4, OutsideKeeps, Zenon

LEMMA SessionKeeps ==
    ASSUME StreamIInv,
           \/ StartProcessing \/ RequestInput \/ Resume \/ RenewToken \/ StreamTick
           \/ UNCHANGED streamVars
    PROVE  StreamIInv'
  <1>1. /\ UNCHANGED <<outbox, locked, latest, lastExpires, floor, log, sweep>>
        /\ now' = now \/ now' = now + 1
        /\ token' = token \/ token' = NewToken(now)
    BY Zenon
       DEF StartProcessing, RequestInput, Resume, RenewToken, StreamTick, ClockAdvances, streamVars
  <1>2. now' \in Nat /\ token' \in Nat /\ token' <= SessionExpiry
    <2>1. now \in Nat /\ token \in Nat /\ token <= SessionExpiry
      BY Zenon DEF StreamIInv, StreamTypeOK, LogInv
    <2> QED BY <1>1, <2>1, NewTokenType
  <1> QED BY <1>1, <1>2, OutsideKeeps, Zenon DEF StreamIInv, StreamTypeOK

LEMMA StreamNextKeeps == StreamIInv /\ [StreamNext]_streamVars => StreamIInv'
  <1> SUFFICES ASSUME StreamIInv, [StreamNext]_streamVars PROVE StreamIInv'
    BY Zenon
  <1> QED BY AcceptUploadKeeps, ProjectKeeps, SweepDeleteKeeps, SweepCommitKeeps,
             CheckProgressKeeps, LockKeeps, SessionKeeps, Zenon DEF StreamNext

LEMMA StreamInitHolds == StreamInit => StreamIInv
  <1> SUFFICES ASSUME StreamInit PROVE StreamIInv
    BY Zenon
  <1>1. /\ now = 0 /\ token = NewToken(0) /\ latest = 0 /\ lastExpires = 0 /\ floor = 1
        /\ DOMAIN log = {} /\ DOMAIN outbox = {} /\ sweep.gone = {} /\ sweep.kept = {}
        /\ locked \in [Projectors -> SUBSET (DOMAIN outbox)]
    BY Zenon DEF StreamInit, NoSweep
  <1>2. 1..0 = {} /\ 0 \in Nat
    OBVIOUS
  <1>3. token \in Nat /\ token <= SessionExpiry /\ 0 <= SessionExpiry
    BY <1>1, <1>2, NewTokenType, StreamConstants
  <1>4. StreamTypeOK
    BY <1>1, <1>2, <1>3, Zenon DEF StreamTypeOK
  <1>5. LogInv
    BY <1>1, <1>2, <1>3 DEF LogInv
  <1>6. SweepInv
    BY <1>1, Zenon DEF SweepInv
  <1> QED BY <1>4, <1>5, <1>6, Zenon DEF StreamIInv

LEMMA StreamInvariance == StreamSpec => []StreamIInv
  BY StreamInitHolds, StreamNextKeeps, PTL DEF StreamSpec

-----------------------------------------------------------------------------
(***************************************************************************)
(* Whatever is appended, expires and is deleted, the stream has every      *)
(* cursor from its floor to its latest, and what is live is a suffix of it *)
(* (AppendEventWithinTransaction and DeleteExpiredEvents).                 *)
(***************************************************************************)
THEOREM ContiguousCorrect == StreamSpec => []StreamIsContiguous
  <1>1. ASSUME StreamIInv PROVE StreamIsContiguous
    <2>1. ASSUME NEW c \in DOMAIN log \ Expired
          PROVE  c..latest \subseteq DOMAIN log \ Expired
      <3>1. c..latest \subseteq DOMAIN log /\ c \in Nat /\ ~(log[c].expires <= now)
        BY <1>1 DEF StreamIInv, StreamTypeOK, LogInv, Expired
      <3>2. ASSUME NEW d \in c..latest PROVE d \notin Expired
        <4>1. /\ log[c].expires <= log[d].expires
              /\ log[c].expires \in Nat /\ log[d].expires \in Nat /\ now \in Nat
          BY <1>1, <3>1 DEF StreamIInv, StreamTypeOK, LogInv
        <4> QED BY <3>1, <4>1 DEF Expired
      <3> QED BY <3>1, <3>2, Zenon
    <2> QED BY <1>1, <2>1, Zenon DEF StreamIsContiguous, StreamIInv, StreamTypeOK, LogInv
  <1> QED BY <1>1, StreamInvariance, PTL

(***************************************************************************)
(* No event ever expires after the session (a capture token is capped by   *)
(* it), so the stream never refuses the check progress a projector brings. *)
(***************************************************************************)
THEOREM ProgressCorrect == StreamSpec => []ProgressIsAppendable
  <1>1. StreamIInv => ProgressIsAppendable
    BY StreamConstants, Zenon
       DEF StreamIInv, StreamTypeOK, LogInv, ProgressIsAppendable, Appendable
  <1> QED BY <1>1, StreamInvariance, PTL

-----------------------------------------------------------------------------
(* What the events of the stream stand for. *)

PublishedRows == {i \in DOMAIN outbox : outbox[i] = "published"}

(***************************************************************************)
(* Every cursor was given to an upload or to a published row, and no row   *)
(* has two events.                                                         *)
(***************************************************************************)
PublishInv ==
    /\ uploads \in Nat
    /\ latest = uploads + Cardinality(PublishedRows)
    /\ \A c, d \in DOMAIN log : log[c].row = log[d].row /\ log[c].row # 0 => c = d
    /\ \A c \in DOMAIN log : log[c].row # 0 =>
          log[c].row \in DOMAIN outbox /\ outbox[log[c].row] = "published"

(***************************************************************************)
(* Place ranks the rows of a batch: every position up to their number is   *)
(* the place of one row.                                                   *)
(***************************************************************************)
LEMMA PlaceRanks ==
    ASSUME NEW rows, IsFiniteSet(rows), rows \subseteq Nat
    PROVE  \A k \in 1..Cardinality(rows) : \E i \in rows : Place(rows, i) = k
  <1> DEFINE upTo(i) == {j \in rows : j <= i}
             n == Cardinality(rows)
             f == [i \in rows |-> Place(rows, i)]
  <1>1. n \in Nat
    BY FS_CardinalityType, Zenon
  <1>2. ASSUME NEW i \in rows
        PROVE  /\ IsFiniteSet(upTo(i)) /\ Place(rows, i) = Cardinality(upTo(i))
               /\ Place(rows, i) \in 1..n
    <2>1. upTo(i) \in SUBSET rows /\ Place(rows, i) = Cardinality(upTo(i))
      BY Zenon DEF Place
    <2>2. i \in upTo(i)
      BY <1>2
    <2> HIDE DEF upTo
    <2>3. IsFiniteSet(upTo(i)) /\ Cardinality(upTo(i)) <= n /\ Cardinality(upTo(i)) \in Nat
      BY <2>1, FS_Subset, FS_CardinalityType, Zenon
    <2>4. Cardinality(upTo(i)) # 0
      BY <2>2, <2>3, FS_EmptySet, Zenon
    <2> HIDE DEF n
    <2> QED BY <1>1, <2>1, <2>3, <2>4
  <1>3. ASSUME NEW i \in rows, NEW j \in rows, i < j PROVE Place(rows, i) # Place(rows, j)
    <2>1. upTo(i) \in SUBSET upTo(j) /\ j \in upTo(j) /\ j \notin upTo(i)
      <3>1. j <= j /\ ~(j <= i) /\ \A k \in rows : k <= i => k <= j
        BY <1>3
      <3> QED BY <3>1, Zenon
    <2>2. Cardinality(upTo(j)) = Cardinality(upTo(i)) => upTo(j) = upTo(i)
      <3>1. IsFiniteSet(upTo(j))
        BY <1>2, Zenon
      <3> HIDE DEF upTo
      <3> QED BY <2>1, <3>1, FS_Subset, Zenon
    <2> HIDE DEF upTo
    <2> QED BY <1>2, <2>1, <2>2, Zenon
  <1>4. \A i, j \in rows : Place(rows, i) = Place(rows, j) => i = j
    <2> SUFFICES ASSUME NEW i \in rows, NEW j \in rows, Place(rows, i) = Place(rows, j), i # j
                 PROVE  FALSE
      BY Zenon
    <2>1. i < j \/ j < i
      OBVIOUS
    <2> QED BY <1>3, <2>1, Zenon
  <1>5. f \in Injection(rows, 1..n)
    BY <1>2, <1>4, Zenon DEF Injection, IsInjective
  <1>6. IsFiniteSet(1..n) /\ Cardinality(1..n) = n
    BY <1>1, FS_Interval
  <1>7. f \in Surjection(rows, 1..n)
    <2> HIDE DEF f
    <2> QED BY <1>5, <1>6, FS_Injection, Zenon
  <1> QED BY <1>7, Zenon DEF Surjection

(***************************************************************************)
(* The rows of a pending batch have no event yet, so each gets one of its  *)
(* own, and the batch becomes published with them.                         *)
(***************************************************************************)
LEMMA ProjectPublishes ==
    ASSUME StreamIInv, PublishInv, NEW p \in Projectors, Project(p)
    PROVE  PublishInv'
  <1> PICK rows : rows = locked[p]
    BY Zenon
  <1> PICK unseen : unseen = {i \in rows : \A c \in DOMAIN log : log[c].row # i}
    BY Zenon
  <1> PICK n : n = Cardinality(unseen)
    BY Zenon
  <1> DEFINE added == (latest + 1)..(latest + n)
             Chosen(c) == CHOOSE i \in unseen : Place(unseen, i) = c - latest
  <1>1. /\ \A i \in rows : outbox[i] = "pending"
        /\ log' = [c \in DOMAIN log \cup added |->
                      IF c \in added THEN [expires |-> SessionExpiry, row |-> Chosen(c)]
                      ELSE log[c]]
        /\ latest' = latest + n /\ outbox' = Marked(rows) /\ uploads' = uploads
    BY Zenon DEF Project
  <1>2. PICK m \in Nat : DOMAIN outbox = 1..m
    BY Zenon DEF StreamIInv, StreamTypeOK
  <1>3. rows \subseteq DOMAIN outbox /\ latest \in Nat /\ DOMAIN log \subseteq 1..latest
    BY Zenon DEF StreamIInv, StreamTypeOK
  <1>4. \A i \in rows : i \in Nat /\ i # 0
    BY <1>2, <1>3
  <1>15. \A i \in rows, c \in DOMAIN log : log[c].row # i
    <2>1. ASSUME NEW i \in rows, NEW c \in DOMAIN log, log[c].row = i PROVE FALSE
      <3>1. outbox[i] = "published"
        BY <1>4, <2>1, Zenon DEF PublishInv
      <3> QED BY <1>1, <3>1, Zenon
    <2> QED BY <2>1, Zenon
  <1>5. unseen = rows
    BY <1>15, Zenon
  <1>6. IsFiniteSet(rows) /\ n = Cardinality(rows) /\ n \in Nat
    <2>1. IsFiniteSet(DOMAIN outbox)
      BY <1>2, FS_Interval
    <2> QED BY <1>3, <1>5, <2>1, FS_Subset, FS_CardinalityType, Zenon
  <1>7. ASSUME NEW c \in added
        PROVE  Chosen(c) \in rows /\ Place(rows, Chosen(c)) = c - latest
    <2>1. c - latest \in 1..n
      BY <1>3, <1>6
    <2>2. \E i \in rows : Place(rows, i) = c - latest
      BY <1>4, <1>6, <2>1, PlaceRanks, Zenon
    <2> QED BY <1>5, <2>2, Zenon
  <1>8. /\ DOMAIN log' = DOMAIN log \cup added
        /\ \A c \in added : log'[c].row = Chosen(c) /\ c \notin DOMAIN log
        /\ \A c \in DOMAIN log : log'[c] = log[c]
    <2>1. \A c \in added : c \notin DOMAIN log
      BY <1>3, <1>6
    <2> HIDE DEF added, Chosen
    <2> QED BY <1>1, <2>1, Zenon
  <1>9. /\ DOMAIN outbox' = DOMAIN outbox
        /\ \A i \in rows : outbox'[i] = "published"
        /\ \A i \in DOMAIN outbox : outbox[i] = "published" => outbox'[i] = "published"
        /\ \A i \in DOMAIN outbox : i \notin rows => outbox'[i] = outbox[i]
    BY <1>1, <1>3, Zenon DEF Marked
  <1> HIDE DEF Chosen, added
  <1>10. \A c \in DOMAIN log' : log'[c].row # 0 =>
            log'[c].row \in DOMAIN outbox' /\ outbox'[log'[c].row] = "published"
    BY <1>3, <1>7, <1>8, <1>9, Zenon DEF PublishInv
  <1>11. ASSUME NEW c \in DOMAIN log', NEW d \in DOMAIN log', log'[c].row = log'[d].row,
                log'[c].row # 0
         PROVE  c = d
    <2>1. ASSUME NEW x \in DOMAIN log, NEW y \in added PROVE log'[x].row # log'[y].row
      BY <1>7, <1>8, <1>15, <2>1, Zenon
    <2>2. CASE c \in DOMAIN log /\ d \in DOMAIN log
      BY <1>8, <1>11, <2>2, Zenon DEF PublishInv
    <2>3. CASE c \in added /\ d \in added
      <3>1. c - latest = d - latest
        BY <1>7, <1>8, <1>11, <2>3, Zenon
      <3> QED BY <1>3, <1>6, <2>3, <3>1 DEF added
    <2> QED BY <1>8, <1>11, <2>1, <2>2, <2>3, Zenon
  <1>12. Cardinality(PublishedRows') = Cardinality(PublishedRows) + n
    <2>1. PublishedRows' = PublishedRows \cup rows
      BY <1>3, <1>9, Zenon DEF PublishedRows
    <2>2. PublishedRows \cap rows = {}
      BY <1>1, Zenon DEF PublishedRows
    <2>3. IsFiniteSet(PublishedRows)
      <3>1. IsFiniteSet(DOMAIN outbox) /\ PublishedRows \in SUBSET (DOMAIN outbox)
        BY <1>2, FS_Interval DEF PublishedRows
      <3> QED BY <3>1, FS_Subset, Zenon
    <2>4. Cardinality(PublishedRows') = Cardinality(PublishedRows) + n - Cardinality({})
      <3>1. Cardinality(PublishedRows \cup rows)
              = Cardinality(PublishedRows) + Cardinality(rows) - Cardinality(PublishedRows \cap rows)
        BY <1>6, <2>3, FS_Union, Zenon
      <3> QED BY <1>6, <2>1, <2>2, <3>1, Zenon
    <2>5. Cardinality({}) = 0 /\ Cardinality(PublishedRows) \in Nat
      BY <2>3, FS_EmptySet, FS_CardinalityType, Zenon
    <2> QED BY <1>6, <2>4, <2>5
  <1>13. Cardinality(PublishedRows) \in Nat /\ uploads \in Nat
         /\ latest = uploads + Cardinality(PublishedRows)
    <2>1. IsFiniteSet(DOMAIN outbox) /\ PublishedRows \in SUBSET (DOMAIN outbox)
      BY <1>2, FS_Interval DEF PublishedRows
    <2> QED BY <2>1, FS_Subset, FS_CardinalityType, Zenon DEF PublishInv
  <1>14. latest' = uploads' + Cardinality(PublishedRows')
    BY <1>1, <1>6, <1>12, <1>13
  <1> QED BY <1>1, <1>10, <1>11, <1>13, <1>14, Zenon DEF PublishInv

LEMMA StreamPublishes ==
    ASSUME StreamIInv, PublishInv, [StreamNext]_streamVars
    PROVE  PublishInv'
  <1>1. ASSUME UNCHANGED <<outbox, latest, uploads, log>> PROVE PublishInv'
    BY <1>1, Zenon DEF PublishInv, PublishedRows
  <1>2. ASSUME AcceptUpload PROVE PublishInv'
    <2>1. /\ log' = Append1(log, latest + 1, token, 0) /\ latest' = latest + 1
          /\ uploads' = uploads + 1 /\ UNCHANGED outbox
      BY <1>2, Zenon DEF AcceptUpload
    <2>2. /\ DOMAIN log' = DOMAIN log \cup {latest + 1}
          /\ \A c \in DOMAIN log' : log'[c].row = 0 \/ (c \in DOMAIN log /\ log'[c] = log[c])
      BY <2>1, Zenon DEF Append1
    <2>3. Cardinality(PublishedRows) \in Nat
      <3>1. PICK m \in Nat : DOMAIN outbox = 1..m
        BY Zenon DEF StreamIInv, StreamTypeOK
      <3>2. IsFiniteSet(DOMAIN outbox) /\ PublishedRows \in SUBSET (DOMAIN outbox)
        BY <3>1, FS_Interval DEF PublishedRows
      <3> QED BY <3>2, FS_Subset, FS_CardinalityType, Zenon
    <2>4. PublishedRows' = PublishedRows
      BY <2>1, Zenon DEF PublishedRows
    <2>5. uploads' \in Nat /\ latest' = uploads' + Cardinality(PublishedRows')
      <3>1. uploads \in Nat /\ latest = uploads + Cardinality(PublishedRows)
        BY Zenon DEF PublishInv
      <3> QED BY <2>1, <2>3, <2>4, <3>1
    <2>6. \A c \in DOMAIN log' : log'[c].row # 0 => c \in DOMAIN log /\ log'[c] = log[c]
      BY <2>2, Zenon
    <2>7. ASSUME NEW c \in DOMAIN log', NEW d \in DOMAIN log', log'[c].row = log'[d].row,
                 log'[c].row # 0
          PROVE  c = d
      <3>1. log'[d].row # 0
        BY <2>7, Zenon
      <3>2. /\ c \in DOMAIN log /\ log'[c] = log[c]
            /\ d \in DOMAIN log /\ log'[d] = log[d]
        BY <2>6, <2>7, <3>1, Zenon
      <3> QED BY <2>7, <3>2, Zenon DEF PublishInv
    <2>8. ASSUME NEW c \in DOMAIN log', log'[c].row # 0
          PROVE  log'[c].row \in DOMAIN outbox' /\ outbox'[log'[c].row] = "published"
      <3>1. c \in DOMAIN log /\ log'[c] = log[c] /\ log[c].row # 0
        BY <2>6, <2>8, Zenon
      <3>2. log[c].row \in DOMAIN outbox /\ outbox[log[c].row] = "published"
        BY <3>1, Zenon DEF PublishInv
      <3> QED BY <2>1, <3>1, <3>2, Zenon
    <2> QED BY <2>5, <2>7, <2>8, Zenon DEF PublishInv
  <1>3. ASSUME CheckProgress PROVE PublishInv'
    <2>1. PICK m \in Nat : DOMAIN outbox = 1..m
      BY Zenon DEF StreamIInv, StreamTypeOK
    <2>2. Cardinality(DOMAIN outbox) = m
      BY <2>1, FS_Interval
    <2>3. /\ outbox' = [i \in 1..(m + 1) |-> IF i \in DOMAIN outbox THEN outbox[i] ELSE "pending"]
          /\ UNCHANGED <<latest, uploads, log>>
      BY <1>3, <2>2, Zenon DEF CheckProgress
    <2>4. DOMAIN outbox \subseteq 1..(m + 1)
      BY <2>1
    <2>5. /\ DOMAIN outbox \subseteq DOMAIN outbox'
          /\ \A i \in DOMAIN outbox : outbox'[i] = outbox[i]
          /\ \A i \in DOMAIN outbox' : i \in DOMAIN outbox \/ outbox'[i] = "pending"
      BY <2>3, <2>4, Zenon
    <2>6. PublishedRows' = PublishedRows
      BY <2>5, Zenon DEF PublishedRows
    <2> QED BY <2>3, <2>5, <2>6, Zenon DEF PublishInv
  <1>4. ASSUME SweepCommit PROVE PublishInv'
    <2>1. /\ DOMAIN log' \subseteq DOMAIN log /\ \A c \in DOMAIN log' : log'[c] = log[c]
          /\ UNCHANGED <<outbox, latest, uploads>>
      BY <1>4, Zenon DEF SweepCommit
    <2> QED BY <2>1, Zenon DEF PublishInv, PublishedRows
  <1> QED BY <1>1, <1>2, <1>3, <1>4, ProjectPublishes, Zenon
       DEF StreamNext, streamVars, StartProcessing, RequestInput, Resume, RenewToken,
           SweepDelete, StreamTick, Lock, Rollback

(***************************************************************************)
(* Every event is exactly one accepted upload or one published row:        *)
(* ProjectCheckProgress publishes a row only while it is pending, and      *)
(* commits the mark with the event, whatever projectors do at the same     *)
(* time and whatever expires.                                              *)
(***************************************************************************)
THEOREM PublishedCorrect == StreamSpec => []PublishedOnce
  <1>1. StreamInit => PublishInv
    <2> SUFFICES ASSUME StreamInit PROVE PublishInv
      BY Zenon
    <2>1. uploads = 0 /\ latest = 0 /\ DOMAIN log = {} /\ PublishedRows = {}
      BY Zenon DEF StreamInit, PublishedRows
    <2>2. Cardinality({}) = 0
      BY FS_EmptySet, Zenon
    <2> QED BY <2>1, <2>2 DEF PublishInv
  <1>2. PublishInv => PublishedOnce
    BY Zenon DEF PublishInv, PublishedRows, PublishedOnce
  <1> QED BY <1>1, <1>2, StreamPublishes, StreamInvariance, PTL DEF StreamSpec

-----------------------------------------------------------------------------
(* A client that follows the stream. *)

Messages ==
    {m \in [seq : Nat, kind : {"welcome", "event", "resync", "command"}, cursor : Nat] :
        m.kind = "resync" => m.cursor = 0}

Requests == [kind : {"ack"}, seq : Nat, cursor : Nat] \cup [kind : {"command"}]

(***************************************************************************)
(* A link has these fields; three of them have a type that matters here.   *)
(***************************************************************************)
Fields ==
    {"expires", "after", "phase", "snapshot", "page", "more", "reading", "next",
     "highestSent", "highestAck", "queue", "writing", "durable", "pending"}

IsLink(l) ==
    /\ DOMAIN l = Fields
    /\ l.after \in Nat /\ l.next \in Nat /\ l.queue \in Seq(Messages)

SessionTypeOK ==
    /\ link # None => IsLink(link)
    /\ toClient \in Seq(Messages) /\ toServer \in Seq(Requests)
    /\ acked \in Nat /\ cursor \in Nat /\ known \in Nat

(***************************************************************************)
(* The cursors of the events the client has or was told to do without.     *)
(***************************************************************************)
Told == seen \cup 1..known

(***************************************************************************)
(* The message m tells the client of event k; one of the first n of q does.*)
(***************************************************************************)
Tells(m, k) == m.cursor = k \/ m.kind = "resync"

Carries(q, n, k) == \E j \in 1..n : Tells(q[j], k)

(***************************************************************************)
(* On the wire w to a client at cursor c, told of T: the events come in    *)
(* order, after what the client has, and when one arrives the client has   *)
(* been told of all before it.                                             *)
(***************************************************************************)
Wire(w, c, last, T) ==
    \A i \in 1..Len(w) : w[i].cursor > 0 =>
      /\ w[i].cursor <= last /\ c < w[i].cursor
      /\ \A j \in 1..(i - 1) : w[j].cursor < w[i].cursor
      /\ \A k \in 1..w[i].cursor : k \in T \/ Carries(w, i, k)

(***************************************************************************)
(* The same of the outbound queue q behind w.                              *)
(***************************************************************************)
Outbound(q, w, c, T) ==
    \A i \in 1..Len(q) : q[i].cursor > 0 =>
      /\ c < q[i].cursor
      /\ \A j \in 1..Len(w) : w[j].cursor < q[i].cursor
      /\ \A j \in 1..(i - 1) : q[j].cursor < q[i].cursor
      /\ \A k \in 1..q[i].cursor : k \in T \/ Carries(w, Len(w), k) \/ Carries(q, i, k)

(***************************************************************************)
(* The loop is ahead of the client only by what is in flight.              *)
(***************************************************************************)
Follow(q, a, w, c, last, T) ==
    /\ a <= last /\ c <= a
    /\ \A j \in 1..Len(w) : w[j].cursor <= a
    /\ \A j \in 1..Len(q) : q[j].cursor <= a
    /\ \A k \in 1..a : k \in T \/ Carries(w, Len(w), k) \/ Carries(q, Len(q), k)

(***************************************************************************)
(* The loop's page continues its cursor without a gap.                     *)
(***************************************************************************)
Paged(l, last) ==
    /\ l.phase = "page" => l.page # {}
    /\ l.page # {} => \E e \in 0..last : l.page = (l.after + 1)..e
    /\ l.phase = "list" => l.snapshot.latest \in Nat /\ l.snapshot.latest <= last

(***************************************************************************)
(* The acknowledgements under way and the persisted one.                   *)
(***************************************************************************)
Acks(t, c) == \A i \in 1..Len(t) : t[i].kind = "ack" => t[i].cursor <= c

ClientInv ==
    /\ cursor <= latest /\ known <= latest
    /\ 1..cursor \subseteq Told /\ seen \subseteq 1..cursor
    /\ Acks(toServer, cursor) /\ acked <= cursor

LinkInv ==
    /\ Outbound(link.queue, toClient, cursor, Told)
    /\ Follow(link.queue, link.after, toClient, cursor, latest, Told)
    /\ Paged(link, latest)

SessionIInv ==
    /\ SessionTypeOK /\ ClientInv
    /\ Wire(toClient, cursor, latest, Told)
    /\ link # None => LinkInv

-----------------------------------------------------------------------------
LEMMA MessageTypes ==
    ASSUME NEW q \in Seq(Messages)
    PROVE  /\ Len(q) \in Nat
           /\ \A i \in 1..Len(q) : q[i] \in Messages /\ q[i].cursor \in Nat
  <1>1. Len(q) \in Nat /\ \A i \in 1..Len(q) : q[i] \in Messages
    OBVIOUS
  <1>2. \A m \in Messages : m.cursor \in Nat
    BY Zenon DEF Messages
  <1> QED BY <1>1, <1>2, Zenon

(***************************************************************************)
(* What a queue carries when a message is added to it or taken from it.    *)
(***************************************************************************)
LEMMA CarriesAppend ==
    ASSUME NEW q \in Seq(Messages), NEW m \in Messages
    PROVE  /\ Append(q, m) \in Seq(Messages) /\ Len(Append(q, m)) = Len(q) + 1
           /\ \A j \in 1..Len(q) : Append(q, m)[j] = q[j]
           /\ Append(q, m)[Len(q) + 1] = m
           /\ \A k : \A i \in 0..Len(q) : Carries(q, i, k) => Carries(Append(q, m), i, k)
           /\ \A k : Carries(q, Len(q), k) \/ Tells(m, k) =>
                        Carries(Append(q, m), Len(Append(q, m)), k)
  <1> DEFINE r == Append(q, m)
  <1>1. /\ r \in Seq(Messages) /\ Len(r) = Len(q) + 1 /\ Len(q) \in Nat
        /\ \A j \in 1..Len(q) : r[j] = q[j]
        /\ r[Len(q) + 1] = m
    OBVIOUS
  <1> HIDE DEF r
  <1>2. /\ \A i \in 0..Len(q) : 1..i \subseteq 1..Len(q)
        /\ 1..Len(q) \subseteq 1..(Len(q) + 1) /\ Len(q) + 1 \in 1..(Len(q) + 1)
    BY <1>1
  <1>3. \A k : \A i \in 0..Len(q) : Carries(q, i, k) => Carries(r, i, k)
    BY <1>1, <1>2, Zenon DEF Carries
  <1>4. \A k : Carries(q, Len(q), k) \/ Tells(m, k) => Carries(r, Len(q) + 1, k)
    BY <1>1, <1>2, Zenon DEF Carries
  <1>5. \A k : Carries(q, Len(q), k) \/ Tells(m, k) => Carries(r, Len(r), k)
    BY <1>1, <1>4, Zenon
  <1> QED BY <1>1, <1>3, <1>5, Zenon DEF r

LEMMA CarriesTail ==
    ASSUME NEW q \in Seq(Messages), q # << >>
    PROVE  /\ Head(q) \in Messages /\ Tail(q) \in Seq(Messages)
           /\ Len(q) \in Nat \ {0} /\ Len(Tail(q)) = Len(q) - 1
           /\ Head(q) = q[1]
           /\ \A i \in 1..Len(Tail(q)) : Tail(q)[i] = q[i + 1] /\ i + 1 \in 1..Len(q)
           /\ \A k : \A i \in 1..Len(q) :
                Carries(q, i, k) => Tells(Head(q), k) \/ Carries(Tail(q), i - 1, k)
  <1> DEFINE r == Tail(q)
  <1>1. /\ Head(q) \in Messages /\ r \in Seq(Messages)
        /\ Len(q) \in Nat \ {0} /\ Len(r) = Len(q) - 1
        /\ Head(q) = q[1]
        /\ \A i \in 1..Len(r) : r[i] = q[i + 1] /\ i + 1 \in 1..Len(q)
    OBVIOUS
  <1> HIDE DEF r
  <1>2. ASSUME NEW k, NEW i \in 1..Len(q), NEW j \in 1..i, Tells(q[j], k)
        PROVE  Tells(Head(q), k) \/ Carries(r, i - 1, k)
    <2>1. CASE j = 1
      BY <1>1, <1>2, <2>1, Zenon
    <2>2. CASE j # 1
      <3>1. j - 1 \in 1..(i - 1) /\ j - 1 \in 1..Len(r) /\ (j - 1) + 1 = j
        BY <1>1, <2>2
      <3>2. r[j - 1] = q[j]
        BY <1>1, <3>1, Zenon
      <3> QED BY <1>2, <3>1, <3>2, Zenon DEF Carries
    <2> QED BY <2>1, <2>2, Zenon
  <1>3. \A k : \A i \in 1..Len(q) : Carries(q, i, k) => Tells(Head(q), k) \/ Carries(r, i - 1, k)
    BY <1>2, Zenon DEF Carries
  <1> QED BY <1>1, <1>3, Zenon DEF r

(***************************************************************************)
(* The stream only grows, so what it has held of a cursor's bound goes on  *)
(* holding while the session stands still.                                 *)
(***************************************************************************)
LEMMA LatestGrows ==
    ASSUME StreamIInv, [StreamNext]_streamVars
    PROVE  latest \in Nat /\ latest' \in Nat /\ latest <= latest'
  <1>1. latest \in Nat /\ latest' \in Nat
    BY StreamNextKeeps, Zenon DEF StreamIInv, StreamTypeOK
  <1>2. ASSUME NEW p \in Projectors, Project(p) PROVE latest <= latest'
    <2>1. PICK n : n = Cardinality({i \in locked[p] : \A c \in DOMAIN log : log[c].row # i})
                   /\ latest' = latest + n
      BY <1>2, Zenon DEF Project
    <2>2. n \in Nat
      <3>1. PICK m \in Nat : DOMAIN outbox = 1..m
        BY Zenon DEF StreamIInv, StreamTypeOK
      <3>2. IsFiniteSet(DOMAIN outbox)
        BY <3>1, FS_Interval
      <3>3. {i \in locked[p] : \A c \in DOMAIN log : log[c].row # i} \in SUBSET DOMAIN outbox
        BY Zenon DEF StreamIInv, StreamTypeOK
      <3> QED BY <2>1, <3>2, <3>3, FS_Subset, FS_CardinalityType, Zenon
    <2> QED BY <1>1, <2>1, <2>2
  <1>3. AcceptUpload => latest' = latest + 1
    BY Zenon DEF AcceptUpload
  <1>4. \/ AcceptUpload \/ latest' = latest \/ \E p \in Projectors : Project(p)
    BY Zenon DEF StreamNext, streamVars, StartProcessing, CheckProgress, RequestInput, Resume,
           RenewToken, SweepDelete, SweepCommit, StreamTick, Lock, Rollback
  <1> QED BY <1>1, <1>2, <1>3, <1>4

LEMMA StreamStepKeeps ==
    ASSUME StreamIInv, SessionIInv, [StreamNext]_streamVars, UNCHANGED sessionVars
    PROVE  SessionIInv'
  <1>1. latest \in Nat /\ latest' \in Nat /\ latest <= latest'
    BY LatestGrows, Zenon
  <1>2. \A x \in Nat : x <= latest => x <= latest'
    BY <1>1
  <1>3. UNCHANGED <<link, toClient, toServer, acked, cursor, seen, known>> /\ Told' = Told
    BY Zenon DEF sessionVars, Told
  <1>4. SessionTypeOK'
    BY <1>3, Zenon DEF SessionIInv, SessionTypeOK
  <1>5. Wire(toClient, cursor, latest', Told)
    <2>1. \A i \in 1..Len(toClient) : toClient[i].cursor \in Nat
      BY MessageTypes, Zenon DEF SessionIInv, SessionTypeOK
    <2> QED BY <1>2, <2>1, Zenon DEF SessionIInv, Wire
  <1>6. ClientInv'
    BY <1>2, <1>3, Zenon DEF SessionIInv, SessionTypeOK, ClientInv
  <1>7. ASSUME link # None PROVE LinkInv'
    <2>1. link.after \in Nat
      BY <1>7, Zenon DEF SessionIInv, SessionTypeOK, IsLink
    <2>2. Follow(link.queue, link.after, toClient, cursor, latest', Told)
      BY <1>2, <1>7, <2>1, Zenon DEF SessionIInv, LinkInv, Follow
    <2>3. 0..latest \subseteq 0..latest'
      BY <1>1
    <2>4. Paged(link, latest')
      BY <1>2, <1>7, <2>3, Zenon DEF SessionIInv, LinkInv, Paged
    <2> QED BY <1>3, <1>7, <2>2, <2>4, Zenon DEF SessionIInv, LinkInv
  <1> QED BY <1>3, <1>4, <1>5, <1>6, <1>7, Zenon DEF SessionIInv

(***************************************************************************)
(* The handler stops: what it wrote is still on its way, the rest is gone. *)
(***************************************************************************)
LEMMA CloseKeeps ==
    ASSUME SessionIInv, NEW outcome, Close(outcome),
           UNCHANGED <<latest, cursor, seen, known>>
    PROVE  SessionIInv'
  <1>1. link' = None /\ toServer' = << >> /\ UNCHANGED <<toClient, acked>> /\ Told' = Told
    BY Zenon DEF Close, Told
  <1>2. << >> \in Seq(Requests) /\ Acks(<< >>, cursor)
    BY DEF Acks
  <1>3. SessionTypeOK'
    BY <1>1, <1>2, Zenon DEF SessionIInv, SessionTypeOK
  <1>4. ClientInv'
    BY <1>1, <1>2, Zenon DEF SessionIInv, ClientInv
  <1> QED BY <1>1, <1>3, <1>4, Zenon DEF SessionIInv

(***************************************************************************)
(* A step of the loop, the writer's bookkeeping or the read loop that      *)
(* enqueues nothing and does not move the cursor.                          *)
(***************************************************************************)
LEMMA QuietLinkKeeps ==
    ASSUME SessionIInv, link # None, NEW x, link' = x, IsLink(x),
           x.queue = link.queue, x.after = link.after, Paged(x, latest),
           toServer' \in Seq(Requests), Acks(toServer', cursor),
           acked' \in Nat, acked' <= cursor,
           UNCHANGED <<toClient, latest, cursor, seen, known>>
    PROVE  SessionIInv'
  <1>1. SessionTypeOK'
    BY Zenon DEF SessionIInv, SessionTypeOK
  <1>2. Told' = Told
    BY Zenon DEF Told
  <1>3. ClientInv'
    BY <1>2, Zenon DEF SessionIInv, ClientInv
  <1>4. LinkInv'
    BY <1>2, Zenon DEF SessionIInv, LinkInv
  <1> QED BY <1>1, <1>2, <1>3, <1>4, Zenon DEF SessionIInv

(***************************************************************************)
(* A step that enqueues: an event is the one after the loop's cursor, and  *)
(* the cursor moves to it; another message moves the cursor only if it     *)
(* tells the client of what is skipped.                                    *)
(***************************************************************************)
LEMMA EnqueueOrder ==
    ASSUME NEW q \in Seq(Messages), NEW m \in Messages, NEW w \in Seq(Messages),
           NEW a \in Nat, NEW b \in Nat, NEW c \in Nat, NEW last \in Nat, NEW T,
           Outbound(q, w, c, T), Follow(q, a, w, c, last, T),
           a <= b, b <= last,
           m.cursor = 0 \/ (m.cursor = b /\ b = a + 1),
           \A k \in 1..b : k <= a \/ Tells(m, k)
    PROVE  /\ Outbound(Append(q, m), w, c, T)
           /\ Follow(Append(q, m), b, w, c, last, T)
  <1> DEFINE r == Append(q, m)
  <1>1. /\ Len(q) \in Nat /\ Len(r) = Len(q) + 1
        /\ \A j \in 1..Len(q) : r[j] = q[j]
        /\ r[Len(q) + 1] = m
        /\ \A k : \A i \in 0..Len(q) : Carries(q, i, k) => Carries(r, i, k)
        /\ \A k : Carries(q, Len(q), k) \/ Tells(m, k) => Carries(r, Len(r), k)
    BY MessageTypes, CarriesAppend, Zenon
  <1> HIDE DEF r
  <1>2. /\ m.cursor \in Nat
        /\ \A i \in 1..Len(q) : q[i].cursor \in Nat
        /\ \A i \in 1..Len(w) : w[i].cursor \in Nat
    BY MessageTypes, Zenon DEF Messages
  <1>3. /\ c <= a
        /\ \A j \in 1..Len(w) : w[j].cursor <= a
        /\ \A j \in 1..Len(q) : q[j].cursor <= a
        /\ \A k \in 1..a : k \in T \/ Carries(w, Len(w), k) \/ Carries(q, Len(q), k)
    BY Zenon DEF Follow
  <1>4. \A k \in 1..b : k \in T \/ Carries(w, Len(w), k) \/ Carries(r, Len(r), k)
    <2>1. \A k \in 1..b : k \in 1..a \/ Tells(m, k)
      OBVIOUS
    <2> QED BY <1>1, <1>3, <2>1, Zenon
  <1>5. \A j \in 1..Len(r) : (j = Len(q) + 1 /\ r[j] = m) \/ (j \in 1..Len(q) /\ r[j] = q[j])
    <2>1. \A j \in 1..Len(r) : j \in 1..Len(q) \/ j = Len(q) + 1
      BY <1>1
    <2> QED BY <1>1, <2>1, Zenon
  <1>6. Follow(r, b, w, c, last, T)
    <2>1. c <= b /\ m.cursor <= b
      BY <1>2, <1>3
    <2>2. \A j \in 1..Len(w) : w[j].cursor <= b
      BY <1>2, <1>3
    <2>3. \A j \in 1..Len(q) : q[j].cursor <= b
      BY <1>2, <1>3
    <2>4. \A j \in 1..Len(r) : r[j].cursor <= b
      BY <1>5, <2>1, <2>3, Zenon
    <2> QED BY <1>4, <2>1, <2>2, <2>4, Zenon DEF Follow
  <1>7. ASSUME NEW i \in 1..Len(r), r[i].cursor > 0
        PROVE  /\ c < r[i].cursor
               /\ \A j \in 1..Len(w) : w[j].cursor < r[i].cursor
               /\ \A j \in 1..(i - 1) : r[j].cursor < r[i].cursor
               /\ \A k \in 1..r[i].cursor :
                     k \in T \/ Carries(w, Len(w), k) \/ Carries(r, i, k)
    <2>1. CASE i \in 1..Len(q) /\ r[i] = q[i]
      <3>1. i \in 0..Len(q) /\ \A j \in 1..(i - 1) : j \in 1..Len(q)
        BY <1>1, <2>1
      <3>2. q[i].cursor > 0
        BY <1>7, <2>1, Zenon
      <3>3. /\ c < q[i].cursor
            /\ \A j \in 1..Len(w) : w[j].cursor < q[i].cursor
            /\ \A j \in 1..(i - 1) : q[j].cursor < q[i].cursor
            /\ \A k \in 1..q[i].cursor :
                 k \in T \/ Carries(w, Len(w), k) \/ Carries(q, i, k)
        BY <2>1, <3>2, Zenon DEF Outbound
      <3> QED BY <1>1, <2>1, <3>1, <3>3, Zenon
    <2>2. CASE i = Len(q) + 1 /\ r[i] = m
      <3>1. /\ m.cursor = b /\ b = a + 1 /\ i = Len(r)
            /\ \A j \in 1..(i - 1) : j \in 1..Len(q)
        BY <1>1, <1>2, <1>7, <2>2
      <3>2. c < b
        BY <1>3, <3>1
      <3>3. \A j \in 1..Len(w) : w[j].cursor < b
        BY <1>2, <1>3, <3>1
      <3>4. \A j \in 1..Len(q) : q[j].cursor < b
        BY <1>2, <1>3, <3>1
      <3> QED BY <1>1, <1>4, <2>2, <3>1, <3>2, <3>3, <3>4, Zenon
    <2> QED BY <1>5, <2>1, <2>2, Zenon
  <1>8. Outbound(r, w, c, T)
    BY <1>7, Zenon DEF Outbound
  <1> QED BY <1>6, <1>8, Zenon DEF r

LEMMA EnqueueKeeps ==
    ASSUME StreamIInv, SessionIInv, link # None, NEW x, link' = x, IsLink(x),
           NEW m \in Messages, x.queue = Append(link.queue, m),
           link.after <= x.after, x.after <= latest,
           m.cursor = 0 \/ (m.cursor = x.after /\ x.after = link.after + 1),
           \A k \in 1..x.after : k <= link.after \/ Tells(m, k),
           Paged(x, latest), toServer' \in Seq(Requests), Acks(toServer', cursor),
           UNCHANGED <<toClient, latest, acked, cursor, seen, known>>
    PROVE  SessionIInv'
  <1>1. /\ link.queue \in Seq(Messages) /\ toClient \in Seq(Messages)
        /\ link.after \in Nat /\ x.after \in Nat /\ cursor \in Nat /\ latest \in Nat
        /\ Outbound(link.queue, toClient, cursor, Told)
        /\ Follow(link.queue, link.after, toClient, cursor, latest, Told)
    BY Zenon DEF SessionIInv, SessionTypeOK, LinkInv, IsLink, StreamIInv, StreamTypeOK
  <1>2. /\ Outbound(x.queue, toClient, cursor, Told)
        /\ Follow(x.queue, x.after, toClient, cursor, latest, Told)
    <2> PICK q \in Seq(Messages) : q = link.queue
      BY <1>1, Zenon
    <2> PICK a \in Nat : a = link.after
      BY <1>1, Zenon
    <2> PICK b \in Nat : b = x.after
      BY <1>1, Zenon
    <2>1. /\ a <= b /\ b <= latest
          /\ m.cursor = 0 \/ (m.cursor = b /\ b = a + 1)
          /\ \A k \in 1..b : k <= a \/ Tells(m, k)
      BY Zenon
    <2>2. Outbound(q, toClient, cursor, Told) /\ Follow(q, a, toClient, cursor, latest, Told)
      BY <1>1, Zenon
    <2>3. /\ Outbound(Append(q, m), toClient, cursor, Told)
          /\ Follow(Append(q, m), b, toClient, cursor, latest, Told)
      BY <1>1, <2>1, <2>2, EnqueueOrder, Zenon
    <2> QED BY <2>3, Zenon
  <1>3. SessionTypeOK'
    BY Zenon DEF SessionIInv, SessionTypeOK
  <1>4. Told' = Told
    BY Zenon DEF Told
  <1>5. ClientInv'
    BY <1>4, Zenon DEF SessionIInv, ClientInv
  <1>6. LinkInv'
    BY <1>2, <1>4, Zenon DEF LinkInv
  <1> QED BY <1>3, <1>4, <1>5, <1>6, Zenon DEF SessionIInv

-----------------------------------------------------------------------------
(***************************************************************************)
(* The writer moves the head of the queue onto the wire.                   *)
(***************************************************************************)
LEMMA WriteOrder ==
    ASSUME NEW q \in Seq(Messages), q # << >>, NEW w \in Seq(Messages),
           NEW a \in Nat, NEW c \in Nat, NEW last \in Nat, NEW T,
           Outbound(q, w, c, T), Follow(q, a, w, c, last, T), Wire(w, c, last, T)
    PROVE  /\ Wire(Append(w, Head(q)), c, last, T)
           /\ Outbound(Tail(q), Append(w, Head(q)), c, T)
           /\ Follow(Tail(q), a, Append(w, Head(q)), c, last, T)
  <1> DEFINE m == Head(q)
             r == Tail(q)
             v == Append(w, m)
  <1>1. /\ m \in Messages /\ r \in Seq(Messages)
        /\ Len(q) \in Nat \ {0} /\ Len(r) = Len(q) - 1 /\ m = q[1]
        /\ \A i \in 1..Len(r) : r[i] = q[i + 1] /\ i + 1 \in 1..Len(q)
        /\ \A k : \A i \in 1..Len(q) : Carries(q, i, k) => Tells(m, k) \/ Carries(r, i - 1, k)
    BY CarriesTail, Zenon
  <1> HIDE DEF m, r
  <1>2. /\ v \in Seq(Messages) /\ Len(v) = Len(w) + 1 /\ Len(w) \in Nat
        /\ \A j \in 1..Len(w) : v[j] = w[j]
        /\ v[Len(w) + 1] = m
        /\ \A k : \A i \in 0..Len(w) : Carries(w, i, k) => Carries(v, i, k)
        /\ \A k : Carries(w, Len(w), k) \/ Tells(m, k) => Carries(v, Len(v), k)
    BY <1>1, CarriesAppend, MessageTypes, Zenon
  <1> HIDE DEF v
  <1>3. /\ m.cursor \in Nat
        /\ \A i \in 1..Len(q) : q[i].cursor \in Nat
        /\ \A i \in 1..Len(w) : w[i].cursor \in Nat
    BY <1>1, MessageTypes, Zenon DEF Messages
  <1>4. \A j \in 1..Len(v) : (j = Len(w) + 1 /\ v[j] = m) \/ (j \in 1..Len(w) /\ v[j] = w[j])
    <2>1. \A j \in 1..Len(v) : j \in 1..Len(w) \/ j = Len(w) + 1
      BY <1>2
    <2> QED BY <1>2, <2>1, Zenon
  <1>5. /\ a <= last /\ c <= a
        /\ \A j \in 1..Len(w) : w[j].cursor <= a
        /\ \A j \in 1..Len(q) : q[j].cursor <= a
        /\ \A k \in 1..a : k \in T \/ Carries(w, Len(w), k) \/ Carries(q, Len(q), k)
    BY Zenon DEF Follow
  <1>6. 1 \in 1..Len(q) /\ Len(q) \in 1..Len(q) /\ 1 - 1 = 0 /\ 1..0 = {}
    BY <1>1
  <1>7. Follow(r, a, v, c, last, T)
    <2>1. \A j \in 1..Len(v) : v[j].cursor <= a
      BY <1>1, <1>4, <1>5, <1>6, Zenon
    <2>2. \A j \in 1..Len(r) : r[j].cursor <= a
      BY <1>1, <1>5, Zenon
    <2>3. \A k \in 1..a : k \in T \/ Carries(v, Len(v), k) \/ Carries(r, Len(r), k)
      BY <1>1, <1>2, <1>5, <1>6, Zenon
    <2> QED BY <1>5, <2>1, <2>2, <2>3, Zenon DEF Follow
  <1>8. m.cursor > 0 =>
          /\ c < m.cursor
          /\ \A j \in 1..Len(w) : w[j].cursor < m.cursor
          /\ \A k \in 1..m.cursor : k \in T \/ Carries(v, Len(v), k)
    <2> SUFFICES ASSUME m.cursor > 0
                 PROVE  /\ c < m.cursor
                        /\ \A j \in 1..Len(w) : w[j].cursor < m.cursor
                        /\ \A k \in 1..m.cursor : k \in T \/ Carries(v, Len(v), k)
      BY Zenon
    <2>1. /\ c < m.cursor
          /\ \A j \in 1..Len(w) : w[j].cursor < m.cursor
          /\ \A k \in 1..m.cursor : k \in T \/ Carries(w, Len(w), k) \/ Carries(q, 1, k)
      BY <1>1, <1>6, Zenon DEF Outbound
    <2>2. \A k : Carries(q, 1, k) => Tells(m, k)
      <3>1. 1..1 = {1}
        OBVIOUS
      <3> QED BY <1>1, <3>1, Zenon DEF Carries
    <2> QED BY <1>2, <2>1, <2>2, Zenon
  <1>9. ASSUME NEW i \in 1..Len(v), v[i].cursor > 0
        PROVE  /\ v[i].cursor <= last /\ c < v[i].cursor
               /\ \A j \in 1..(i - 1) : v[j].cursor < v[i].cursor
               /\ \A k \in 1..v[i].cursor : k \in T \/ Carries(v, i, k)
    <2>1. CASE i \in 1..Len(w) /\ v[i] = w[i]
      <3>1. i \in 0..Len(w) /\ \A j \in 1..(i - 1) : j \in 1..Len(w)
        BY <1>2, <2>1
      <3>2. w[i].cursor > 0
        BY <1>9, <2>1, Zenon
      <3>3. /\ w[i].cursor <= last /\ c < w[i].cursor
            /\ \A j \in 1..(i - 1) : w[j].cursor < w[i].cursor
            /\ \A k \in 1..w[i].cursor : k \in T \/ Carries(w, i, k)
        BY <2>1, <3>2, Zenon DEF Wire
      <3> QED BY <1>2, <2>1, <3>1, <3>3, Zenon
    <2>2. CASE i = Len(w) + 1 /\ v[i] = m
      <3>1. i = Len(v) /\ \A j \in 1..(i - 1) : j \in 1..Len(w)
        BY <1>2, <2>2
      <3>2. m.cursor <= last /\ m.cursor > 0
        <4>1. m.cursor <= a
          BY <1>1, <1>5, <1>6, Zenon
        <4> QED BY <1>3, <1>5, <1>9, <2>2, <4>1
      <3> QED BY <1>2, <1>8, <2>2, <3>1, <3>2, Zenon
    <2> QED BY <1>4, <2>1, <2>2, Zenon
  <1>10. ASSUME NEW i \in 1..Len(r), r[i].cursor > 0
         PROVE  /\ c < r[i].cursor
                /\ \A j \in 1..Len(v) : v[j].cursor < r[i].cursor
                /\ \A j \in 1..(i - 1) : r[j].cursor < r[i].cursor
                /\ \A k \in 1..r[i].cursor :
                      k \in T \/ Carries(v, Len(v), k) \/ Carries(r, i, k)
    <2>1. /\ r[i] = q[i + 1] /\ i + 1 \in 1..Len(q) /\ (i + 1) - 1 = i
          /\ 1 \in 1..((i + 1) - 1)
          /\ \A j \in 1..(i - 1) : j + 1 \in 1..((i + 1) - 1) /\ j \in 1..Len(r)
      BY <1>1
    <2>2. q[i + 1].cursor > 0
      BY <1>10, <2>1, Zenon
    <2>3. /\ c < q[i + 1].cursor
          /\ \A j \in 1..Len(w) : w[j].cursor < q[i + 1].cursor
          /\ \A j \in 1..((i + 1) - 1) : q[j].cursor < q[i + 1].cursor
          /\ \A k \in 1..q[i + 1].cursor :
               k \in T \/ Carries(w, Len(w), k) \/ Carries(q, i + 1, k)
      BY <2>1, <2>2, Zenon DEF Outbound
    <2>4. \A j \in 1..Len(v) : v[j].cursor < r[i].cursor
      BY <1>1, <1>4, <2>1, <2>3, Zenon
    <2>5. \A j \in 1..(i - 1) : r[j].cursor < r[i].cursor
      BY <1>1, <2>1, <2>3, Zenon
    <2>6. \A k : Carries(q, i + 1, k) => Tells(m, k) \/ Carries(r, i, k)
      BY <1>1, <2>1, Zenon
    <2> QED BY <1>2, <2>1, <2>3, <2>4, <2>5, <2>6, Zenon
  <1>11. Wire(v, c, last, T)
    BY <1>9, Zenon DEF Wire
  <1>12. Outbound(r, v, c, T)
    BY <1>10, Zenon DEF Outbound
  <1> QED BY <1>7, <1>11, <1>12, Zenon DEF m, r, v

(***************************************************************************)
(* The client takes the head of the wire: it moves to the cursor d, and    *)
(* knows of U, which is what it knew and what the message tells.           *)
(***************************************************************************)
LEMMA ReceiveOrder ==
    ASSUME NEW w \in Seq(Messages), w # << >>, NEW c \in Nat, NEW last \in Nat, c <= last,
           NEW T, NEW U, T \subseteq U, 1..c \subseteq T, Wire(w, c, last, T),
           \A k \in 1..last : Tells(Head(w), k) => k \in U,
           NEW d \in Nat, Head(w).cursor > 0 => d = Head(w).cursor,
           ~(Head(w).cursor > 0) => d = c
    PROVE  /\ c <= d /\ d <= last /\ Head(w).cursor <= d
           /\ 1..d \subseteq U
           /\ Wire(Tail(w), d, last, U)
           /\ \A q \in Seq(Messages), a \in Nat :
                Outbound(q, w, c, T) /\ Follow(q, a, w, c, last, T) =>
                  Outbound(q, Tail(w), d, U) /\ Follow(q, a, Tail(w), d, last, U)
  <1> DEFINE m == Head(w)
             v == Tail(w)
  <1>1. /\ m \in Messages /\ v \in Seq(Messages)
        /\ Len(w) \in Nat \ {0} /\ Len(v) = Len(w) - 1 /\ m = w[1]
        /\ \A i \in 1..Len(v) : v[i] = w[i + 1] /\ i + 1 \in 1..Len(w)
        /\ \A k : \A i \in 1..Len(w) : Carries(w, i, k) => Tells(m, k) \/ Carries(v, i - 1, k)
    BY CarriesTail, Zenon
  <1>2. /\ \A k \in 1..last : Tells(m, k) => k \in U
        /\ m.cursor > 0 => d = m.cursor
        /\ ~(m.cursor > 0) => d = c
    BY Zenon
  <1> HIDE DEF m, v
  <1>3. /\ m.cursor \in Nat
        /\ \A i \in 1..Len(w) : w[i].cursor \in Nat
    BY <1>1, MessageTypes, Zenon DEF Messages
  <1>4. 1 \in 1..Len(w) /\ Len(w) \in 1..Len(w) /\ 1..1 = {1}
    BY <1>1
  <1>5. m.cursor > 0 =>
          /\ m.cursor <= last /\ c < m.cursor
          /\ \A k \in 1..m.cursor : k \in T \/ Tells(m, k)
    <2>1. \A k : Carries(w, 1, k) => Tells(m, k)
      BY <1>1, <1>4, Zenon DEF Carries
    <2> QED BY <1>1, <1>4, <2>1, Zenon DEF Wire
  <1>6. c <= d /\ d <= last /\ m.cursor <= d
    BY <1>2, <1>3, <1>5
  <1>7. 1..d \subseteq U
    <2>1. CASE m.cursor > 0
      <3>1. \A k \in 1..d : k \in 1..last
        BY <1>6
      <3> QED BY <1>2, <1>5, <2>1, <3>1, Zenon
    <2>2. CASE ~(m.cursor > 0)
      BY <1>2, <2>2, Zenon
    <2> QED BY <2>1, <2>2, Zenon
  <1>8. ASSUME NEW i \in 1..Len(v), v[i].cursor > 0
        PROVE  /\ v[i].cursor <= last /\ d < v[i].cursor
               /\ \A j \in 1..(i - 1) : v[j].cursor < v[i].cursor
               /\ \A k \in 1..v[i].cursor : k \in U \/ Carries(v, i, k)
    <2>1. /\ v[i] = w[i + 1] /\ i + 1 \in 1..Len(w) /\ (i + 1) - 1 = i
          /\ 1 \in 1..((i + 1) - 1)
          /\ \A j \in 1..(i - 1) : j + 1 \in 1..((i + 1) - 1) /\ j \in 1..Len(v)
      BY <1>1
    <2>2. w[i + 1].cursor > 0
      BY <1>8, <2>1, Zenon
    <2>3. /\ w[i + 1].cursor <= last /\ c < w[i + 1].cursor
          /\ \A j \in 1..((i + 1) - 1) : w[j].cursor < w[i + 1].cursor
          /\ \A k \in 1..w[i + 1].cursor : k \in T \/ Carries(w, i + 1, k)
      BY <2>1, <2>2, Zenon DEF Wire
    <2>4. d < v[i].cursor
      BY <1>1, <1>2, <2>1, <2>3, Zenon
    <2>5. \A j \in 1..(i - 1) : v[j].cursor < v[i].cursor
      BY <1>1, <2>1, <2>3, Zenon
    <2>6. \A k \in 1..v[i].cursor : k \in 1..last
      BY <1>3, <2>1, <2>3
    <2>7. \A k \in 1..v[i].cursor : k \in U \/ Carries(v, i, k)
      BY <1>1, <1>2, <2>1, <2>3, <2>6, Zenon
    <2> QED BY <2>1, <2>3, <2>4, <2>5, <2>7, Zenon
  <1>9. Wire(v, d, last, U)
    BY <1>8, Zenon DEF Wire
  <1>10. \A k \in 1..last : Carries(w, Len(w), k) => k \in U \/ Carries(v, Len(v), k)
    BY <1>1, <1>2, <1>4, Zenon
  <1>11. ASSUME NEW q \in Seq(Messages), NEW a \in Nat,
                Outbound(q, w, c, T), Follow(q, a, w, c, last, T)
         PROVE  Outbound(q, v, d, U) /\ Follow(q, a, v, d, last, U)
    <2>1. \A j \in 1..Len(q) : q[j].cursor \in Nat
      BY MessageTypes, Zenon
    <2>2. /\ a <= last /\ c <= a
          /\ \A j \in 1..Len(w) : w[j].cursor <= a
          /\ \A j \in 1..Len(q) : q[j].cursor <= a
          /\ \A k \in 1..a : k \in T \/ Carries(w, Len(w), k) \/ Carries(q, Len(q), k)
      BY <1>11, Zenon DEF Follow
    <2>3. \A k \in 1..a : k \in 1..last
      BY <2>2
    <2>4. d <= a
      BY <1>1, <1>2, <1>4, <2>2, Zenon
    <2>5. \A j \in 1..Len(v) : v[j].cursor <= a
      BY <1>1, <2>2, Zenon
    <2>6. \A k \in 1..a : k \in U \/ Carries(v, Len(v), k) \/ Carries(q, Len(q), k)
      BY <1>10, <2>2, <2>3, Zenon
    <2>7. Follow(q, a, v, d, last, U)
      BY <2>2, <2>4, <2>5, <2>6, Zenon DEF Follow
    <2>8. ASSUME NEW i \in 1..Len(q), q[i].cursor > 0
          PROVE  /\ d < q[i].cursor
                 /\ \A j \in 1..Len(v) : v[j].cursor < q[i].cursor
                 /\ \A j \in 1..(i - 1) : q[j].cursor < q[i].cursor
                 /\ \A k \in 1..q[i].cursor :
                      k \in U \/ Carries(v, Len(v), k) \/ Carries(q, i, k)
      <3>1. /\ c < q[i].cursor
            /\ \A j \in 1..Len(w) : w[j].cursor < q[i].cursor
            /\ \A j \in 1..(i - 1) : q[j].cursor < q[i].cursor
            /\ \A k \in 1..q[i].cursor :
                 k \in T \/ Carries(w, Len(w), k) \/ Carries(q, i, k)
        BY <1>11, <2>8, Zenon DEF Outbound
      <3>2. d < q[i].cursor
        BY <1>1, <1>2, <1>4, <3>1, Zenon
      <3>3. \A j \in 1..Len(v) : v[j].cursor < q[i].cursor
        BY <1>1, <3>1, Zenon
      <3>4. q[i].cursor <= last
        BY <2>1, <2>2
      <3>5. \A k \in 1..q[i].cursor : k \in 1..last
        BY <2>1, <3>4
      <3> QED BY <1>10, <3>1, <3>2, <3>3, <3>5, Zenon
    <2>9. Outbound(q, v, d, U)
      BY <2>8, Zenon DEF Outbound
    <2> QED BY <2>7, <2>9, Zenon
  <1> QED BY <1>6, <1>7, <1>9, <1>11, Zenon DEF m, v

-----------------------------------------------------------------------------
(***************************************************************************)
(* The link after an enqueue.                                              *)
(***************************************************************************)
LEMMA EnqueuedLink ==
    ASSUME NEW l, IsLink(l), NEW kind \in {"welcome", "event", "resync", "command"}, NEW c \in Nat,
           kind = "resync" => c = 0
    PROVE  /\ [seq |-> l.next, kind |-> kind, cursor |-> c] \in Messages
           /\ IsLink(Enqueued(l, kind, c))
           /\ Enqueued(l, kind, c).queue
                = Append(l.queue, [seq |-> l.next, kind |-> kind, cursor |-> c])
           /\ Enqueued(l, kind, c).after = l.after
           /\ Enqueued(l, kind, c).phase = l.phase
           /\ Enqueued(l, kind, c).page = l.page
           /\ Enqueued(l, kind, c).snapshot = l.snapshot
  <1> DEFINE m == [seq |-> l.next, kind |-> kind, cursor |-> c]
             e == Enqueued(l, kind, c)
  <1>1. m \in Messages
    BY Zenon DEF Messages, IsLink
  <1>2. /\ DOMAIN e = Fields /\ e.queue = Append(l.queue, m) /\ e.next = l.next + 1
        /\ e.after = l.after /\ e.phase = l.phase /\ e.page = l.page /\ e.snapshot = l.snapshot
    BY Zenon DEF IsLink, Fields, Enqueued
  <1>3. l.queue \in Seq(Messages) /\ l.next \in Nat /\ l.after \in Nat
    BY Zenon DEF IsLink
  <1>4. Append(l.queue, m) \in Seq(Messages) /\ l.next + 1 \in Nat
    <2>1. Append(l.queue, m) \in Seq(Messages)
      BY <1>1, <1>3, CarriesAppend, Zenon
    <2> QED BY <1>3, <2>1
  <1> HIDE DEF e
  <1>5. IsLink(e)
    BY <1>2, <1>3, <1>4, Zenon DEF IsLink
  <1> QED BY <1>1, <1>2, <1>5, Zenon DEF e

(***************************************************************************)
(* What an invariant link is, for the steps below.                         *)
(***************************************************************************)
LEMMA LinkFacts ==
    ASSUME StreamIInv, SessionIInv, link # None
    PROVE  /\ IsLink(link) /\ link.after \in Nat /\ link.next \in Nat
           /\ link.queue \in Seq(Messages)
           /\ latest \in Nat /\ cursor \in Nat /\ link.after <= latest
           /\ Paged(link, latest)
           /\ toServer \in Seq(Requests) /\ Acks(toServer, cursor)
           /\ acked \in Nat /\ acked <= cursor
  BY Zenon DEF StreamIInv, StreamTypeOK, SessionIInv, SessionTypeOK, ClientInv, LinkInv, Follow,
               IsLink

(***************************************************************************)
(* A resynchronisation covers everything up to the latest cursor.          *)
(***************************************************************************)
LEMMA ResyncKeeps ==
    ASSUME StreamIInv, SessionIInv, link # None, Resync(link, latest),
           UNCHANGED <<latest, cursor, seen, known>>
    PROVE  SessionIInv'
  <1>1. CASE Full(link)
    <2>1. Close("closed")
      BY <1>1, Zenon DEF Resync
    <2> QED BY <2>1, CloseKeeps, Zenon
  <1>2. CASE ~Full(link)
    <2> DEFINE m == [seq |-> link.next, kind |-> "resync", cursor |-> 0]
               e == Enqueued(link, "resync", 0)
               x == [e EXCEPT !.phase = "sending", !.after = latest, !.page = {}, !.more = FALSE]
    <2>1. link' = x /\ UNCHANGED <<toClient, toServer, acked>>
      BY <1>2, Zenon DEF Resync
    <2>2. m \in Messages /\ IsLink(e) /\ e.queue = Append(link.queue, m)
      <3>1. 0 \in Nat /\ IsLink(link)
        BY LinkFacts, Zenon
      <3> QED BY <3>1, EnqueuedLink, Zenon
    <2> HIDE DEF e
    <2>3. IsLink(x) /\ x.queue = e.queue /\ x.after = latest /\ x.phase = "sending" /\ x.page = {}
      <3>1. /\ DOMAIN x = Fields /\ x.queue = e.queue /\ x.after = latest
            /\ x.phase = "sending" /\ x.page = {} /\ x.next = e.next
        BY <2>2, Zenon DEF IsLink, Fields
      <3> HIDE DEF x
      <3>2. e.next \in Nat /\ e.queue \in Seq(Messages) /\ latest \in Nat
        BY <2>2, LinkFacts, Zenon DEF IsLink
      <3> QED BY <3>1, <3>2, Zenon DEF IsLink
    <2> HIDE DEF x
    <2>4. Paged(x, latest)
      BY <2>3, Zenon DEF Paged
    <2>5. m.cursor = 0 /\ \A k : Tells(m, k)
      BY Zenon DEF Tells
    <2>6. x.after <= latest /\ link.after <= x.after
      BY <2>3, LinkFacts
    <2> HIDE DEF m
    <2>7. x.queue = Append(link.queue, m)
      BY <2>2, <2>3, Zenon
    <2> QED BY <2>1, <2>2, <2>3, <2>4, <2>5, <2>6, <2>7, LinkFacts, EnqueueKeeps, Zenon
  <1> QED BY <1>1, <1>2, Zenon

(***************************************************************************)
(* Replay's first statement: the loop never stands past the stream, so the *)
(* only resynchronisation is the one for expired events.                   *)
(***************************************************************************)
LEMMA LoadAuthorityKeeps ==
    ASSUME StreamIInv, SessionIInv, LoadAuthority, UNCHANGED streamVars
    PROVE  SessionIInv'
  <1>1. link # None /\ UNCHANGED <<cursor, seen, known, latest>>
    BY Zenon DEF LoadAuthority, streamVars
  <1>2. ~(link.after > latest)
    BY <1>1, LinkFacts
  <1>3. CASE Close("closed")
    BY <1>1, <1>3, CloseKeeps, Zenon
  <1>4. CASE Resync(link, latest)
    BY <1>1, <1>4, ResyncKeeps, Zenon
  <1>5. CASE /\ link' = [link EXCEPT !.phase = "list",
                                     !.snapshot = [latest |-> latest, at |-> now]]
             /\ UNCHANGED <<socket, toClient, toServer, acked>>
    <2> DEFINE x == [link EXCEPT !.phase = "list", !.snapshot = [latest |-> latest, at |-> now]]
    <2>1. IsLink(link) /\ latest \in Nat /\ latest <= latest
      BY <1>1, LinkFacts
    <2>2. /\ DOMAIN x = Fields /\ x.phase = "list" /\ x.page = link.page
          /\ x.snapshot = [latest |-> latest, at |-> now]
          /\ x.after = link.after /\ x.queue = link.queue /\ x.next = link.next
      BY <2>1, Zenon DEF IsLink, Fields
    <2>3. link' = x
      BY <1>5, Zenon
    <2> HIDE DEF x
    <2>4. x.snapshot.latest = latest
      BY <2>2
    <2>5. IsLink(x)
      BY <2>1, <2>2, Zenon DEF IsLink
    <2>6. Paged(x, latest)
      <3>1. Paged(link, latest)
        BY <1>1, LinkFacts, Zenon
      <3>2. x.phase # "page"
        BY <2>2, Zenon
      <3> QED BY <2>1, <2>2, <2>4, <3>1, <3>2, Zenon DEF Paged
    <2>7. UNCHANGED <<toClient, toServer, acked>>
      BY <1>5, Zenon
    <2> QED BY <1>1, <2>2, <2>3, <2>5, <2>6, <2>7, LinkFacts, QuietLinkKeeps, Zenon
  <1> QED BY <1>2, <1>3, <1>4, <1>5, Zenon DEF LoadAuthority

(***************************************************************************)
(* Replay's second statement: a window that NewReplayWindow accepts goes   *)
(* on from the loop's cursor without a gap and stays below the latest one. *)
(***************************************************************************)
LEMMA ListEventsKeeps ==
    ASSUME StreamIInv, SessionIInv, ListEvents, UNCHANGED streamVars
    PROVE  SessionIInv'
  <1>1. link # None /\ link.phase = "list" /\ UNCHANGED <<cursor, seen, known, latest>>
    BY Zenon DEF ListEvents, streamVars
  <1>2. CASE Close("closed")
    BY <1>1, <1>2, CloseKeeps, Zenon
  <1>3. CASE ~Close("closed")
    <2> DEFINE page == FirstRows(link)
               more == Cardinality(Rows(link)) > PageSize
               x == [link EXCEPT !.phase = IF page = {} THEN "idle" ELSE "page",
                                 !.snapshot = None, !.page = page, !.more = more,
                                 !.reading = @ \/ page = {}]
    <2>1. ValidWindow(link) /\ link' = x /\ UNCHANGED <<toClient, toServer, acked>>
      BY <1>3, Zenon DEF ListEvents
    <2>2. IsLink(link) /\ Paged(link, latest) /\ latest \in Nat /\ link.after \in Nat
      BY <1>1, LinkFacts, Zenon
    <2>3. Cardinality(page) \in Nat
      <3>1. page \subseteq DOMAIN log /\ DOMAIN log \subseteq 1..latest
        BY Zenon DEF FirstRows, Rows, Live, StreamIInv, StreamTypeOK
      <3>2. IsFiniteSet(1..latest) /\ page \in SUBSET (1..latest)
        BY <2>2, <3>1, FS_Interval
      <3> HIDE DEF page
      <3> QED BY <3>2, FS_Subset, FS_CardinalityType, Zenon
    <2>4. /\ page = (link.after + 1)..(link.after + Cardinality(page))
          /\ link.after + Cardinality(page) <= link.snapshot.latest
      BY <2>1, Zenon DEF ValidWindow
    <2> HIDE DEF page, more
    <2>5. /\ DOMAIN x = Fields /\ x.queue = link.queue /\ x.after = link.after
          /\ x.next = link.next /\ x.page = page
          /\ x.phase = IF page = {} THEN "idle" ELSE "page"
      BY <2>2, Zenon DEF IsLink, Fields
    <2> HIDE DEF x
    <2>6. IsLink(x)
      BY <2>2, <2>5, Zenon DEF IsLink
    <2>7. link.snapshot.latest \in Nat /\ link.snapshot.latest <= latest
      BY <1>1, <2>2, Zenon DEF Paged
    <2>8. link.after + Cardinality(page) \in 0..latest
      BY <2>2, <2>3, <2>4, <2>7
    <2>9. /\ x.phase # "list"
          /\ x.phase = "page" => x.page # {}
      BY <2>5, Zenon
    <2>10. Paged(x, latest)
      BY <2>4, <2>5, <2>8, <2>9, Zenon DEF Paged
    <2> QED BY <1>1, <2>1, <2>5, <2>6, <2>10, LinkFacts, QuietLinkKeeps, Zenon
  <1> QED BY <1>2, <1>3, Zenon

(***************************************************************************)
(* The loop sends the lowest event of its page, the one after its cursor.  *)
(***************************************************************************)
LEMMA SendEventKeeps ==
    ASSUME StreamIInv, SessionIInv, SendEvent, UNCHANGED streamVars
    PROVE  SessionIInv'
  <1>1. link # None /\ link.phase = "page" /\ UNCHANGED <<cursor, seen, known, latest>>
    BY Zenon DEF SendEvent, streamVars
  <1>2. CASE Close("closed")
    BY <1>1, <1>2, CloseKeeps, Zenon
  <1>3. CASE ~Close("closed")
    <2> PICK c : c = Lowest(link.page)
      BY Zenon
    <2> DEFINE m == [seq |-> link.next, kind |-> "event", cursor |-> c]
               e == Enqueued(link, "event", c)
               x == [e EXCEPT !.phase = "sending", !.page = @ \ {c}, !.after = c]
    <2>1. link' = x /\ UNCHANGED <<toClient, toServer, acked>>
      BY <1>3, Zenon DEF SendEvent
    <2>2. IsLink(link) /\ Paged(link, latest) /\ latest \in Nat /\ link.after \in Nat
      BY <1>1, LinkFacts, Zenon
    <2>3. PICK end \in 0..latest : link.page # {} /\ link.page = (link.after + 1)..end
      BY <1>1, <2>2, Zenon DEF Paged
    <2>4. c = link.after + 1 /\ c \in Nat /\ c <= end
      <3>1. link.page \subseteq Nat /\ link.after + 1 \in link.page
        BY <2>2, <2>3
      <3>2. c \in link.page /\ c <= link.after + 1
        BY <2>3, <3>1, LowestIsLeast, Zenon
      <3> QED BY <2>2, <2>3, <3>2
    <2>5. /\ m \in Messages /\ IsLink(e) /\ e.queue = Append(link.queue, m)
          /\ e.page = link.page
      BY <2>2, <2>4, EnqueuedLink, Zenon
    <2>6. m.cursor = c
      BY Zenon
    <2> HIDE DEF e, m
    <2>7. /\ DOMAIN x = Fields /\ x.queue = e.queue /\ x.after = c
          /\ x.phase = "sending" /\ x.page = e.page \ {c} /\ x.next = e.next
      BY <2>5, Zenon DEF IsLink, Fields
    <2> HIDE DEF x
    <2>8. IsLink(x)
      BY <2>4, <2>5, <2>7, Zenon DEF IsLink
    <2>9. x.page = (x.after + 1)..end
      BY <2>2, <2>3, <2>4, <2>5, <2>7
    <2>10. Paged(x, latest)
      <3>1. x.phase # "page" /\ x.phase # "list"
        BY <2>7, Zenon
      <3> QED BY <2>9, <3>1, Zenon DEF Paged
    <2>11. /\ link.after <= x.after /\ x.after <= latest
           /\ \A k \in 1..x.after : k <= link.after \/ k = c
      BY <2>2, <2>4, <2>7
    <2>12. \A k \in 1..x.after : k <= link.after \/ Tells(m, k)
      BY <2>6, <2>11, Zenon DEF Tells
    <2>13. x.queue = Append(link.queue, m) /\ m.cursor = x.after /\ x.after = link.after + 1
      BY <2>4, <2>5, <2>6, <2>7, Zenon
    <2> QED BY <1>1, <2>1, <2>5, <2>8, <2>10, <2>11, <2>12, <2>13, LinkFacts, EnqueueKeeps,
               Zenon
  <1> QED BY <1>2, <1>3, Zenon

LEMMA WriteKeeps ==
    ASSUME StreamIInv, SessionIInv, Write, UNCHANGED streamVars
    PROVE  SessionIInv'
  <1> DEFINE q == link.queue
             x == [link EXCEPT !.writing = Head(q), !.queue = Tail(@)]
  <1>1. /\ link # None /\ q # << >> /\ link' = x /\ toClient' = Append(toClient, Head(q))
        /\ UNCHANGED <<toServer, acked, cursor, seen, known, latest>>
    BY Zenon DEF Write, streamVars
  <1>2. IsLink(link) /\ q \in Seq(Messages) /\ link.after \in Nat /\ latest \in Nat
        /\ cursor \in Nat /\ toClient \in Seq(Messages)
    BY <1>1, LinkFacts, Zenon DEF SessionIInv, SessionTypeOK
  <1>3. /\ DOMAIN x = Fields /\ x.queue = Tail(q) /\ x.after = link.after
        /\ x.next = link.next /\ x.phase = link.phase /\ x.page = link.page
        /\ x.snapshot = link.snapshot
    BY <1>2, Zenon DEF IsLink, Fields
  <1> HIDE DEF x
  <1>4. /\ Outbound(q, toClient, cursor, Told)
        /\ Follow(q, link.after, toClient, cursor, latest, Told)
        /\ Wire(toClient, cursor, latest, Told)
    BY <1>1, Zenon DEF SessionIInv, LinkInv
  <1> HIDE DEF q
  <1>5. /\ Wire(Append(toClient, Head(q)), cursor, latest, Told)
        /\ Outbound(Tail(q), Append(toClient, Head(q)), cursor, Told)
        /\ Follow(Tail(q), link.after, Append(toClient, Head(q)), cursor, latest, Told)
    BY <1>1, <1>2, <1>4, WriteOrder, Zenon
  <1>6. Tail(q) \in Seq(Messages) /\ Append(toClient, Head(q)) \in Seq(Messages)
    <2>1. Tail(q) \in Seq(Messages) /\ Head(q) \in Messages
      BY <1>1, <1>2, CarriesTail, Zenon
    <2> QED BY <1>2, <2>1, CarriesAppend, Zenon
  <1>7. IsLink(x)
    BY <1>2, <1>3, <1>6, Zenon DEF IsLink
  <1>8. SessionTypeOK'
    BY <1>1, <1>6, <1>7, Zenon DEF SessionIInv, SessionTypeOK
  <1>9. Told' = Told
    BY <1>1, Zenon DEF Told
  <1>10. ClientInv'
    BY <1>1, <1>9, Zenon DEF SessionIInv, ClientInv
  <1>11. Paged(x, latest)
    BY <1>1, <1>3, LinkFacts, Zenon DEF Paged
  <1>12. LinkInv'
    BY <1>1, <1>3, <1>5, <1>9, <1>11, Zenon DEF LinkInv
  <1> QED BY <1>1, <1>5, <1>8, <1>9, <1>10, <1>12, Zenon DEF SessionIInv

LEMMA MarkSentKeeps ==
    ASSUME StreamIInv, SessionIInv, MarkSent, UNCHANGED streamVars
    PROVE  SessionIInv'
  <1>1. /\ link # None
        /\ UNCHANGED <<toClient, toServer, acked, cursor, seen, known, latest>>
    BY Zenon DEF MarkSent, streamVars
  <1>2. IsLink(link) /\ Paged(link, latest)
    BY <1>1, LinkFacts, Zenon
  <1> DEFINE sent == [link EXCEPT !.highestSent = link.writing.seq, !.writing = None]
  <1>3. /\ DOMAIN sent = Fields /\ sent.queue = link.queue /\ sent.after = link.after
        /\ sent.next = link.next /\ sent.phase = link.phase /\ sent.page = link.page
        /\ sent.snapshot = link.snapshot
    BY <1>2, Zenon DEF IsLink, Fields
  <1>4. \/ link' = sent
        \/ link.page # {} /\ link' = [sent EXCEPT !.phase = "page"]
        \/ link' = [sent EXCEPT !.phase = "idle", !.reading = @ \/ ~link.more]
    BY Zenon DEF MarkSent
  <1> HIDE DEF sent
  <1>5. ASSUME NEW x, link' = x, DOMAIN x = Fields, x.queue = sent.queue, x.after = sent.after,
               x.next = sent.next, x.page = sent.page, x.snapshot = sent.snapshot,
               x.phase = sent.phase \/ x.phase = "idle" \/ (x.phase = "page" /\ link.page # {})
        PROVE  SessionIInv'
    <2>1. IsLink(x) /\ x.queue = link.queue /\ x.after = link.after
      BY <1>2, <1>3, <1>5, Zenon DEF IsLink
    <2>2. /\ x.phase = "page" => x.phase = link.phase \/ link.page # {}
          /\ x.phase = "list" => x.phase = link.phase
      BY <1>3, <1>5, Zenon
    <2>3. Paged(x, latest)
      BY <1>2, <1>3, <1>5, <2>2, Zenon DEF Paged
    <2> QED BY <1>1, <1>5, <2>1, <2>3, LinkFacts, QuietLinkKeeps, Zenon
  <1>6. CASE link' = sent
    BY <1>3, <1>5, <1>6, Zenon
  <1>7. CASE link.page # {} /\ link' = [sent EXCEPT !.phase = "page"]
    <2> DEFINE x == [sent EXCEPT !.phase = "page"]
    <2>1. /\ DOMAIN x = Fields /\ x.queue = sent.queue /\ x.after = sent.after
          /\ x.next = sent.next /\ x.page = sent.page /\ x.snapshot = sent.snapshot
          /\ x.phase = "page"
      BY <1>3, Zenon DEF Fields
    <2>2. link' = x
      BY <1>7, Zenon
    <2> HIDE DEF x
    <2> QED BY <1>5, <1>7, <2>1, <2>2, Zenon
  <1>8. CASE link' = [sent EXCEPT !.phase = "idle", !.reading = @ \/ ~link.more]
    <2> DEFINE x == [sent EXCEPT !.phase = "idle", !.reading = @ \/ ~link.more]
    <2>1. /\ DOMAIN x = Fields /\ x.queue = sent.queue /\ x.after = sent.after
          /\ x.next = sent.next /\ x.page = sent.page /\ x.snapshot = sent.snapshot
          /\ x.phase = "idle"
      BY <1>3, Zenon DEF Fields
    <2>2. link' = x
      BY <1>8, Zenon
    <2> HIDE DEF x
    <2> QED BY <1>5, <2>1, <2>2, Zenon
  <1> QED BY <1>4, <1>6, <1>7, <1>8, Zenon

(***************************************************************************)
(* The requests on their way to the server when one is added or taken.     *)
(***************************************************************************)
LEMMA AcksAppend ==
    ASSUME NEW t \in Seq(Requests), NEW r \in Requests, NEW c \in Nat, Acks(t, c),
           r.kind = "ack" => r.cursor <= c
    PROVE  Append(t, r) \in Seq(Requests) /\ Acks(Append(t, r), c)
  <1>1. /\ Append(t, r) \in Seq(Requests) /\ Len(t) \in Nat
        /\ \A i \in 1..Len(Append(t, r)) :
             (i \in 1..Len(t) /\ Append(t, r)[i] = t[i]) \/ Append(t, r)[i] = r
    OBVIOUS
  <1> QED BY <1>1, Zenon DEF Acks

LEMMA AcksTail ==
    ASSUME NEW t \in Seq(Requests), t # << >>, NEW c \in Nat, Acks(t, c)
    PROVE  /\ Tail(t) \in Seq(Requests) /\ Acks(Tail(t), c)
           /\ Head(t) \in Requests
           /\ Head(t).kind = "ack" => Head(t).cursor \in Nat /\ Head(t).cursor <= c
  <1>1. /\ Tail(t) \in Seq(Requests) /\ Head(t) \in Requests
        /\ 1 \in 1..Len(t) /\ Head(t) = t[1]
        /\ \A i \in 1..Len(Tail(t)) : Tail(t)[i] = t[i + 1] /\ i + 1 \in 1..Len(t)
    OBVIOUS
  <1>2. \A r \in Requests : r.kind = "ack" => r.cursor \in Nat
    BY Zenon DEF Requests
  <1> QED BY <1>1, <1>2, Zenon DEF Acks

LEMMA LargerOfTwo ==
    ASSUME NEW x \in Nat, NEW y \in Nat
    PROVE  Max({x, y}) \in Nat /\ (Max({x, y}) = x \/ Max({x, y}) = y)
  <1>1. \E m \in {x, y} : \A n \in {x, y} : m >= n
    OBVIOUS
  <1>2. Max({x, y}) \in {x, y}
    BY <1>1, Zenon DEF Max
  <1> QED BY <1>2, Zenon

LEMMA LargerIsUpper ==
    ASSUME NEW x \in Nat, NEW y \in Nat
    PROVE  Max({x, y}) >= x
  <1>1. \E m \in {x, y} : \A n \in {x, y} : m >= n
    OBVIOUS
  <1> QED BY <1>1, Zenon DEF Max

(***************************************************************************)
(* The read loop persists an acknowledgement the client really sent.       *)
(***************************************************************************)
LEMMA ReadAckKeeps ==
    ASSUME StreamIInv, SessionIInv, ReadAck, UNCHANGED streamVars
    PROVE  SessionIInv'
  <1>1. /\ link # None /\ toServer # << >> /\ Head(toServer).kind = "ack"
        /\ UNCHANGED <<cursor, seen, known, latest>>
    BY Zenon DEF ReadAck, streamVars
  <1>2. CASE \E outcome : Close(outcome)
    BY <1>1, <1>2, CloseKeeps, Zenon
  <1>3. CASE ~\E outcome : Close(outcome)
    <2> DEFINE a == Head(toServer)
               x == [link EXCEPT !.highestAck = a.seq,
                                 !.durable = {d \in @ : d.seq > a.seq},
                                 !.pending = {s \in @ : s > a.seq}]
    <2>1. /\ link' = x /\ acked' = Max({acked, Acknowledged(link, a).cursor})
          /\ Acknowledged(link, a).valid
          /\ toServer' = Tail(toServer) /\ UNCHANGED toClient
      BY <1>3, Zenon DEF ReadAck
    <2>2. Acknowledged(link, a).cursor = a.cursor
      BY <2>1, Zenon DEF Acknowledged
    <2>3. /\ Tail(toServer) \in Seq(Requests) /\ Acks(Tail(toServer), cursor)
          /\ a.cursor \in Nat /\ a.cursor <= cursor
      BY <1>1, LinkFacts, AcksTail, Zenon
    <2>4. IsLink(link) /\ Paged(link, latest) /\ acked \in Nat /\ acked <= cursor
      BY <1>1, LinkFacts, Zenon
    <2>5. acked' \in Nat /\ acked' <= cursor
      BY <2>1, <2>2, <2>3, <2>4, LargerOfTwo, Zenon
    <2>6. /\ DOMAIN x = Fields /\ x.queue = link.queue /\ x.after = link.after
          /\ x.next = link.next /\ x.phase = link.phase /\ x.page = link.page
          /\ x.snapshot = link.snapshot
      BY <2>4, Zenon DEF IsLink, Fields
    <2> HIDE DEF x
    <2>7. IsLink(x) /\ Paged(x, latest)
      BY <2>4, <2>6, Zenon DEF IsLink, Paged
    <2> QED BY <1>1, <2>1, <2>3, <2>5, <2>6, <2>7, QuietLinkKeeps, Zenon
  <1> QED BY <1>2, <1>3, Zenon

LEMMA ReadCommandKeeps ==
    ASSUME StreamIInv, SessionIInv, ReadCommand, UNCHANGED streamVars
    PROVE  SessionIInv'
  <1>1. /\ link # None /\ toServer # << >> /\ UNCHANGED <<cursor, seen, known, latest>>
    BY Zenon DEF ReadCommand, streamVars
  <1>2. CASE Close("closed")
    BY <1>1, <1>2, CloseKeeps, Zenon
  <1>3. CASE ~Close("closed")
    <2> DEFINE m == [seq |-> link.next, kind |-> "command", cursor |-> 0]
               x == Enqueued(link, "command", 0)
    <2>1. link' = x /\ toServer' = Tail(toServer) /\ UNCHANGED <<toClient, acked>>
      BY <1>3, Zenon DEF ReadCommand
    <2>2. Tail(toServer) \in Seq(Requests) /\ Acks(Tail(toServer), cursor)
      BY <1>1, LinkFacts, AcksTail, Zenon
    <2>3. /\ IsLink(link) /\ Paged(link, latest) /\ link.after \in Nat /\ latest \in Nat
          /\ link.after <= latest /\ 0 \in Nat
      BY <1>1, LinkFacts, Zenon
    <2>4. /\ m \in Messages /\ IsLink(x) /\ x.queue = Append(link.queue, m)
          /\ x.after = link.after /\ x.phase = link.phase /\ x.page = link.page
          /\ x.snapshot = link.snapshot
      BY <2>3, EnqueuedLink, Zenon
    <2>5. m.cursor = 0
      BY Zenon
    <2> HIDE DEF x, m
    <2>6. Paged(x, latest)
      BY <2>3, <2>4, Zenon DEF Paged
    <2>7. /\ link.after <= x.after /\ x.after <= latest
          /\ \A k \in 1..x.after : k <= link.after
      BY <2>3, <2>4
    <2> QED BY <1>1, <2>1, <2>2, <2>4, <2>5, <2>6, <2>7, EnqueueKeeps, Zenon
  <1> QED BY <1>2, <1>3, Zenon

-----------------------------------------------------------------------------
(***************************************************************************)
(* A new connection follows from the client's cursor, with the welcome     *)
(* alone in flight.                                                        *)
(***************************************************************************)
LEMMA ConnectKeeps ==
    ASSUME StreamIInv, SessionIInv, Connect, UNCHANGED streamVars
    PROVE  SessionIInv'
  <1> DEFINE m == [seq |-> 1, kind |-> "welcome", cursor |-> 0]
             w == <<m>>
             l == NewLink
  <1>1. /\ link' = l /\ toClient' = w /\ toServer' = << >>
        /\ UNCHANGED <<acked, cursor, seen, known, latest>> /\ Told' = Told
    BY Zenon DEF Connect, streamVars, Told
  <1>2. /\ cursor \in Nat /\ latest \in Nat /\ cursor <= latest /\ 1..cursor \subseteq Told
        /\ acked \in Nat /\ known \in Nat /\ acked <= cursor
    BY Zenon DEF StreamIInv, StreamTypeOK, SessionIInv, SessionTypeOK, ClientInv
  <1>3. /\ DOMAIN l = Fields /\ l.after = cursor /\ l.next = 2 /\ l.queue = << >>
        /\ l.phase = "idle" /\ l.page = {}
    BY Zenon DEF NewLink, Fields
  <1> HIDE DEF l
  <1>4. m \in Messages
    BY Zenon DEF Messages
  <1>5. w \in Seq(Messages) /\ Len(w) = 1 /\ w[1].cursor = 0 /\ 1..Len(w) = {1}
    BY <1>4
  <1> HIDE DEF w
  <1>6. << >> \in Seq(Messages) /\ << >> \in Seq(Requests) /\ 1..Len(<< >>) = {} /\ 2 \in Nat
    OBVIOUS
  <1>7. IsLink(l)
    BY <1>2, <1>3, <1>6, Zenon DEF IsLink
  <1>8. SessionTypeOK'
    BY <1>1, <1>2, <1>5, <1>6, <1>7, Zenon DEF SessionTypeOK
  <1>9. Acks(<< >>, cursor)
    BY <1>6, Zenon DEF Acks
  <1>10. ClientInv'
    BY <1>1, <1>9, Zenon DEF SessionIInv, ClientInv
  <1>11. ~(0 > 0) /\ 0 <= cursor /\ cursor <= cursor
    BY <1>2
  <1>12. Wire(w, cursor, latest, Told)
    BY <1>5, <1>11, Zenon DEF Wire
  <1>13. Outbound(<< >>, w, cursor, Told)
    BY <1>6, Zenon DEF Outbound
  <1>14. Follow(<< >>, cursor, w, cursor, latest, Told)
    BY <1>2, <1>5, <1>6, <1>11, Zenon DEF Follow
  <1>15. Paged(l, latest)
    BY <1>3, Zenon DEF Paged
  <1>16. LinkInv'
    BY <1>1, <1>3, <1>13, <1>14, <1>15, Zenon DEF LinkInv
  <1> QED BY <1>1, <1>8, <1>10, <1>12, <1>16, Zenon DEF SessionIInv

(***************************************************************************)
(* The client takes a message and acknowledges it.                         *)
(***************************************************************************)
LEMMA ReceiveKeeps ==
    ASSUME StreamIInv, SessionIInv, Receive, UNCHANGED streamVars
    PROVE  SessionIInv'
  <1> DEFINE m == Head(toClient)
             a == [kind |-> "ack", seq |-> m.seq, cursor |-> m.cursor]
  <1>1. /\ toClient # << >> /\ toClient' = Tail(toClient) /\ toServer' = Sent(a)
        /\ cursor' = (IF m.cursor > 0 THEN m.cursor ELSE cursor)
        /\ seen' = (IF m.cursor > 0 THEN seen \cup {m.cursor} ELSE seen)
        /\ known' = (IF m.kind = "resync" THEN latest ELSE known)
        /\ UNCHANGED <<link, acked, latest>>
    BY Zenon DEF Receive, streamVars
  <1>2. /\ toClient \in Seq(Messages) /\ toServer \in Seq(Requests) /\ cursor \in Nat
        /\ latest \in Nat /\ cursor <= latest /\ known \in Nat /\ known <= latest
        /\ 1..cursor \subseteq Told /\ Wire(toClient, cursor, latest, Told)
        /\ acked \in Nat /\ acked <= cursor /\ Acks(toServer, cursor)
    BY Zenon DEF StreamIInv, StreamTypeOK, SessionIInv, SessionTypeOK, ClientInv
  <1>3. m \in Messages /\ Tail(toClient) \in Seq(Messages)
    BY <1>1, <1>2, CarriesTail, Zenon
  <1>4. m.cursor \in Nat /\ m.seq \in Nat
    BY <1>3, Zenon DEF Messages
  <1>5. cursor' \in Nat /\ known' \in Nat /\ known' <= latest /\ known <= known'
    BY <1>1, <1>2, <1>4
  <1>6. Told \subseteq Told'
    <2>1. 1..known \subseteq 1..known' /\ seen \subseteq seen'
      BY <1>1, <1>2, <1>5
    <2> QED BY <2>1, Zenon DEF Told
  <1>7. \A k \in 1..latest : Tells(m, k) => k \in Told'
    <2> SUFFICES ASSUME NEW k \in 1..latest, Tells(m, k) PROVE k \in Told'
      BY Zenon
    <2>1. CASE m.cursor = k
      <3>1. m.cursor > 0
        BY <2>1
      <3> QED BY <1>1, <2>1, <3>1, Zenon DEF Told
    <2>2. CASE m.kind = "resync"
      BY <1>1, <2>2, Zenon DEF Told
    <2> QED BY <2>1, <2>2, Zenon DEF Tells
  <1>8. m.cursor > 0 => cursor' = m.cursor
    BY <1>1, Zenon
  <1>9. ~(m.cursor > 0) => cursor' = cursor
    BY <1>1, Zenon
  <1>10. /\ cursor <= cursor' /\ cursor' <= latest /\ m.cursor <= cursor'
         /\ 1..cursor' \subseteq Told'
         /\ Wire(Tail(toClient), cursor', latest, Told')
         /\ \A q \in Seq(Messages), n \in Nat :
              Outbound(q, toClient, cursor, Told) /\ Follow(q, n, toClient, cursor, latest, Told) =>
                Outbound(q, Tail(toClient), cursor', Told')
                /\ Follow(q, n, Tail(toClient), cursor', latest, Told')
    <2> PICK U : U = Told'
      BY Zenon
    <2> PICK d \in Nat : d = cursor'
      BY <1>5, Zenon
    <2>1. /\ Told \subseteq U /\ \A k \in 1..latest : Tells(m, k) => k \in U
          /\ m.cursor > 0 => d = m.cursor
          /\ ~(m.cursor > 0) => d = cursor
      BY <1>6, <1>7, <1>8, <1>9, Zenon
    <2>2. /\ cursor <= d /\ d <= latest /\ m.cursor <= d
          /\ 1..d \subseteq U
          /\ Wire(Tail(toClient), d, latest, U)
          /\ \A q \in Seq(Messages), n \in Nat :
               Outbound(q, toClient, cursor, Told) /\ Follow(q, n, toClient, cursor, latest, Told) =>
                 Outbound(q, Tail(toClient), d, U) /\ Follow(q, n, Tail(toClient), d, latest, U)
      BY <1>1, <1>2, <2>1, ReceiveOrder, Zenon
    <2> QED BY <2>2, Zenon
  <1>11. toServer' \in Seq(Requests) /\ Acks(toServer', cursor')
    <2>1. a \in Requests /\ a.cursor = m.cursor
      BY <1>4, Zenon DEF Requests
    <2>2. Acks(toServer, cursor')
      <3>1. \A i \in 1..Len(toServer) : toServer[i] \in Requests
        BY <1>2
      <3>2. \A r \in Requests : r.kind = "ack" => r.cursor \in Nat
        BY Zenon DEF Requests
      <3>3. \A n \in Nat : n <= cursor => n <= cursor'
        BY <1>2, <1>5, <1>10
      <3> QED BY <1>2, <3>1, <3>2, <3>3, Zenon DEF Acks
    <2> HIDE DEF a
    <2>3. Append(toServer, a) \in Seq(Requests) /\ Acks(Append(toServer, a), cursor')
      <3> PICK d \in Nat : d = cursor'
        BY <1>5, Zenon
      <3>1. Acks(toServer, d) /\ a.cursor <= d
        BY <1>10, <2>1, <2>2, Zenon
      <3>2. Append(toServer, a) \in Seq(Requests) /\ Acks(Append(toServer, a), d)
        BY <1>2, <2>1, <3>1, AcksAppend, Zenon
      <3> QED BY <3>2, Zenon
    <2> QED BY <1>1, <1>2, <2>2, <2>3, Zenon DEF Sent
  <1>12. SessionTypeOK'
    BY <1>1, <1>2, <1>3, <1>5, <1>11, Zenon DEF SessionIInv, SessionTypeOK
  <1>13. acked <= cursor'
    BY <1>2, <1>5, <1>10
  <1>14. ClientInv'
    <2>1. seen \subseteq 1..cursor
      BY Zenon DEF SessionIInv, ClientInv
    <2>2. 1..cursor \subseteq 1..cursor' /\ (m.cursor > 0 => m.cursor \in 1..cursor')
      <3>1. cursor <= cursor' /\ m.cursor <= cursor'
        BY <1>10, Zenon
      <3> QED BY <1>2, <1>4, <1>5, <3>1
    <2>3. seen' \subseteq 1..cursor'
      BY <1>1, <2>1, <2>2, Zenon
    <2> QED BY <1>1, <1>5, <1>10, <1>11, <1>13, <2>3, Zenon DEF ClientInv
  <1>15. ASSUME link # None PROVE LinkInv'
    <2>1. link.queue \in Seq(Messages) /\ link.after \in Nat /\ Paged(link, latest)
      BY <1>15, LinkFacts, Zenon
    <2>2. /\ Outbound(link.queue, toClient, cursor, Told)
          /\ Follow(link.queue, link.after, toClient, cursor, latest, Told)
      BY <1>15, Zenon DEF SessionIInv, LinkInv
    <2>3. /\ Outbound(link.queue, Tail(toClient), cursor', Told')
          /\ Follow(link.queue, link.after, Tail(toClient), cursor', latest, Told')
      BY <1>10, <2>1, <2>2, Zenon
    <2> QED BY <1>1, <2>1, <2>3, Zenon DEF LinkInv
  <1> QED BY <1>1, <1>10, <1>12, <1>14, <1>15, Zenon DEF SessionIInv

(***************************************************************************)
(* The client's own steps and a dropped connection.                        *)
(***************************************************************************)
LEMMA ClientStepKeeps ==
    ASSUME StreamIInv, SessionIInv, SendCommand \/ ReadClose \/ Disconnect, UNCHANGED streamVars
    PROVE  SessionIInv'
  <1>1. UNCHANGED <<acked, cursor, seen, known, latest>> /\ Told' = Told
    BY Zenon DEF SendCommand, ReadClose, Disconnect, streamVars, Told
  <1>2. CASE ReadClose \/ SendCommand
    <2>1. UNCHANGED <<link, toClient>>
      BY <1>2, Zenon DEF ReadClose, SendCommand
    <2>2. toServer' \in Seq(Requests) /\ Acks(toServer', cursor)
      <3>1. toServer \in Seq(Requests) /\ Acks(toServer, cursor) /\ cursor \in Nat
        BY Zenon DEF SessionIInv, SessionTypeOK, ClientInv
      <3>2. CASE ReadClose
        BY <3>1, <3>2, Zenon DEF ReadClose
      <3>3. CASE SendCommand
        <4> DEFINE r == [kind |-> "command"]
        <4>1. r \in Requests /\ r.kind # "ack"
          BY Zenon DEF Requests
        <4>2. toServer' = Append(toServer, r)
          BY <3>3, Zenon DEF SendCommand
        <4> HIDE DEF r
        <4> QED BY <3>1, <4>1, <4>2, AcksAppend, Zenon
      <3> QED BY <1>2, <3>2, <3>3, Zenon
    <2>3. SessionTypeOK'
      BY <1>1, <2>1, <2>2, Zenon DEF SessionIInv, SessionTypeOK
    <2>4. ClientInv'
      BY <1>1, <2>2, Zenon DEF SessionIInv, ClientInv
    <2>5. link # None => LinkInv'
      BY <1>1, <2>1, Zenon DEF SessionIInv, LinkInv
    <2> QED BY <1>1, <2>1, <2>3, <2>4, <2>5, Zenon DEF SessionIInv
  <1>3. CASE Disconnect
    <2>1. link' = None /\ toClient' = << >> /\ toServer' = << >>
      BY <1>3, Zenon DEF Disconnect
    <2>2. << >> \in Seq(Messages) /\ << >> \in Seq(Requests) /\ 1..Len(<< >>) = {}
      OBVIOUS
    <2>3. SessionTypeOK'
      BY <1>1, <2>1, <2>2, Zenon DEF SessionIInv, SessionTypeOK
    <2>4. Acks(<< >>, cursor) /\ Wire(<< >>, cursor, latest, Told)
      BY <2>2, Zenon DEF Acks, Wire
    <2>5. ClientInv'
      BY <1>1, <2>1, <2>4, Zenon DEF SessionIInv, ClientInv
    <2> QED BY <1>1, <2>1, <2>3, <2>4, <2>5, Zenon DEF SessionIInv
  <1> QED BY <1>2, <1>3, Zenon

-----------------------------------------------------------------------------
LEMMA SessionStarts == Init => SessionIInv
  <1> SUFFICES ASSUME Init PROVE SessionIInv
    BY Zenon
  <1>1. /\ link = None /\ toClient = << >> /\ toServer = << >>
        /\ acked = 0 /\ cursor = 0 /\ known = 0 /\ seen = {} /\ latest \in Nat
    BY StreamInitHolds, Zenon DEF Init, StreamIInv, StreamTypeOK
  <1>2. /\ << >> \in Seq(Messages) /\ << >> \in Seq(Requests) /\ 1..Len(<< >>) = {}
        /\ 0 \in Nat /\ 0 <= 0 /\ 1..0 = {} /\ 0 <= latest
    BY <1>1
  <1>3. SessionTypeOK
    BY <1>1, <1>2, Zenon DEF SessionTypeOK
  <1>4. ClientInv
    BY <1>1, <1>2, Zenon DEF ClientInv, Acks
  <1>5. Wire(toClient, cursor, latest, Told)
    BY <1>1, <1>2, Zenon DEF Wire
  <1> QED BY <1>1, <1>3, <1>4, <1>5, Zenon DEF SessionIInv

LEMMA SessionStepKeeps ==
    ASSUME StreamIInv, SessionIInv, [Next]_vars
    PROVE  SessionIInv'
  <1>1. CASE StreamNext /\ UNCHANGED sessionVars
    BY <1>1, StreamStepKeeps, Zenon
  <1>2. CASE SessionNext /\ UNCHANGED streamVars
    BY <1>2, ConnectKeeps, LoadAuthorityKeeps, ListEventsKeeps, SendEventKeeps, WriteKeeps,
       MarkSentKeeps, ReadAckKeeps, ReadCommandKeeps, ReceiveKeeps, ClientStepKeeps, Zenon
       DEF SessionNext
  <1>3. CASE UNCHANGED vars
    <2>1. UNCHANGED streamVars /\ UNCHANGED sessionVars
      BY <1>3, Zenon DEF vars
    <2> QED BY <2>1, StreamStepKeeps, Zenon
  <1> QED BY <1>1, <1>2, <1>3, Zenon DEF Next

LEMMA SessionInvariant == Spec => [](StreamIInv /\ SessionIInv)
  <1>1. Init => StreamIInv /\ SessionIInv
    BY StreamInitHolds, SessionStarts, Zenon DEF Init
  <1>2. StreamIInv /\ SessionIInv /\ [Next]_vars => (StreamIInv /\ SessionIInv)'
    <2>1. [Next]_vars => [StreamNext]_streamVars
      BY Zenon DEF Next, vars
    <2> QED BY <2>1, StreamNextKeeps, SessionStepKeeps, Zenon
  <1> QED BY <1>1, <1>2, PTL DEF Spec

(***************************************************************************)
(* Whatever connections break, however often the client reconnects and     *)
(* whatever the retention sweep takes meanwhile, the client holds every    *)
(* event up to its cursor or was told to read the snapshots for it: Replay *)
(* and the outbound queue lose nothing silently.                           *)
(***************************************************************************)
THEOREM GapCorrect == Spec => []NoSilentGap
  <1>1. SessionIInv => NoSilentGap
    <2> SUFFICES ASSUME SessionIInv, NEW c \in 1..cursor PROVE c \in seen \/ c <= known
      BY Zenon DEF NoSilentGap
    <2>1. c \in seen \/ c \in 1..known
      BY Zenon DEF SessionIInv, ClientInv, Told
    <2>2. known \in Nat
      BY Zenon DEF SessionIInv, SessionTypeOK
    <2> QED BY <2>1, <2>2
  <1> QED BY <1>1, SessionInvariant, PTL

(***************************************************************************)
(* The acknowledgement the server persists never passes the cursor of the  *)
(* client that sent it, over any number of connections.                    *)
(***************************************************************************)
THEOREM AckCorrect == Spec => []AckIsReceived
  <1>1. SessionIInv => AckIsReceived
    BY Zenon DEF SessionIInv, ClientInv, AckIsReceived
  <1> QED BY <1>1, SessionInvariant, PTL

(***************************************************************************)
(* The stream the session follows is the stream on its own, so what is     *)
(* proved of it holds in the composition.                                  *)
(***************************************************************************)
LEMMA StreamIsComponent == Spec => StreamSpec
  <1>1. Init => StreamInit
    BY Zenon DEF Init
  <1>2. [Next]_vars => [StreamNext]_streamVars
    BY Zenon DEF Next, vars
  <1> QED BY <1>1, <1>2, PTL DEF Spec, StreamSpec

-----------------------------------------------------------------------------
(***************************************************************************)
(* The session implements what the client is promised, step by step.       *)
(* A projector's commit publishes.                                         *)
(***************************************************************************)
LEMMA StreamFollows ==
    ASSUME StreamIInv, [StreamNext]_streamVars, UNCHANGED sessionVars
    PROVE  [FollowPromise!FollowNext]_(FollowPromise!followVars)
  <1>1. latest \in Nat /\ latest' \in Nat /\ latest <= latest'
    BY LatestGrows, Zenon
  <1>2. UNCHANGED <<cursor, known, acked>>
    BY Zenon DEF sessionVars
  <1>3. latest' = latest \/ latest' > latest
    BY <1>1
  <1> QED BY <1>2, <1>3, Zenon
          DEF FollowPromise!FollowNext, FollowPromise!Publish, FollowPromise!followVars

(***************************************************************************)
(* A message received delivers an event, carries a resynchronisation, or   *)
(* shows the client nothing of the stream.                                 *)
(***************************************************************************)
LEMMA ReceiveFollows ==
    ASSUME StreamIInv, SessionIInv, Receive, UNCHANGED streamVars
    PROVE  [FollowPromise!FollowNext]_(FollowPromise!followVars)
  <1> DEFINE m == Head(toClient)
  <1>1. /\ toClient # << >>
        /\ cursor' = (IF m.cursor > 0 THEN m.cursor ELSE cursor)
        /\ known' = (IF m.kind = "resync" THEN latest ELSE known)
        /\ UNCHANGED <<acked, latest>>
    BY Zenon DEF Receive, streamVars
  <1>2. /\ toClient \in Seq(Messages) /\ cursor \in Nat /\ known \in Nat
        /\ seen \subseteq 1..cursor /\ Wire(toClient, cursor, latest, Told)
    BY Zenon DEF SessionIInv, SessionTypeOK, ClientInv
  <1>3. /\ m = toClient[1] /\ m \in Messages /\ 1 \in 1..Len(toClient) /\ 1..1 = {1}
    BY <1>1, <1>2
  <1>4. m.cursor \in Nat /\ (m.kind = "resync" => m.cursor = 0)
    BY <1>3, Zenon DEF Messages
  <1>5. CASE m.cursor > 0
    <2>1. m.kind # "resync"
      BY <1>4, <1>5
    <2>2. /\ m.cursor <= latest /\ cursor < m.cursor
          /\ \A k \in 1..m.cursor : k \in Told \/ Carries(toClient, 1, k)
      BY <1>2, <1>3, <1>5, Zenon DEF Wire
    <2>3. \A k \in 1..m.cursor : k \in Told \/ m.cursor = k
      BY <1>3, <2>1, <2>2, Zenon DEF Carries, Tells
    <2>4. \A k \in 1..m.cursor : k \in 1..cursor \/ k \in 1..known \/ m.cursor = k
      BY <1>2, <2>3, Zenon DEF Told
    <2> HIDE DEF m
    <2>5. \A k \in 1..(m.cursor - 1) : k <= cursor \/ k <= known
      BY <1>2, <1>4, <2>4
    <2>6. cursor' = m.cursor /\ known' = known /\ m.cursor > cursor
      BY <1>1, <1>2, <1>4, <1>5, <2>1, <2>2
    <2> QED BY <1>1, <2>2, <2>5, <2>6, Zenon
            DEF FollowPromise!FollowNext, FollowPromise!Deliver
  <1>6. CASE ~(m.cursor > 0)
    BY <1>1, <1>6, Zenon
       DEF FollowPromise!FollowNext, FollowPromise!Resynchronise, FollowPromise!followVars
  <1> QED BY <1>5, <1>6, Zenon

(***************************************************************************)
(* An acknowledgement read moves the persisted one up, to what the client  *)
(* received at most, or leaves it.                                         *)
(***************************************************************************)
LEMMA ReadAckFollows ==
    ASSUME StreamIInv, SessionIInv, ReadAck, UNCHANGED streamVars
    PROVE  [FollowPromise!FollowNext]_(FollowPromise!followVars)
  <1>1. SessionIInv' /\ UNCHANGED <<cursor, known, latest>> /\ link # None /\ toServer # << >>
        /\ Head(toServer).kind = "ack"
    BY ReadAckKeeps, Zenon DEF ReadAck, streamVars
  <1>2. acked \in Nat /\ acked' \in Nat /\ acked' <= cursor
    BY <1>1, Zenon DEF SessionIInv, SessionTypeOK, ClientInv
  <1>3. \/ acked' = acked
        \/ /\ acked' = Max({acked, Acknowledged(link, Head(toServer)).cursor})
           /\ Acknowledged(link, Head(toServer)).valid
    BY Zenon DEF ReadAck, Close
  <1>4. acked' = acked \/ acked' > acked
    <2>1. CASE acked' # acked
      <3> DEFINE b == Head(toServer).cursor
      <3>1. acked' = Max({acked, b})
        BY <1>3, <2>1, Zenon DEF Acknowledged
      <3>2. b \in Nat
        BY <1>1, LinkFacts, AcksTail, Zenon
      <3> HIDE DEF b
      <3>3. acked' >= acked
        BY <1>2, <3>1, <3>2, LargerIsUpper, Zenon
      <3> QED BY <1>2, <3>3
    <2> QED BY <2>1, Zenon
  <1> QED BY <1>1, <1>2, <1>4, Zenon
          DEF FollowPromise!FollowNext, FollowPromise!Acknowledge, FollowPromise!followVars

(***************************************************************************)
(* The realtime stream, its replay over connections that break and the     *)
(* SDK's client keep the promise: each event reaches the client once and   *)
(* in order, one is passed over only if a resynchronisation covered it,    *)
(* and the persisted acknowledgement only grows, behind the client.        *)
(***************************************************************************)
THEOREM FollowCorrect == Spec => ImplementsFollow
  <1>1. Init => FollowPromise!FollowInit
    BY Zenon DEF Init, StreamInit, FollowPromise!FollowInit
  <1>2. StreamIInv /\ SessionIInv /\ [Next]_vars
          => [FollowPromise!FollowNext]_(FollowPromise!followVars)
    <2> SUFFICES ASSUME StreamIInv, SessionIInv, [Next]_vars
                 PROVE  [FollowPromise!FollowNext]_(FollowPromise!followVars)
      BY Zenon
    <2>1. CASE StreamNext /\ UNCHANGED sessionVars
      BY <2>1, StreamFollows, Zenon
    <2>2. CASE SessionNext /\ UNCHANGED streamVars
      <3>1. CASE Receive
        BY <2>2, <3>1, ReceiveFollows, Zenon
      <3>2. CASE ReadAck
        BY <2>2, <3>2, ReadAckFollows, Zenon
      <3>3. CASE ~Receive /\ ~ReadAck
        <4>1. UNCHANGED <<latest, cursor, known, acked>>
          BY <2>2, <3>3, Zenon
             DEF SessionNext, streamVars, Connect, LoadAuthority, ListEvents, SendEvent, Write,
                 MarkSent, ReadCommand, SendCommand, ReadClose, Disconnect, Close, Resync
        <4> QED BY <4>1, Zenon DEF FollowPromise!followVars
      <3> QED BY <3>1, <3>2, <3>3, Zenon
    <2>3. CASE UNCHANGED vars
      BY <2>3, Zenon DEF vars, streamVars, sessionVars, FollowPromise!followVars
    <2> QED BY <2>1, <2>2, <2>3, Zenon DEF Next
  <1> QED BY <1>1, <1>2, SessionInvariant, PTL
          DEF Spec, ImplementsFollow, FollowPromise!FollowSpec

===============================================================================
