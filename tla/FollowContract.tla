---------------------------- MODULE FollowContract -----------------------------
(***************************************************************************)
(* What a capture client is promised about the events of its verification, *)
(* with connections, pages, queues and retention left out: events arrive   *)
(* once and in order; an event is passed over only if a resynchronisation  *)
(* covered it, after which the client reads the authoritative snapshots;   *)
(* and the acknowledgement kept for the client only grows, behind what it  *)
(* received.  RealtimeSession is shown to implement this specification.    *)
(***************************************************************************)
EXTENDS Naturals

VARIABLES latest,   \* the cursor of the last event appended
          cursor,   \* the cursor of the last event the client received
          known,    \* the cursor its last resynchronisation covers
          acked     \* the acknowledgement persisted for it

followVars == <<latest, cursor, known, acked>>

FollowInit == latest = 0 /\ cursor = 0 /\ known = 0 /\ acked = 0

Publish ==
    /\ latest' > latest
    /\ UNCHANGED <<cursor, known, acked>>

Deliver ==
    /\ cursor' > cursor /\ cursor' <= latest
    /\ \A c \in 1 .. cursor' - 1 : c <= cursor \/ c <= known
    /\ UNCHANGED <<latest, known, acked>>

Resynchronise ==
    /\ known' = latest
    /\ UNCHANGED <<latest, cursor, acked>>

Acknowledge ==
    /\ acked' > acked /\ acked' <= cursor
    /\ UNCHANGED <<latest, cursor, known>>

FollowNext == Publish \/ Deliver \/ Resynchronise \/ Acknowledge

FollowSpec == FollowInit /\ [][FollowNext]_followVars
================================================================================
