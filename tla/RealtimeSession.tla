---------------------------- MODULE RealtimeSession ----------------------------
(***************************************************************************)
(* One capture client following the durable stream of its verification     *)
(* over successive WebSocket connections: the established loop and its     *)
(* outbound queue (internal/transport/realtime), the two statements of     *)
(* Replay and the persisted acknowledgement                                *)
(* (internal/realtime/postgres/replay_store.go), and the SDK's client      *)
(* (sdk/typescript/src/realtime.ts).  Replay runs READ COMMITTED, so each  *)
(* of its statements sees the stream of RealtimeStream as it is then.      *)
(*                                                                         *)
(* The bytes of a message reach the client during Write, before the writer *)
(* marks it sent.  The client acknowledges every message it takes.         *)
(***************************************************************************)
EXTENDS RealtimeStream, Sequences, FiniteSetsExt

CONSTANTS PageSize,       \* events one Replay returns
          QueueDepth,     \* Limits.OutboundQueueDepth
          UnackedLimit,   \* Limits.UnacknowledgedLimit
          MaxConnections, \* bound on connections
          MaxCommands     \* bound on client commands

VARIABLES link,      \* the server's side of the connection
          socket,    \* none | open | closed | refused | ended
          toClient,  \* messages in flight to the client
          toServer,  \* acknowledgements and commands in flight to the server
          acked,     \* realtime_acknowledgements.acknowledged_cursor, over its tokens
          cursor,    \* the client's lastAcknowledgedEventCursor
          welcomed,  \* the client took the welcome of the connection
          seen,      \* history: the events the client received
          known,     \* history: the cursor its last resynchronisation covers
          budget     \* connections and commands left

sessionVars == <<link, socket, toClient, toServer, acked, cursor, welcomed, seen, known, budget>>
vars == <<streamVars, sessionVars>>

ASSUME SessionConstants ==
    /\ PageSize \in Nat \ {0} /\ QueueDepth \in Nat \ {0} /\ UnackedLimit \in Nat \ {0}
    /\ MaxConnections \in Nat /\ MaxCommands \in Nat

Init ==
    /\ StreamInit
    /\ link = None
    /\ socket = "none"
    /\ toClient = << >> /\ toServer = << >>
    /\ acked = 0
    /\ cursor = 0
    /\ welcomed = FALSE
    /\ seen = {}
    /\ known = 0
    /\ budget = [connections |-> MaxConnections, commands |-> MaxCommands]

-----------------------------------------------------------------------------
(***************************************************************************)
(* HelloHandler and the new queue: the hello carries the client's cursor,  *)
(* the welcome is the first message of the connection.                     *)
(***************************************************************************)
NewLink ==
    [expires |-> token, after |-> cursor, phase |-> "idle", snapshot |-> None,
     page |-> {}, more |-> FALSE, reading |-> FALSE,
     next |-> 2, highestSent |-> 1, highestAck |-> 0,
     queue |-> << >>, writing |-> None, durable |-> {}, pending |-> {}]

Connect ==
    /\ socket = "none" /\ budget.connections > 0
    /\ stage = "collecting" /\ now < token /\ now < SessionExpiry
    /\ link' = NewLink
    /\ socket' = "open"
    /\ toClient' = <<[seq |-> 1, kind |-> "welcome", cursor |-> 0]>>
    /\ toServer' = << >>
    /\ welcomed' = FALSE
    /\ budget' = [budget EXCEPT !.connections = @ - 1]
    /\ UNCHANGED <<acked, cursor, seen, known>>

(***************************************************************************)
(* The handler stops.  What it wrote still reaches the client, then the    *)
(* close does: a protocol violation refuses the client, anything else lets *)
(* it reconnect.                                                           *)
(***************************************************************************)
Close(outcome) ==
    /\ link' = None
    /\ socket' = outcome
    /\ toServer' = << >>
    /\ UNCHANGED <<toClient, acked>>

(***************************************************************************)
(* enqueueEvent: a sequence is assigned only with a slot.                  *)
(***************************************************************************)
Full(l) == Len(l.queue) >= QueueDepth

Enqueued(l, kind, c) ==
    [l EXCEPT !.queue = Append(@, [seq |-> l.next, kind |-> kind, cursor |-> c]),
              !.next = @ + 1,
              !.durable = IF c > 0 THEN @ \cup {[seq |-> l.next, cursor |-> c]} ELSE @,
              !.pending = IF kind = "command" THEN @ \cup {l.next} ELSE @]

Live(at) == {c \in DOMAIN log : log[c].expires > at}

RetainedFrom == Max({floor, IF Live(now) = {} THEN latest + 1 ELSE Min(Live(now))})

(* sendAndWait of a resynchronisation; the loop then follows from after.   *)
Resync(l, after) ==
    IF Full(l) THEN Close("closed")
    ELSE /\ link' = [Enqueued(l, "resync", 0) EXCEPT !.phase = "sending", !.after = after,
                                                     !.page = {}, !.more = FALSE]
         /\ UNCHANGED <<socket, toClient, toServer, acked>>

(***************************************************************************)
(* The first statement of Replay: authority and the bounds of the stream.  *)
(***************************************************************************)
Authorised(l) == now < l.expires /\ now < SessionExpiry

LoadAuthority ==
    /\ link # None /\ link.phase = "idle"
    /\ IF ~Authorised(link) THEN Close("closed")
       ELSE IF link.after > latest THEN Resync(link, 0)
       ELSE IF link.after + 1 < RetainedFrom THEN Resync(link, latest)
       ELSE /\ link' = [link EXCEPT !.phase = "list", !.snapshot = [latest |-> latest, at |-> now]]
            /\ UNCHANGED <<socket, toClient, toServer, acked>>
    /\ UNCHANGED <<cursor, welcomed, seen, known, budget>>

(***************************************************************************)
(* The page is a set of cursors, taken from the lowest up.                 *)
(***************************************************************************)
Rows(l) == {c \in Live(l.snapshot.at) : c > l.after}

FirstRows(l) == {c \in Rows(l) : Cardinality({d \in Rows(l) : d < c}) < PageSize}

(* NewReplayWindow that trusts the rows it is given.                       *)
ValidWindowTrusting(l) == TRUE

(***************************************************************************)
(* NewReplayWindow: the page continues after, does not pass the latest     *)
(* cursor the first statement read, and stops short of it only if there is *)
(* more.                                                                   *)
(***************************************************************************)
ValidWindow(l) ==
    LET page == FirstRows(l)
        end == l.after + Cardinality(page)
    IN  /\ page = (l.after + 1)..end
        /\ end <= l.snapshot.latest
        /\ IF Cardinality(Rows(l)) > PageSize THEN end < l.snapshot.latest
                                              ELSE end = l.snapshot.latest

(***************************************************************************)
(* The second statement of Replay, and the loop over its page.  When the   *)
(* first replay ends, the read loop starts.                                *)
(***************************************************************************)
ListEvents ==
    /\ link # None /\ link.phase = "list"
    /\ IF ~ValidWindow(link) THEN Close("closed")
       ELSE /\ link' = [link EXCEPT !.phase = IF FirstRows(link) = {} THEN "idle" ELSE "page",
                                    !.snapshot = None,
                                    !.page = FirstRows(link),
                                    !.more = Cardinality(Rows(link)) > PageSize,
                                    !.reading = @ \/ FirstRows(link) = {}]
            /\ UNCHANGED <<socket, toClient, toServer, acked>>
    /\ UNCHANGED <<cursor, welcomed, seen, known, budget>>

SendEvent ==
    /\ link # None /\ link.phase = "page"
    /\ IF Full(link) THEN Close("closed")
       ELSE /\ link' = [Enqueued(link, "event", Lowest(link.page)) EXCEPT
                            !.phase = "sending", !.page = @ \ {Lowest(link.page)},
                            !.after = Lowest(link.page)]
            /\ UNCHANGED <<socket, toClient, toServer, acked>>
    /\ UNCHANGED <<cursor, welcomed, seen, known, budget>>

(* The writer: Write, then markSent and the sender's completion.           *)
Write ==
    /\ link # None /\ link.writing = None /\ link.queue # << >>
    /\ link' = [link EXCEPT !.writing = Head(link.queue), !.queue = Tail(@)]
    /\ toClient' = Append(toClient, Head(link.queue))
    /\ UNCHANGED <<socket, toServer, acked, cursor, welcomed, seen, known, budget>>

MarkSent ==
    /\ link # None /\ link.writing # None
    /\ LET sent == [link EXCEPT !.highestSent = link.writing.seq, !.writing = None]
       IN  link' = IF link.writing.kind = "command" THEN sent
                   ELSE IF link.page # {} THEN [sent EXCEPT !.phase = "page"]
                   ELSE [sent EXCEPT !.phase = "idle", !.reading = @ \/ ~link.more]
    /\ UNCHANGED <<socket, toClient, toServer, acked, cursor, welcomed, seen, known, budget>>

-----------------------------------------------------------------------------
HighestDurable(l, seq) == Max({0} \cup {d.cursor : d \in {e \in l.durable : e.seq <= seq}})

(* An acknowledgement taken to cover everything that was enqueued.         *)
AcknowledgedAll(l, a) ==
    [valid |-> a.seq <= l.highestSent /\ a.seq >= l.highestAck,
     cursor |-> HighestDurable(l, l.next)]

(***************************************************************************)
(* serverMessageQueue.acknowledge: cumulative, for what was sent, and      *)
(* naming the highest durable event it covers.                             *)
(***************************************************************************)
Acknowledged(l, a) ==
    [valid |-> /\ a.seq <= l.highestSent /\ a.seq >= l.highestAck
               /\ a.cursor = HighestDurable(l, a.seq),
     cursor |-> HighestDurable(l, a.seq)]

(***************************************************************************)
(* The read loop handles an acknowledgement and persists what it covers.   *)
(***************************************************************************)
ReadAck ==
    /\ link # None /\ link.reading /\ toServer # << >> /\ Head(toServer).kind = "ack"
    /\ LET a == Head(toServer)
           result == Acknowledged(link, a)
       IN  IF ~result.valid THEN Close("refused")
           ELSE IF result.cursor > 0 /\ ~Authorised(link) THEN Close("closed")
           ELSE /\ link' = [link EXCEPT !.highestAck = a.seq,
                               !.durable = {d \in @ : d.seq > a.seq},
                               !.pending = {s \in @ : s > a.seq}]
                /\ acked' = Max({acked, result.cursor})
                /\ toServer' = Tail(toServer)
                /\ UNCHANGED <<socket, toClient>>
    /\ UNCHANGED <<cursor, welcomed, seen, known, budget>>

(* The read loop handles a command and enqueues its acknowledgement.       *)
ReadCommand ==
    /\ link # None /\ link.reading /\ toServer # << >> /\ Head(toServer).kind = "command"
    /\ IF Full(link) \/ Cardinality(link.pending) >= UnackedLimit THEN Close("closed")
       ELSE /\ link' = Enqueued(link, "command", 0)
            /\ toServer' = Tail(toServer)
            /\ UNCHANGED <<socket, toClient, acked>>
    /\ UNCHANGED <<cursor, welcomed, seen, known, budget>>

-----------------------------------------------------------------------------
Sent(message) == IF socket = "open" THEN Append(toServer, message) ELSE toServer

(***************************************************************************)
(* The client takes a message: it acknowledges it at once and remembers    *)
(* the cursor of an event; a resynchronisation makes it read the           *)
(* authoritative snapshots.                                                *)
(***************************************************************************)
Receive ==
    /\ socket \in {"open", "closed", "refused"} /\ toClient # << >>
    /\ LET msg == Head(toClient)
           a == [kind |-> "ack", seq |-> msg.seq, cursor |-> msg.cursor]
       IN  /\ toServer' = Sent(a)
           /\ welcomed' = TRUE
           /\ cursor' = IF msg.cursor > 0 THEN msg.cursor ELSE cursor
           /\ seen' = IF msg.cursor > 0 THEN seen \cup {msg.cursor} ELSE seen
           /\ known' = IF msg.kind = "resync" THEN latest ELSE known
    /\ toClient' = Tail(toClient)
    /\ UNCHANGED <<link, socket, acked, budget>>

SendCommand ==
    /\ socket = "open" /\ welcomed /\ budget.commands > 0
    /\ toServer' = Append(toServer, [kind |-> "command"])
    /\ budget' = [budget EXCEPT !.commands = @ - 1]
    /\ UNCHANGED <<link, socket, toClient, acked, cursor, welcomed, seen, known>>

(* The client reads the close: a refusal ends its observation for good.    *)
ReadClose ==
    /\ socket \in {"closed", "refused"} /\ toClient = << >>
    /\ socket' = IF socket = "refused" THEN "ended" ELSE "none"
    /\ UNCHANGED <<link, toClient, toServer, acked, cursor, welcomed, seen, known, budget>>

(* The network drops the connection, with everything in flight.            *)
Disconnect ==
    /\ socket = "open"
    /\ link' = None /\ socket' = "none"
    /\ toClient' = << >> /\ toServer' = << >>
    /\ UNCHANGED <<acked, cursor, welcomed, seen, known, budget>>

SessionNext ==
    \/ Connect \/ LoadAuthority \/ ListEvents \/ SendEvent \/ Write \/ MarkSent
    \/ ReadAck \/ ReadCommand \/ Receive \/ SendCommand
    \/ ReadClose \/ Disconnect

Next ==
    \/ StreamNext /\ UNCHANGED sessionVars
    \/ SessionNext /\ UNCHANGED streamVars

Spec == Init /\ [][Next]_vars

-----------------------------------------------------------------------------
(***************************************************************************)
(* Whatever connections break and whatever expires while a replay runs,    *)
(* the client has received every event up to its cursor, except those it   *)
(* was told to read from the snapshots instead.                            *)
(***************************************************************************)
NoSilentGap == \A c \in 1..cursor : c \in seen \/ c <= known

(***************************************************************************)
(* The persisted acknowledgement never passes what the client received.    *)
(***************************************************************************)
AckIsReceived == acked <= cursor

(***************************************************************************)
(* The stream, its replay over broken connections and the SDK's client     *)
(* together keep the promise made to the client: every event once and in   *)
(* order, or covered by a resynchronisation.                               *)
(***************************************************************************)
FollowPromise == INSTANCE FollowContract

ImplementsFollow == FollowPromise!FollowSpec

===============================================================================
