---------------------------- MODULE EventStream ----------------------------
(* The durable event stream (stream_events in src/store.ts), the poller and  *)
(* the WebSocket handler that push it (server/src/index.ts), and a client    *)
(* that follows it over reconnections (ws_task of tui/src/net.rs).           *)
(*                                                                           *)
(* An event is its cursor: AUTOINCREMENT hands out 1, 2, ... The socket is a *)
(* FIFO in each direction, lost as a whole when the connection ends. Clients *)
(* share nothing but the stream, so there is one.                            *)
EXTENDS Naturals, Sequences

CONSTANTS
    PushLimit,      \* events per poll (200)
    ReplayLimit,    \* events per replay (the default limit of eventsAfter, 500)
    MaxEvents,      \* bound on the events of one behaviour
    MaxDrops        \* bound on lost connections and service restarts

ASSUME EventStreamAssumption ==
    /\ {PushLimit, ReplayLimit} \subseteq Nat \ {0}
    /\ {MaxEvents, MaxDrops} \subseteq Nat

VARIABLES
    latest,      \* MAX(cursor) of stream_events
    pushCursor,  \* what the poller has pushed
    connected,   \* the client's socket is in liveSockets
    request,     \* "after" of replay requests on their way to the service
    frames,      \* cursors of event frames on their way to the client
    lastCursor,  \* last_cursor of ws_task
    shown,       \* cursors forwarded to the client's panes
    drops

vars == <<latest, pushCursor, connected, request, frames, lastCursor, shown, drops>>

TypeOK ==
    /\ latest \in 0..MaxEvents
    /\ pushCursor \in 0..latest
    /\ connected \in BOOLEAN
    /\ request \in Seq(0..MaxEvents)
    /\ frames \in Seq(1..latest)
    /\ lastCursor \in 0..latest
    /\ shown \in Seq(1..latest)
    /\ drops \in 0..MaxDrops

Init ==
    /\ latest = 0 /\ pushCursor = 0
    /\ connected = FALSE
    /\ request = <<>> /\ frames = <<>>
    /\ lastCursor = 0 /\ shown = <<>>
    /\ drops = 0

Least(m, n) == IF m <= n THEN m ELSE n

(* eventsAfter: the oldest `limit` events behind the cursor.                 *)
EventsAfter(after, limit) ==
    [i \in 1..Least(limit, latest - after) |-> after + i]

-----------------------------------------------------------------------------
EmitEvent ==
    /\ latest < MaxEvents
    /\ latest' = latest + 1
    /\ UNCHANGED <<pushCursor, connected, request, frames, lastCursor, shown, drops>>

(* Mutant: the poller moves on to the newest event, whatever its batch held. *)
PushToLatest ==
    /\ pushCursor < latest
    /\ pushCursor' = latest
    /\ frames' = IF connected THEN frames \o EventsAfter(pushCursor, PushLimit) ELSE frames
    /\ UNCHANGED <<latest, connected, request, lastCursor, shown, drops>>

(* The 500 ms poller: one batch to every live socket.                        *)
Push ==
    LET events == EventsAfter(pushCursor, PushLimit)
    IN  /\ events # <<>>
        /\ pushCursor' = events[Len(events)]
        /\ frames' = IF connected THEN frames \o events ELSE frames
        /\ UNCHANGED <<latest, connected, request, lastCursor, shown, drops>>

(* The service adds the socket to liveSockets; the client asks for what it   *)
(* misses. ("hello" carries no event and is skipped by the client.)          *)
Connect ==
    /\ ~connected
    /\ connected' = TRUE
    /\ request' = <<lastCursor>>
    /\ UNCHANGED <<latest, pushCursor, frames, lastCursor, shown, drops>>

Replay ==
    /\ request # <<>>
    /\ request' = Tail(request)
    /\ frames' = frames \o EventsAfter(Head(request), ReplayLimit)
    /\ UNCHANGED <<latest, pushCursor, connected, lastCursor, shown, drops>>

(* Mutant: a frame that was seen before is forwarded again.                  *)
ReceiveAll ==
    /\ frames # <<>>
    /\ frames' = Tail(frames)
    /\ lastCursor' = Head(frames)
    /\ shown' = Append(shown, Head(frames))
    /\ UNCHANGED <<latest, pushCursor, connected, request, drops>>

(* A cursor that is not above last_cursor is dropped, any other forwarded.   *)
Receive ==
    /\ frames # <<>>
    /\ frames' = Tail(frames)
    /\ IF Head(frames) > lastCursor
       THEN /\ lastCursor' = Head(frames)
            /\ shown' = Append(shown, Head(frames))
       ELSE UNCHANGED <<lastCursor, shown>>
    /\ UNCHANGED <<latest, pushCursor, connected, request, drops>>

(* The connection ends: a missed pong, a close frame, an error.              *)
Disconnect ==
    /\ connected /\ drops < MaxDrops
    /\ connected' = FALSE
    /\ request' = <<>> /\ frames' = <<>>
    /\ drops' = drops + 1
    /\ UNCHANGED <<latest, pushCursor, lastCursor, shown>>

(* The service restarts: the poller begins at the newest event.              *)
Restart ==
    /\ drops < MaxDrops
    /\ pushCursor' = latest
    /\ connected' = FALSE
    /\ request' = <<>> /\ frames' = <<>>
    /\ drops' = drops + 1
    /\ UNCHANGED <<latest, lastCursor, shown>>

Next == EmitEvent \/ Push \/ Connect \/ Replay \/ Receive \/ Disconnect \/ Restart

(* The poller is an interval, the client reconnects with a capped backoff,   *)
(* and both ends read their socket.                                          *)
Spec ==
    /\ Init /\ [][Next]_vars
    /\ WF_vars(Push) /\ WF_vars(Connect) /\ WF_vars(Replay) /\ WF_vars(Receive)

-----------------------------------------------------------------------------
(* Replay, live push and reconnections overlap, and still every event that   *)
(* is shown is newer than the one before: no duplicate, no step back.        *)
ShownInOrder ==
    /\ \A i, j \in DOMAIN shown : i < j => shown[i] < shown[j]
    /\ shown # <<>> => lastCursor = shown[Len(shown)]

(* Whenever the stream is quiet the client ends up at its newest event, also *)
(* after restarts of the service, whose poller forgets where it was.         *)
CatchesUp == <>[](lastCursor = latest)

=============================================================================
