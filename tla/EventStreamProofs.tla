------------------------- MODULE EventStreamProofs -------------------------
(* Proofs about module EventStream, for any batch sizes, number of events    *)
(* and of lost connections.                                                  *)
EXTENDS EventStream, Integers, SequenceTheorems, TLAPS

(* What a poll or a replay sends is a part of the stream.                    *)
LEMMA EventsAfterType ==
    ASSUME NEW after \in 0..MaxEvents, NEW limit \in Nat \ {0}, latest \in Nat
    PROVE  LET events == EventsAfter(after, limit)
           IN  /\ events \in Seq(1..latest)
               /\ events # <<>> => events[Len(events)] \in 1..latest
<1> DEFINE m == Least(limit, latest - after)
           k == IF m > 0 THEN m ELSE 0
           events == EventsAfter(after, limit)
<1>0. MaxEvents \in Nat
  BY EventStreamAssumption
<1>1. m \in Int /\ \A i \in 1..m : after + i \in 1..latest
  BY <1>0 DEF Least
<1>2. k \in Nat /\ 1..m = 1..k
  BY <1>1
<1>3. events = [i \in 1..k |-> after + i]
  BY <1>2 DEF EventsAfter
<1> HIDE DEF m, k, events
<1>4. events \in [1..k -> 1..latest]
  BY <1>1, <1>2, <1>3
<1>5. events \in Seq(1..latest)
  BY <1>2, <1>4, SeqDef
<1>6. events # <<>> => Len(events) \in 1..Len(events)
  BY <1>5, EmptySeq
<1> QED BY <1>5, <1>6, ElementOfSeq DEF events

Increasing(s) == \A i, j \in DOMAIN s : i < j => s[i] < s[j]

(* A newer event goes to the end of what was shown in order.                 *)
LEMMA AppendInOrder ==
    ASSUME NEW n \in Nat, NEW s \in Seq(1..n), NEW last \in 0..n, NEW c \in 1..n, last < c,
           Increasing(s),
           s # <<>> => last = s[Len(s)]
    PROVE  /\ Append(s, c) \in Seq(1..n)
           /\ Increasing(Append(s, c))
           /\ Append(s, c)[Len(Append(s, c))] = c
<1> DEFINE t == Append(s, c)
<1>1. /\ Len(s) \in Nat /\ DOMAIN s = 1..Len(s)
      /\ t \in Seq(1..n) /\ DOMAIN t = 1..(Len(s) + 1) /\ Len(t) = Len(s) + 1
      /\ \A i \in 1..Len(s) : t[i] = s[i] /\ s[i] \in 1..n
      /\ t[Len(s) + 1] = c
  BY AppendProperties, LenProperties, ElementOfSeq
<1> HIDE DEF t
<1>2. ASSUME NEW i \in 1..Len(s) PROVE s[i] < c
  <2>1. s # <<>>
    BY <1>1, <1>2, EmptySeq
  <2>2. Len(s) \in 1..Len(s) /\ s[Len(s)] < c
    BY <1>1, <1>2, <2>1
  <2>0. Len(s) \in Nat
    BY <1>1
  <2>3. CASE i = Len(s)
    BY <2>2, <2>3
  <2>4. CASE i < Len(s)
    <3>1. s[i] < s[Len(s)]
      BY <1>1, <1>2, <2>2, <2>4 DEF Increasing
    <3> QED BY <1>1, <1>2, <2>2, <3>1
  <2> QED BY <1>2, <2>0, <2>3, <2>4
<1>3. ASSUME NEW i \in DOMAIN t, NEW j \in DOMAIN t, i < j PROVE t[i] < t[j]
  <2>1. i \in 1..Len(s)
    BY <1>1, <1>3
  <2>2. CASE j = Len(s) + 1
    BY <1>1, <1>2, <2>1, <2>2
  <2>3. CASE j \in 1..Len(s)
    BY <1>1, <1>3, <2>1, <2>3 DEF Increasing
  <2> QED BY <1>1, <1>3, <2>2, <2>3
<1> QED BY <1>1, <1>3 DEF t, Increasing

IInv == TypeOK /\ ShownInOrder

LEMMA InitIInv == Init => IInv
<1> SUFFICES ASSUME Init PROVE IInv
  OBVIOUS
<1>1. MaxEvents \in Nat /\ MaxDrops \in Nat
  BY EventStreamAssumption
<1>2. request \in Seq(0..MaxEvents) /\ frames \in Seq(1..latest) /\ shown \in Seq(1..latest)
  BY EmptySeq DEF Init
<1>3. TypeOK
  <2>1. latest = 0 /\ pushCursor = 0 /\ lastCursor = 0 /\ drops = 0 /\ connected = FALSE
    BY DEF Init
  <2>2. /\ latest \in 0..MaxEvents /\ pushCursor \in 0..latest /\ lastCursor \in 0..latest
        /\ drops \in 0..MaxDrops
    BY <1>1, <2>1
  <2>3. connected \in BOOLEAN
    BY <2>1
  <2> QED BY <1>2, <2>2, <2>3 DEF TypeOK
<1>4. DOMAIN shown = {} /\ shown = <<>>
  BY DEF Init
<1> QED BY <1>3, <1>4 DEF IInv, ShownInOrder

LEMMA NextIInv == IInv /\ [Next]_vars => IInv'
<1> SUFFICES ASSUME IInv, [Next]_vars PROVE IInv'
  OBVIOUS
<1> USE EventStreamAssumption
<1>0. latest \in Nat /\ MaxEvents \in Nat /\ MaxDrops \in Nat /\ drops \in 0..MaxDrops
  BY DEF IInv, TypeOK
<1>1. CASE EmitEvent
  <2>1. latest' \in 0..MaxEvents /\ latest' = latest + 1
    BY <1>0, <1>1 DEF EmitEvent
  <2>2. 1..latest \subseteq 1..latest' /\ 0..latest \subseteq 0..latest'
    BY <1>0, <2>1
  <2>3. frames' \in Seq(1..latest') /\ shown' \in Seq(1..latest')
    BY <1>1, <2>2 DEF EmitEvent, IInv, TypeOK
  <2>4. pushCursor' \in 0..latest' /\ lastCursor' \in 0..latest'
    BY <1>1, <2>2 DEF EmitEvent, IInv, TypeOK
  <2> QED BY <1>1, <2>1, <2>3, <2>4 DEF EmitEvent, IInv, TypeOK, ShownInOrder
<1>2. CASE Push
  <2> DEFINE events == EventsAfter(pushCursor, PushLimit)
  <2>1. pushCursor \in 0..MaxEvents
    BY <1>0 DEF IInv, TypeOK
  <2>2. events \in Seq(1..latest) /\ (events # <<>> => events[Len(events)] \in 1..latest)
    BY <1>0, <2>1, EventsAfterType, EventStreamAssumption
  <2>3. /\ events # <<>>
        /\ pushCursor' = events[Len(events)]
        /\ frames' = IF connected THEN frames \o events ELSE frames
        /\ UNCHANGED <<latest, connected, request, lastCursor, shown, drops>>
    BY <1>2 DEF Push
  <2> HIDE DEF events
  <2>4. frames \in Seq(1..latest) /\ frames \o events \in Seq(1..latest)
    BY <2>2, ConcatProperties DEF IInv, TypeOK
  <2>5. frames' \in Seq(1..latest)
    BY <2>3, <2>4
  <2>6. pushCursor' \in 0..latest
    BY <1>0, <2>2, <2>3
  <2> QED BY <2>3, <2>5, <2>6, <1>0 DEF IInv, TypeOK, ShownInOrder
<1>3. CASE Connect
  BY <1>3, <1>0 DEF Connect, IInv, TypeOK, ShownInOrder
<1>4. CASE Replay
  <2> DEFINE events == EventsAfter(Head(request), ReplayLimit)
  <2>1. Head(request) \in 0..MaxEvents /\ Tail(request) \in Seq(0..MaxEvents)
    BY <1>4 DEF Replay, IInv, TypeOK
  <2>2. events \in Seq(1..latest)
    BY <1>0, <2>1, EventsAfterType, EventStreamAssumption
  <2> HIDE DEF events
  <2>3. /\ request' \in Seq(0..MaxEvents)
        /\ frames' \in Seq(1..latest)
        /\ UNCHANGED <<latest, pushCursor, connected, lastCursor, shown, drops>>
    BY <1>4, <2>1, <2>2 DEF Replay, events, IInv, TypeOK
  <2> QED BY <2>3 DEF IInv, TypeOK, ShownInOrder
<1>5. CASE Receive
  <2>1. /\ Head(frames) \in 1..latest
        /\ frames' \in Seq(1..latest)
        /\ UNCHANGED <<latest, pushCursor, connected, request, drops>>
    BY <1>5 DEF Receive, IInv, TypeOK
  <2>2. CASE Head(frames) > lastCursor
    <3>1. lastCursor' = Head(frames) /\ shown' = Append(shown, Head(frames))
      BY <1>5, <2>2 DEF Receive
    <3>2. shown \in Seq(1..latest) /\ lastCursor \in 0..latest /\ lastCursor < Head(frames)
      BY <2>1, <2>2, <1>0 DEF IInv, TypeOK
    <3> DEFINE c == Head(frames)
               t == Append(shown, c)
    <3>3. /\ shown' \in Seq(1..latest)
          /\ Increasing(shown')
          /\ shown'[Len(shown')] = lastCursor'
      <4>1. /\ Increasing(shown)
            /\ shown # <<>> => lastCursor = shown[Len(shown)]
        BY DEF IInv, ShownInOrder, Increasing
      <4>2. c \in 1..latest /\ lastCursor < c
        BY <2>1, <3>2
      <4> HIDE DEF c
      <4>3. /\ t \in Seq(1..latest)
            /\ Increasing(t)
            /\ t[Len(t)] = c
        BY <1>0, <3>2, <4>1, <4>2, AppendInOrder
      <4> QED BY <3>1, <4>3 DEF c
    <3>4. lastCursor' \in 0..latest' /\ shown' \in Seq(1..latest') /\ frames' \in Seq(1..latest')
      BY <2>1, <3>1, <3>3, <1>0
    <3>5. TypeOK'
      BY <2>1, <3>4 DEF IInv, TypeOK
    <3>6. ShownInOrder'
      BY <3>3 DEF ShownInOrder, Increasing
    <3> QED BY <3>5, <3>6 DEF IInv
  <2>3. CASE ~(Head(frames) > lastCursor)
    BY <1>5, <2>1, <2>3 DEF Receive, IInv, TypeOK, ShownInOrder
  <2> QED BY <2>2, <2>3
<1>6. CASE Disconnect
  <2>1. request' \in Seq(0..MaxEvents) /\ frames' \in Seq(1..latest) /\ drops' \in 0..MaxDrops
    BY <1>6, <1>0, EmptySeq DEF Disconnect
  <2> QED BY <1>6, <2>1, <1>0 DEF Disconnect, IInv, TypeOK, ShownInOrder
<1>7. CASE Restart
  <2>1. request' \in Seq(0..MaxEvents) /\ frames' \in Seq(1..latest) /\ drops' \in 0..MaxDrops
    BY <1>7, <1>0, EmptySeq DEF Restart
  <2>2. pushCursor' \in 0..latest'
    BY <1>7, <1>0 DEF Restart
  <2>3. connected' \in BOOLEAN
    BY <1>7 DEF Restart
  <2> QED BY <1>7, <2>1, <2>2, <2>3 DEF Restart, IInv, TypeOK, ShownInOrder
<1>8. CASE UNCHANGED vars
  BY <1>8 DEF vars, IInv, TypeOK, ShownInOrder
<1> QED BY <1>1, <1>2, <1>3, <1>4, <1>5, <1>6, <1>7, <1>8 DEF Next

(* Every variable keeps its type: no cursor passes the newest event, neither *)
(* the poller's, nor the client's, nor one in a frame under way.             *)
THEOREM TypeCorrect == Spec => []TypeOK
<1>1. IInv => TypeOK
  BY DEF IInv
<1> QED BY InitIInv, NextIInv, <1>1, PTL DEF Spec

(* Replay and live push overlap on the socket in any way, connections end    *)
(* and the service restarts: the client shows each event once, in order.     *)
THEOREM InOrder == Spec => []ShownInOrder
<1>1. IInv => ShownInOrder
  BY DEF IInv
<1> QED BY InitIInv, NextIInv, <1>1, PTL DEF Spec

=============================================================================
