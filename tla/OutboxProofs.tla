---------------------------- MODULE OutboxProofs ----------------------------
(* Proofs about module Outbox, for any number of overlapping flushes, rows,  *)
(* batch size and failures.                                                  *)
EXTENDS Outbox, SequenceTheorems, TLAPS

(* An answer that is on its way is the answer to the first event of a batch, *)
(* and the API has accepted it. Whoever marks the row later relies on that.  *)
AnswerIsForHead ==
    \A f \in Flush : answered[f] => batch[f] # <<>> /\ Head(batch[f])[1] \in accepted

IInv ==
    /\ outbox \in Seq(Rows)
    /\ DOMAIN batch = Flush
    /\ answered \in [Flush -> BOOLEAN]
    /\ AnswerIsForHead
    /\ DeliveredWasAccepted

(* One row of a table is replaced; a row that is not there is not added.     *)
LEMMA SetRow ==
    ASSUME NEW table \in Seq(Rows), NEW h, NEW row, h \in DOMAIN table => row \in Rows
    PROVE  /\ [table EXCEPT ![h] = row] \in Seq(Rows)
           /\ DOMAIN [table EXCEPT ![h] = row] = DOMAIN table
           /\ \A i \in DOMAIN table :
                [table EXCEPT ![h] = row][i] = IF i = h THEN row ELSE table[i]
<1>1. DOMAIN table = 1..Len(table) /\ Len(table) \in Nat
  BY LenProperties
<1>2. CASE h \in DOMAIN table
  BY <1>1, <1>2, ExceptSeq
<1>3. CASE h \notin DOMAIN table
  <2>1. [table EXCEPT ![h] = row] = table
    BY <1>1, <1>3
  <2> QED BY <1>1, <1>3, <2>1
<1> QED BY <1>2, <1>3

(* What the updates of a row leave of it.                                    *)
LEMMA UpdateRow ==
    ASSUME NEW row \in Rows
    PROVE  /\ [row EXCEPT !.delivered = TRUE] \in Rows
           /\ [row EXCEPT !.attempts = row.attempts + 1] \in Rows
           /\ [row EXCEPT !.attempts = row.attempts + 1].delivered = row.delivered
<1>1. ASSUME NEW n \in Nat
      PROVE  /\ [row EXCEPT !.attempts = n] \in Rows
             /\ [row EXCEPT !.attempts = n].delivered = row.delivered
  BY DEF Rows
<1>2. row.attempts + 1 \in Nat
  BY DEF Rows
<1>3. [row EXCEPT !.delivered = TRUE] \in Rows
  BY DEF Rows
<1> QED BY <1>1, <1>2, <1>3

(* Going on with a batch marks attempts, and delivers nothing.               *)
LEMMA GoOnKeepsDelivered ==
    ASSUME NEW f, NEW rows, NEW table \in Seq(Rows), GoOn(f, rows, table)
    PROVE  /\ outbox' \in Seq(Rows)
           /\ DOMAIN outbox' = DOMAIN table
           /\ \A i \in DOMAIN table : outbox'[i].delivered = table[i].delivered
<1>1. DOMAIN table = 1..Len(table) /\ Len(table) \in Nat
  OBVIOUS
<1>2. ASSUME NEW i \in 1..Len(table)
      PROVE  outbox'[i] \in Rows /\ outbox'[i].delivered = table[i].delivered
  <2>1. table[i] \in Rows
    BY <1>1, <1>2
  <2>2. outbox'[i] = IF i \in Visited(rows) THEN [table[i] EXCEPT !.attempts = @ + 1]
                     ELSE table[i]
    BY <1>1, <1>2 DEF GoOn
  <2> QED BY <2>1, <2>2, UpdateRow
<1>3. outbox' = [i \in 1..Len(table) |-> outbox'[i]]
  BY <1>1 DEF GoOn
<1> QED BY <1>1, <1>2, <1>3

(* The same for a table of which run f has just settled one row.             *)
LEMMA GoOnPreserves ==
    ASSUME IInv, NEW f \in Flush, NEW rows, NEW table \in Seq(Rows), GoOn(f, rows, table),
           answered' = [answered EXCEPT ![f] = FALSE], UNCHANGED accepted,
           DOMAIN table = DOMAIN outbox,
           \A i \in DOMAIN table : table[i].delivered => i \in accepted
    PROVE  IInv'
<1>1. /\ outbox' \in Seq(Rows)
      /\ DOMAIN outbox' = DOMAIN table
      /\ \A i \in DOMAIN table : outbox'[i].delivered = table[i].delivered
  BY GoOnKeepsDelivered
<1>2. DOMAIN batch' = Flush /\ \A g \in Flush \ {f} : batch'[g] = batch[g]
  BY DEF GoOn, IInv
<1>3. AnswerIsForHead'
  BY <1>2 DEF AnswerIsForHead, IInv
<1>4. DeliveredWasAccepted'
  BY <1>1 DEF DeliveredWasAccepted
<1> QED BY <1>1, <1>2, <1>3, <1>4 DEF IInv

LEMMA InitIInv == Init => IInv
<1> SUFFICES ASSUME Init PROVE IInv
  OBVIOUS
<1>1. outbox \in Seq(Rows) /\ DOMAIN outbox = {}
  BY DEF Init
<1> QED BY <1>1 DEF Init, IInv, AnswerIsForHead, DeliveredWasAccepted

LEMMA NextIInv == IInv /\ [Next]_vars => IInv'
<1> SUFFICES ASSUME IInv, [Next]_vars PROVE IInv'
  OBVIOUS
<1>1. ASSUME NEW k \in {"barry-event", "visibility"}, EnqueueOutbox(k) PROVE IInv'
  <2>1. outbox' \in Seq(Rows)
    BY <1>1 DEF EnqueueOutbox, IInv, Rows
  <2>2. DeliveredWasAccepted'
    <3> DEFINE row == [kind |-> k, attempts |-> 0, delivered |-> FALSE]
    <3>1. row \in Rows /\ ~row.delivered /\ outbox' = Append(outbox, row) /\ accepted' = accepted
      BY <1>1 DEF EnqueueOutbox, Rows
    <3> HIDE DEF row
    <3> QED BY <3>1 DEF DeliveredWasAccepted, IInv
  <2> QED BY <1>1, <2>1, <2>2 DEF EnqueueOutbox, IInv, AnswerIsForHead
<1>2. ASSUME NEW f \in Flush, FlushOutbox(f) PROVE IInv'
  <2>1. answered' = [answered EXCEPT ![f] = FALSE]
    BY <1>2 DEF FlushOutbox, IInv, AnswerIsForHead
  <2> QED BY <1>2, <2>1, GoOnPreserves DEF FlushOutbox, IInv, DeliveredWasAccepted
<1>3. ASSUME NEW f \in Flush, Accept(f) PROVE IInv'
  <2>1. AnswerIsForHead' /\ DeliveredWasAccepted'
    BY <1>3 DEF Accept, IInv, AnswerIsForHead, DeliveredWasAccepted
  <2> QED BY <1>3, <2>1 DEF Accept, IInv
<1>4. ASSUME NEW f \in Flush, Delivered(f) PROVE IInv'
  <2> DEFINE h == Head(batch[f])[1]
             row == [outbox[h] EXCEPT !.delivered = TRUE]
             table == [outbox EXCEPT ![h] = row]
  <2>1. h \in accepted
    BY <1>4 DEF Delivered, IInv, AnswerIsForHead
  <2>2. ASSUME h \in DOMAIN outbox PROVE row \in Rows
    <3>1. outbox[h] \in Rows
      BY <2>2, LenProperties, ElementOfSeq DEF IInv
    <3> QED BY <3>1, UpdateRow
  <2>3. GoOn(f, Tail(batch[f]), table)
    BY <1>4 DEF Delivered
  <2> HIDE DEF h, row
  <2>4. /\ table \in Seq(Rows) /\ DOMAIN table = DOMAIN outbox
        /\ \A i \in DOMAIN outbox : table[i] = IF i = h THEN row ELSE outbox[i]
    BY <2>2, SetRow DEF IInv
  <2> HIDE DEF table
  <2>5. \A i \in DOMAIN table : table[i].delivered => i \in accepted
    BY <2>1, <2>4 DEF IInv, DeliveredWasAccepted
  <2> QED BY <1>4, <2>3, <2>4, <2>5, GoOnPreserves DEF Delivered
<1>5. ASSUME NEW f \in Flush, Failed(f) PROVE IInv'
  <2> DEFINE h == Head(batch[f])[1]
             row == [outbox[h] EXCEPT !.attempts = outbox[h].attempts + 1]
             table == [outbox EXCEPT ![h] = row]
  <2>1. ASSUME h \in DOMAIN outbox
        PROVE  row \in Rows /\ row.delivered = outbox[h].delivered
    <3>1. outbox[h] \in Rows
      BY <2>1, LenProperties, ElementOfSeq DEF IInv
    <3> QED BY <3>1, UpdateRow
  <2>2. GoOn(f, Tail(batch[f]), table)
    BY <1>5 DEF Failed
  <2> HIDE DEF h, row
  <2>3. /\ table \in Seq(Rows) /\ DOMAIN table = DOMAIN outbox
        /\ \A i \in DOMAIN outbox : table[i] = IF i = h THEN row ELSE outbox[i]
    BY <2>1, SetRow DEF IInv
  <2> HIDE DEF table
  <2>4. \A i \in DOMAIN table : table[i].delivered => i \in accepted
    BY <2>1, <2>3 DEF IInv, DeliveredWasAccepted
  <2> QED BY <1>5, <2>2, <2>3, <2>4, GoOnPreserves DEF Failed
<1>6. CASE Crash
  BY <1>6 DEF Crash, IInv, AnswerIsForHead, DeliveredWasAccepted
<1>7. CASE UNCHANGED vars
  BY <1>7 DEF vars, IInv, AnswerIsForHead, DeliveredWasAccepted
<1> QED BY <1>1, <1>2, <1>3, <1>4, <1>5, <1>6, <1>7 DEF Next

(* A row leaves the pending set only after the API has accepted its event,   *)
(* however the runs of the flusher overlap and whichever answers are lost.   *)
THEOREM NothingLost == Spec => []DeliveredWasAccepted
<1>1. IInv => DeliveredWasAccepted
  BY DEF IInv
<1> QED BY InitIInv, NextIInv, <1>1, PTL DEF Spec

=============================================================================
