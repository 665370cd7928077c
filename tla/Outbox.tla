------------------------------- MODULE Outbox -------------------------------
(* The outbox table (src/store.ts) and its flusher (flushOutbox of           *)
(* server/src/index.ts): events on their way to Barry's API, and visibility  *)
(* rows that only record a failed projection. The flusher runs every 30 s    *)
(* whether or not an earlier run still awaits an answer; an action runs from *)
(* one await to the next.                                                    *)
EXTENDS Naturals, Sequences, FiniteSets, SequencesExt

CONSTANTS
    Flush,          \* runs of flushOutbox that can be under way together
    BatchLimit,     \* rows per run (pendingOutbox(20))
    MaxEvents,      \* bound on rows of kind barry-event
    MaxVisibility,  \* bound on rows of any other kind
    MaxFailures     \* bound on unanswered or refused posts and process deaths

ASSUME OutboxAssumption ==
    /\ IsFiniteSet(Flush)
    /\ BatchLimit \in Nat \ {0}
    /\ {MaxEvents, MaxVisibility, MaxFailures} \subseteq Nat

VARIABLES
    outbox,     \* the rows, oldest first (ORDER BY created_at)
    batch,      \* what each run of flushOutbox still has to handle: <<id, attempts>>
    answered,   \* has the API accepted the post that the run awaits?
    accepted,   \* events that the API has accepted at least once
    failures

vars == <<outbox, batch, answered, accepted, failures>>

Rows == [kind : {"barry-event", "visibility"}, attempts : Nat, delivered : BOOLEAN]

TypeOK ==
    /\ outbox \in Seq(Rows)
    /\ batch \in [Flush -> Seq((DOMAIN outbox) \X Nat)]
    /\ answered \in [Flush -> BOOLEAN]
    /\ accepted \subseteq DOMAIN outbox
    /\ failures \in 0..MaxFailures

Init ==
    /\ outbox = <<>>
    /\ batch = [f \in Flush |-> <<>>]
    /\ answered = [f \in Flush |-> FALSE]
    /\ accepted = {}
    /\ failures = 0

OfKind(k) == {i \in DOMAIN outbox : outbox[i].kind = k}

(* pendingOutbox: the oldest undelivered rows, with their attempts.          *)
PendingOutbox ==
    LET pending == SelectSeq([i \in DOMAIN outbox |-> i], LAMBDA i : ~outbox[i].delivered)
    IN  [n \in 1..(IF Len(pending) < BatchLimit THEN Len(pending) ELSE BatchLimit) |->
           <<pending[n], outbox[pending[n]].attempts>>]

(* The loop runs over visibility rows without an await, and marks those that *)
(* the query found at 0 attempts; it stops to post at the first event.       *)
Skipped(rows) ==
    LET event(n) == outbox[rows[n][1]].kind = "barry-event"
    IN  {n \in DOMAIN rows : \A m \in 1..n : ~event(m)}

Visited(rows) == {rows[n][1] : n \in {m \in Skipped(rows) : rows[m][2] = 0}}

-----------------------------------------------------------------------------
EnqueueOutbox(k) ==
    /\ Cardinality(OfKind(k)) < (IF k = "barry-event" THEN MaxEvents ELSE MaxVisibility)
    /\ outbox' = Append(outbox, [kind |-> k, attempts |-> 0, delivered |-> FALSE])
    /\ UNCHANGED <<batch, answered, accepted, failures>>

(* Run f goes on with `rows`, after it has settled its last post as `table`. *)
GoOn(f, rows, table) ==
    /\ outbox' = [i \in DOMAIN table |->
                    IF i \in Visited(rows) THEN [table[i] EXCEPT !.attempts = @ + 1]
                    ELSE table[i]]
    /\ batch' = [batch EXCEPT ![f] = SubSeq(rows, Cardinality(Skipped(rows)) + 1, Len(rows))]

FlushOutbox(f) ==
    /\ batch[f] = <<>> /\ PendingOutbox # <<>>
    /\ GoOn(f, PendingOutbox, outbox)
    /\ UNCHANGED <<answered, accepted, failures>>

(* The API accepts the post; its answer is on the way.                       *)
Accept(f) ==
    /\ batch[f] # <<>> /\ ~answered[f]
    /\ answered' = [answered EXCEPT ![f] = TRUE]
    /\ accepted' = accepted \cup {Head(batch[f])[1]}
    /\ UNCHANGED <<outbox, batch, failures>>

Delivered(f) ==
    /\ batch[f] # <<>> /\ answered[f]
    /\ GoOn(f, Tail(batch[f]), [outbox EXCEPT ![Head(batch[f])[1]].delivered = TRUE])
    /\ answered' = [answered EXCEPT ![f] = FALSE]
    /\ UNCHANGED <<accepted, failures>>

(* Mutant: an answer that is not ok counts as one.                           *)
FailedAsDelivered(f) ==
    /\ batch[f] # <<>> /\ failures < MaxFailures
    /\ GoOn(f, Tail(batch[f]), [outbox EXCEPT ![Head(batch[f])[1]].delivered = TRUE])
    /\ answered' = [answered EXCEPT ![f] = FALSE]
    /\ failures' = failures + 1
    /\ UNCHANGED accepted

(* Mutant: a failed event becomes a dead letter, which nobody posts again.   *)
FailedDead(f) ==
    /\ batch[f] # <<>> /\ failures < MaxFailures
    /\ GoOn(f, Tail(batch[f]), [outbox EXCEPT ![Head(batch[f])[1]].kind = "dead"])
    /\ answered' = [answered EXCEPT ![f] = FALSE]
    /\ failures' = failures + 1
    /\ UNCHANGED accepted

(* An answer that is not ok, or none: the post may have been accepted.       *)
Failed(f) ==
    /\ batch[f] # <<>> /\ failures < MaxFailures
    /\ GoOn(f, Tail(batch[f]), [outbox EXCEPT ![Head(batch[f])[1]].attempts = @ + 1])
    /\ answered' = [answered EXCEPT ![f] = FALSE]
    /\ failures' = failures + 1
    /\ UNCHANGED accepted

Crash ==
    /\ failures < MaxFailures
    /\ batch' = [f \in Flush |-> <<>>]
    /\ answered' = [f \in Flush |-> FALSE]
    /\ failures' = failures + 1
    /\ UNCHANGED <<outbox, accepted>>

Next ==
    \/ \E k \in {"barry-event", "visibility"} : EnqueueOutbox(k)
    \/ \E f \in Flush : FlushOutbox(f) \/ Accept(f) \/ Delivered(f) \/ Failed(f)
    \/ Crash

(* The timer recurs, and a post is answered or given up (fetch's own limit). *)
Spec ==
    /\ Init /\ [][Next]_vars
    /\ \A f \in Flush : WF_vars(FlushOutbox(f)) /\ WF_vars(Accept(f) \/ Delivered(f))

-----------------------------------------------------------------------------
(* "Never silently lost" (store.ts): a row leaves the pending set only after *)
(* the API has accepted it, with overlapping runs and lost answers too.      *)
DeliveredWasAccepted ==
    \A i \in DOMAIN outbox : outbox[i].delivered => i \in accepted

(* "Transactional outbox toward Barry" (store.ts): once the API answers,     *)
(* every event reaches it.                                                   *)
EventsDelivered ==
    \A i \in 1..MaxEvents + MaxVisibility :
        i \in OfKind("barry-event") ~> i \in DOMAIN outbox /\ outbox[i].delivered

=============================================================================
