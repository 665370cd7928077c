------------------------------- MODULE Debrief -------------------------------
(* The debrief (src/debrief.ts, src/debrief-plans.ts): the second half of    *)
(* the supervisor tick, which turns the book, the events, the delegations,   *)
(* the outbox and a foreign plans service into one snapshot; and the         *)
(* narrative pass (src/debrief-narrative.ts), which asks a model for prose   *)
(* about the snapshot and stores it under the hash of what it described.     *)
(*                                                                           *)
(* Both passes are suspended between what they read and what they write. The *)
(* races of the book's own writers are module Book's; here a tick reads its  *)
(* sources and writes the book in one step, and ticks do not overlap.        *)
(*                                                                           *)
(* A hash is the inputs it is computed from. A trouble id holds the row's    *)
(* updated_at, which every tick writes anew: "now" stands for the stamp of   *)
(* the last tick, "past" for every earlier one. Names, summaries, reasons    *)
(* and the wording of a trouble do not change for a status, a plan, a        *)
(* delegation or an outbox row that does not; no list reaches its cap.       *)
EXTENDS Naturals, FiniteSets, FiniteSetsExt, Functions

CONSTANTS
    Session,
    Plan,          \* plans of the plans service
    creator,       \* the session that created a plan
    inRepo,        \* plans that name the sessions' repository
    Delegation,
    None,
    MaxChanges     \* bound on changes and failures of the outside and on restarts

ASSUME DebriefAssumption ==
    /\ IsFiniteSet(Session) /\ IsFiniteSet(Plan) /\ IsFiniteSet(Delegation)
    /\ creator \in [Plan -> Session \cup {None}]
    /\ inRepo \subseteq Plan
    /\ MaxChanges \in Nat

VARIABLES
    fact,        \* what the tick finds out about a session
    planStatus,
    broken,      \* delegations that are blocked or failed
    failing,     \* outbox rows tried and not delivered, by age
    hosted,      \* what a call of the hosted model ends in
    local,       \* what a call of the local model ends in
    changes,
    book,        \* a row's status; an "ok" row is "working" or "idle"
    order,       \* its rows by updated_at, the last one first
    recent,      \* <<type, session>> of the flag events among the newest 50
    flagged,     \* previouslyFlagged
    tick,        \* where the tick is suspended, and the plans it has so far
    snapshot,    \* debrief_snapshot: its content, narrative carried along
    narrative,   \* debrief_narrative: its inputs_hash, and what it describes
    pass         \* the snapshot a suspended narrative pass has read

models == <<hosted, local>>
facts == <<fact, planStatus, broken, failing, models>>
outside == <<facts, changes>>
listed == <<book, order>>
vars == <<outside, listed, recent, flagged, tick, snapshot, narrative, pass>>

Flag == {"stuck", "conflicted"}
Answer == {"prose", "ramble", "failure"}

Idle == [at |-> "idle", plans |-> {}]

(* A quiet team and models that work; Change makes anything of them.         *)
Init ==
    /\ fact = [s \in Session |-> "working"]
    /\ planStatus = [p \in Plan |-> "draft"]
    /\ broken = {} /\ failing = {}
    /\ hosted = "prose" /\ local = "prose"
    /\ changes = 0
    /\ book = [s \in Session |-> "absent"] /\ order = <<>>
    /\ recent = {} /\ flagged = {}
    /\ tick = Idle
    /\ snapshot = None /\ narrative = None /\ pass = None

-----------------------------------------------------------------------------
(* The outside: sessions, plans, delegations, the outbox and the models      *)
(* change; flag events scroll out of the newest 50.                          *)
Change ==
    /\ changes < MaxChanges /\ changes' = changes + 1
    /\ \/ /\ \E s \in Session, f \in {"gone", "working", "idle"} \cup Flag :
                fact' = [fact EXCEPT ![s] = f]
          /\ UNCHANGED <<planStatus, broken, failing, models, recent>>
       \/ /\ \E p \in Plan, st \in {"draft", "in-progress", "closed"} :
                planStatus' = [planStatus EXCEPT ![p] = st]
          /\ UNCHANGED <<fact, broken, failing, models, recent>>
       \/ /\ \E d \in Delegation : broken' \in {broken \cup {d}, broken \ {d}}
          /\ UNCHANGED <<fact, planStatus, failing, models, recent>>
       \/ /\ \E n \in 1..2 : failing' \in {failing \cup {n}, failing \ {n}}
          /\ UNCHANGED <<fact, planStatus, broken, models, recent>>
       \/ /\ hosted' \in Answer /\ local' \in Answer
          /\ UNCHANGED <<fact, planStatus, broken, failing, recent>>
       \/ recent' = {} /\ UNCHANGED facts
    /\ UNCHANGED <<listed, flagged, tick, snapshot, narrative, pass>>

Fails == changes < MaxChanges /\ changes' = changes + 1

-----------------------------------------------------------------------------
(* The tick.                                                                 *)

(* upsertBookRow for every active session, then pruneBookRows. The sessions  *)
(* come in any order, and rows of one millisecond in that of the table.      *)
UpdateBook ==
    /\ tick.at = "idle"
    /\ book' = [s \in Session |-> IF fact[s] = "gone" THEN "absent" ELSE fact[s]]
    /\ LET seen == {s \in Session : fact[s] # "gone"}
       IN  order' \in Bijection(1..Cardinality(seen), seen)
    /\ tick' = [tick EXCEPT !.at = "plans"]
    /\ UNCHANGED <<outside, recent, flagged, snapshot, narrative, pass>>

(* fetchOpenPlans asks twice: for the plans in progress, then for drafts. A  *)
(* failure of either is "no plans" with an error beside it.                  *)
Fetched(status) == {<<p, status>> : p \in {q \in Plan : planStatus[q] = status}}

FetchInProgress ==
    /\ tick.at = "plans"
    /\ \/ tick' = [at |-> "drafts", plans |-> Fetched("in-progress")] /\ UNCHANGED changes
       \/ tick' = [at |-> "noplans", plans |-> {}] /\ Fails
    /\ UNCHANGED <<facts, listed, recent, flagged, snapshot, narrative, pass>>

(* linkPlansForSlug: what the session created, and what names its repository *)
(* if the remote could be read.                                              *)
linkPlansForSlug(s, plans, slug) ==
    {pl \in plans : creator[pl[1]] = s \/ (slug /\ pl[1] \in inRepo)}

bookRows == {s \in Session : book[s] # "absent"}
Flagged == {s \in bookRows : book[s] \in Flag}

(* assembleTrouble: the book's flags, events that the book does not repeat,  *)
(* delegations, and the outbox as one entry named after its newest row. The  *)
(* createdAt in an event's id is left out: two events of one kind and        *)
(* session hash alike here, and are told alike.                              *)
assembleTrouble ==
    {<<book[s], s, "now">> : s \in Flagged}
        \cup {<<e[1], e[2], "event">> : e \in {f \in recent : book[f[2]] # f[1]}}
        \cup {<<"delegation", d, "past">> : d \in broken}
        \cup (IF failing = {} THEN {} ELSE {<<"outbox", Max(failing), "past">>})

(* buildDebrief: the rows as they are listed, with the plans linked to each, *)
(* and the trouble.                                                          *)
buildDebrief(plans, slug) ==
    [sessions |-> [i \in DOMAIN order |->
                     [id |-> order[i], is |-> book[order[i]],
                      plans |-> linkPlansForSlug(order[i], plans, slug)]],
     trouble  |-> assembleTrouble]

countSessions(debrief) ==
    [is \in {"working", "idle"} \cup Flag |->
        Cardinality({i \in DOMAIN debrief.sessions : debrief.sessions[i].is = is})]

Status(is) == IF is \in Flag THEN is ELSE "ok"
Linked(debrief) == UNION {debrief.sessions[i].plans : i \in DOMAIN debrief.sessions}

(* What is hashed: the counts, the rows in the order of the book, of each    *)
(* only whether it is flagged and the ids of its plans, the plans with their *)
(* status, the trouble ids. The narrative is carried along, not hashed.      *)
hashDebriefInputs(debrief) ==
    [counts   |-> countSessions(debrief),
     sessions |-> [i \in DOMAIN debrief.sessions |->
                     LET s == debrief.sessions[i]
                     IN  <<s.id, Status(s.is), {pl[1] : pl \in s.plans}>>],
     plans    |-> Linked(debrief),
     trouble  |-> debrief.trouble]

(* A hash or a debrief after another tick.                                   *)
Aged(inputs) ==
    [inputs EXCEPT !.trouble = {<<t[1], t[2], IF t[3] = "now" THEN "past" ELSE t[3]>> : t \in @}]
AgedNarrative == IF narrative = None THEN None ELSE [narrative EXCEPT !.hash = Aged(@)]

putDebriefSnapshot(plans, slug) ==
    /\ narrative' = AgedNarrative
    /\ pass' = IF pass = None THEN None ELSE Aged(pass)
    /\ snapshot' = [debrief |-> buildDebrief(plans, slug), narrative |-> AgedNarrative]

(* notifyNewFlags: an event for each row flagged now and not before.         *)
notifyNewFlags ==
    /\ recent' = recent \cup {<<book[s], s>> : s \in Flagged \ flagged}
    /\ flagged' = Flagged

(* Whatever throws here skips the debrief and leaves the book and the        *)
(* notification alone.                                                       *)
WriteDebrief ==
    /\ tick.at \in {"drafts", "noplans"}
    /\ \/ /\ \/ /\ tick.at = "drafts"
                /\ putDebriefSnapshot(tick.plans \cup Fetched("draft"), TRUE)
                /\ UNCHANGED changes
             \/ tick.at = "noplans" /\ putDebriefSnapshot({}, TRUE) /\ UNCHANGED changes
             \/ tick.at = "drafts" /\ putDebriefSnapshot({}, TRUE) /\ Fails
             \/ /\ tick.at = "drafts"
                /\ putDebriefSnapshot(tick.plans \cup Fetched("draft"), FALSE)
                /\ Fails
       \/ Fails /\ UNCHANGED <<snapshot, narrative, pass>>
    /\ notifyNewFlags
    /\ tick' = Idle
    /\ UNCHANGED <<facts, listed>>

(* The backstop finds a conflict of two sessions of the book; updated_at is  *)
(* not its to write.                                                         *)
Escalate ==
    /\ Fails
    /\ \E s, t \in bookRows :
         s # t /\ book' = [book EXCEPT ![s] = "conflicted", ![t] = "conflicted"]
    /\ UNCHANGED <<facts, order, recent, flagged, tick, snapshot, narrative, pass>>

-----------------------------------------------------------------------------
(* The narrative pass.                                                       *)

(* Mutant: only a missing narrative is written.                              *)
RegenerateMissing == narrative = None

shouldRegenerate ==
    IF narrative = None THEN TRUE ELSE narrative.hash # hashDebriefInputs(snapshot.debrief)

TickNarrative ==
    /\ pass = None /\ snapshot # None
    /\ shouldRegenerate
    /\ pass' = snapshot.debrief
    /\ UNCHANGED <<outside, listed, recent, flagged, tick, snapshot, narrative>>

(* What the model is told: the counts, who is flagged, the trouble, the      *)
(* titles of the plans; not which of the others are at work.                 *)
narrativePrompt(debrief) ==
    [counts   |-> countSessions(debrief),
     sessions |-> [i \in DOMAIN debrief.sessions |->
                     <<debrief.sessions[i].id, Status(debrief.sessions[i].is)>>],
     trouble  |-> {<<t[1], t[2]>> : t \in debrief.trouble},
     plans    |-> {pl[1] : pl \in Linked(debrief)}]

(* generateNarrative: the hosted model answers for itself, prose or not; only*)
(* a call that fails, or a missing credential, tries the local one.          *)
generateNarrative == IF hosted = "failure" THEN local ELSE hosted

Store(debrief) ==
    /\ pass # None
    /\ narrative' = IF generateNarrative = "prose"
                    THEN [hash |-> hashDebriefInputs(debrief), about |-> narrativePrompt(pass)]
                    ELSE narrative
    /\ pass' = None
    /\ UNCHANGED <<outside, listed, recent, flagged, tick, snapshot>>

(* Mutant: the narrative is stored under the hash of the snapshot of the     *)
(* moment, not of the one it describes.                                      *)
StoreUnderCurrent == Store(snapshot.debrief)

(* What is no prose, or too long, leaves the old narrative in place.         *)
StoreNarrative == Store(pass)

-----------------------------------------------------------------------------
(* The process restarts. Both tables are durable; previouslyFlagged is not.  *)
Restart ==
    /\ Fails
    /\ flagged' = {} /\ tick' = Idle /\ pass' = None
    /\ UNCHANGED <<facts, listed, recent, snapshot, narrative>>

TickStep == UpdateBook \/ FetchInProgress \/ WriteDebrief

Next ==
    \/ Change \/ Restart \/ Escalate
    \/ TickStep \/ TickNarrative \/ StoreNarrative

(* Both timers recur, every await in them has a deadline, and failures are   *)
(* counted.                                                                  *)
Spec ==
    /\ Init /\ [][Next]_vars
    /\ WF_vars(TickStep) /\ WF_vars(TickNarrative) /\ WF_vars(StoreNarrative)

-----------------------------------------------------------------------------
TypeOK ==
    /\ book \in [Session -> {"absent", "working", "idle"} \cup Flag]
    /\ order \in Bijection(1..Cardinality(bookRows), bookRows)
    /\ recent \subseteq Flag \X Session
    /\ flagged \subseteq Session
    /\ tick.at \in {"idle", "plans", "drafts", "noplans"}
    /\ changes \in 0..MaxChanges
    /\ snapshot = None => narrative = None /\ pass = None

(* The clients mark a narrative stale by comparing two hashes of one payload *)
(* ("generated from an earlier snapshot"). What they do not mark tells of    *)
(* the very counts, flags, plans and troubles it is shown beside, though the *)
(* snapshot may be rewritten while the model is asked.                       *)
UnmarkedNarrativeIsTrue ==
    snapshot # None =>
        LET n == snapshot.narrative
        IN  n # None =>
                (n.hash = hashDebriefInputs(snapshot.debrief) =>
                     n.about = narrativePrompt(snapshot.debrief))

(* A team that changes no more, has nobody flagged, and whose rows the ticks *)
(* no longer write in another order ends up with a narrative that is not     *)
(* marked stale, whatever was regenerated, skipped or lost before, as long   *)
(* as the model that is asked answers in prose.                              *)
NarrativeCatchesUp ==
    /\ <>[](generateNarrative = "prose" /\ \A s \in Session : fact[s] \notin Flag)
    /\ <>[][order' = order]_vars
    => <>[](snapshot # None /\ snapshot.narrative # None
            /\ snapshot.narrative.hash = hashDebriefInputs(snapshot.debrief))

=============================================================================
