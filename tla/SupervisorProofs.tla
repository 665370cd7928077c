-------------------------- MODULE SupervisorProofs --------------------------
(* Proofs about the two halves of the supervisor tick: module Debrief, for    *)
(* any sessions, plans, delegations and number of changes of the outside, and *)
(* module Book, for any number of overlapping ticks. They are specifications  *)
(* of their own, so the book's variables are declared anew and Book is        *)
(* instantiated on them.                                                      *)
EXTENDS Debrief, TLAPS

CONSTANT Tick
VARIABLES active, contended, looping, clashing, bookChanges, rows, stamped, announced,
          runs, tpc, group

BK == INSTANCE Book WITH
    changes <- bookChanges, book <- rows, flagged <- announced, tick <- runs

-----------------------------------------------------------------------------
(* The debrief. A hash determines what a model is told of the snapshot that  *)
(* is hashed, for whatever of a row is told is hashed too; and ageing a      *)
(* hash, which every tick does to all of them, leaves that.                  *)

IsHash(h) == DOMAIN h = {"counts", "sessions", "plans", "trouble"}

Told(h) ==
    [counts   |-> h.counts,
     sessions |-> [i \in DOMAIN h.sessions |-> <<h.sessions[i][1], h.sessions[i][2]>>],
     trouble  |-> {<<t[1], t[2]>> : t \in h.trouble},
     plans    |-> {pl[1] : pl \in h.plans}]

(* A narrative describes what its hash is the hash of.                       *)
Honest(n) ==
    n # None => /\ DOMAIN n = {"hash", "about"}
                /\ IsHash(n.hash) /\ n.about = Told(n.hash)

IInv ==
    /\ Honest(narrative)
    /\ snapshot # None => Honest(snapshot.narrative)

LEMMA HashTells ==
    ASSUME NEW debrief
    PROVE  /\ IsHash(hashDebriefInputs(debrief))
           /\ Told(hashDebriefInputs(debrief)) = narrativePrompt(debrief)
<1> DEFINE h == hashDebriefInputs(debrief)
<1>1. IsHash(h)
  BY DEF IsHash, hashDebriefInputs
<1>2. h.counts = countSessions(debrief) /\ h.trouble = debrief.trouble /\ h.plans = Linked(debrief)
  BY DEF hashDebriefInputs
<1>3. h.sessions = [i \in DOMAIN debrief.sessions |->
                      <<debrief.sessions[i].id, Status(debrief.sessions[i].is),
                        {pl[1] : pl \in debrief.sessions[i].plans}>>]
  BY DEF hashDebriefInputs
<1>4. [i \in DOMAIN h.sessions |-> <<h.sessions[i][1], h.sessions[i][2]>>]
        = [i \in DOMAIN debrief.sessions |->
             <<debrief.sessions[i].id, Status(debrief.sessions[i].is)>>]
  BY <1>3
<1> QED BY <1>1, <1>2, <1>4 DEF Told, narrativePrompt

LEMMA AgedHash ==
    ASSUME NEW h, IsHash(h)
    PROVE  IsHash(Aged(h)) /\ Told(Aged(h)) = Told(h)
<1>1. /\ IsHash(Aged(h))
      /\ Aged(h).counts = h.counts /\ Aged(h).sessions = h.sessions /\ Aged(h).plans = h.plans
      /\ Aged(h).trouble =
           {<<t[1], t[2], IF t[3] = "now" THEN "past" ELSE t[3]>> : t \in h.trouble}
  BY DEF IsHash, Aged
<1>2. {<<t[1], t[2]>> : t \in Aged(h).trouble} = {<<t[1], t[2]>> : t \in h.trouble}
  <2> DEFINE past(t) == <<t[1], t[2], IF t[3] = "now" THEN "past" ELSE t[3]>>
             both(t) == <<t[1], t[2]>>
  <2>1. \A t : both(past(t)) = both(t)
    OBVIOUS
  <2>2. Aged(h).trouble = {past(t) : t \in h.trouble}
    BY <1>1
  <2> HIDE DEF past, both
  <2>3. {both(t) : t \in Aged(h).trouble} = {both(t) : t \in h.trouble}
    BY <2>1, <2>2
  <2> QED BY <2>3 DEF both
<1> QED BY <1>1, <1>2 DEF Told

LEMMA AgedHonest ==
    ASSUME Honest(narrative)
    PROVE  Honest(AgedNarrative)
<1>1. CASE narrative = None
  BY <1>1 DEF AgedNarrative, Honest
<1>2. CASE narrative # None
  <2> DEFINE h == narrative.hash
  <2>1. IsHash(h) /\ narrative.about = Told(h) /\ DOMAIN narrative = {"hash", "about"}
    BY <1>2 DEF Honest
  <2>2. AgedNarrative.hash = Aged(h) /\ AgedNarrative.about = Told(h)
        /\ DOMAIN AgedNarrative = {"hash", "about"}
    BY <1>2, <2>1 DEF AgedNarrative
  <2>3. IsHash(Aged(h)) /\ Told(Aged(h)) = Told(h)
    BY <2>1, AgedHash
  <2> QED BY <2>2, <2>3 DEF Honest
<1> QED BY <1>1, <1>2

LEMMA WritingKeeps ==
    ASSUME IInv, NEW plans, NEW slug, putDebriefSnapshot(plans, slug)
    PROVE  IInv'
<1>1. Honest(narrative')
  BY AgedHonest DEF IInv, putDebriefSnapshot
<1>2. Honest(snapshot'.narrative)
  BY AgedHonest DEF IInv, putDebriefSnapshot
<1> QED BY <1>1, <1>2 DEF IInv, Honest

(* What is stored is told of the snapshot whose hash it is stored under.     *)
LEMMA StoringKeeps == IInv /\ StoreNarrative => IInv'
<1> SUFFICES ASSUME IInv, StoreNarrative PROVE IInv'
  OBVIOUS
<1>1. snapshot' = snapshot
  BY DEF StoreNarrative, Store
<1>2. CASE narrative' = narrative
  BY <1>1, <1>2 DEF IInv, Honest
<1>3. CASE narrative' = [hash |-> hashDebriefInputs(pass), about |-> narrativePrompt(pass)]
  BY <1>1, <1>3, HashTells DEF IInv, Honest
<1> QED BY <1>2, <1>3 DEF StoreNarrative, Store

LEMMA NextIInv == IInv /\ [Next]_vars => IInv'
<1> SUFFICES ASSUME IInv, [Next]_vars PROVE IInv'
  OBVIOUS
<1>1. CASE UNCHANGED <<snapshot, narrative>>
  BY <1>1 DEF IInv, Honest
<1>2. CASE WriteDebrief
  BY <1>1, <1>2, WritingKeeps DEF WriteDebrief
<1>3. CASE TickNarrative \/ Restart
  BY <1>1, <1>3 DEF TickNarrative, Restart
<1>4. CASE Change \/ UpdateBook \/ FetchInProgress \/ Escalate \/ UNCHANGED vars
  BY <1>1, <1>4 DEF Change, UpdateBook, FetchInProgress, Escalate, vars
<1> QED BY <1>2, <1>3, <1>4, StoringKeeps DEF Next, TickStep

(* A narrative that the clients do not mark as stale tells of the counts,    *)
(* flags, plans and troubles it is shown beside, though snapshots are        *)
(* written while the model is asked, aged by every tick, and the process     *)
(* restarts between any two steps (hashDebriefInputs, narrativePrompt).      *)
THEOREM UnmarkedIsTrue == Spec => []UnmarkedNarrativeIsTrue
<1>1. Init => IInv
  BY DEF Init, IInv, Honest
<1>2. IInv => UnmarkedNarrativeIsTrue
  <2> SUFFICES ASSUME IInv, snapshot # None, snapshot.narrative # None,
                      snapshot.narrative.hash = hashDebriefInputs(snapshot.debrief)
               PROVE  snapshot.narrative.about = narrativePrompt(snapshot.debrief)
    BY DEF UnmarkedNarrativeIsTrue
  <2>1. snapshot.narrative.about = Told(snapshot.narrative.hash)
    BY DEF IInv, Honest
  <2> QED BY <2>1, HashTells
<1> QED BY <1>1, <1>2, NextIInv, PTL DEF Spec

-----------------------------------------------------------------------------
(* The book. A stamp does not outlive its row.                               *)

StampsHaveRows == stamped \subseteq BK!bookRows

LEMMA BookInit == BK!Init => StampsHaveRows
BY DEF BK!Init, StampsHaveRows

LEMMA BookNext == StampsHaveRows /\ [BK!Next]_(BK!vars) => StampsHaveRows'
<1> SUFFICES ASSUME StampsHaveRows, [BK!Next]_(BK!vars) PROVE StampsHaveRows'
  OBVIOUS
<1> USE DEF StampsHaveRows, BK!bookRows
<1>1. CASE UNCHANGED <<rows, stamped>>
  BY <1>1
<1>2. ASSUME NEW t \in Tick, BK!UpdateBook(t) PROVE StampsHaveRows'
  BY <1>2 DEF BK!UpdateBook, BK!Verdict
<1>3. CASE BK!RecordMergeTreeCheck
  BY <1>3 DEF BK!RecordMergeTreeCheck
<1>4. ASSUME NEW t \in Tick,
             \/ BK!GetActiveSessions(t) \/ BK!GetToolCalls(t)
             \/ BK!NotifyNewFlags(t) \/ BK!TickFails(t)
      PROVE  UNCHANGED <<rows, stamped>>
  BY <1>4 DEF BK!GetActiveSessions, BK!GetToolCalls, BK!NotifyNewFlags, BK!TickFails
<1>5. CASE BK!Change \/ BK!Restart \/ BK!GroupSessions \/ UNCHANGED BK!vars
  BY <1>1, <1>5 DEF BK!Change, BK!Restart, BK!GroupSessions, BK!vars
<1> QED BY <1>1, <1>2, <1>3, <1>4, <1>5 DEF BK!Next, BK!TickStep

(* What the two writers of the book do to it in one step.                    *)
LEMMA BookSteps ==
    ASSUME StampsHaveRows, [BK!Next]_(BK!vars)
    PROVE  /\ \A s \in stamped : rows'[s] # "absent" => s \in stamped'
           /\ \A s \in Session :
                rows[s] = "absent" /\ rows'[s] # "absent" =>
                  \E t \in Tick : tpc[t] = "judging" /\ s \in runs[t].sessions
<1> USE DEF StampsHaveRows, BK!bookRows
<1>1. CASE UNCHANGED <<rows, stamped>>
  BY <1>1
<1>2. ASSUME NEW t \in Tick, BK!UpdateBook(t)
      PROVE  /\ \A s \in stamped : rows'[s] # "absent" => s \in stamped'
             /\ \A s \in Session :
                  rows[s] = "absent" /\ rows'[s] # "absent" =>
                    tpc[t] = "judging" /\ s \in runs[t].sessions
  BY <1>2 DEF BK!UpdateBook
<1>3. CASE BK!RecordMergeTreeCheck
  BY <1>3 DEF BK!RecordMergeTreeCheck
<1>4. ASSUME NEW t \in Tick,
             \/ BK!GetActiveSessions(t) \/ BK!GetToolCalls(t)
             \/ BK!NotifyNewFlags(t) \/ BK!TickFails(t)
      PROVE  UNCHANGED <<rows, stamped>>
  BY <1>4 DEF BK!GetActiveSessions, BK!GetToolCalls, BK!NotifyNewFlags, BK!TickFails
<1>5. CASE BK!Change \/ BK!Restart \/ BK!GroupSessions \/ UNCHANGED BK!vars
  BY <1>1, <1>5 DEF BK!Change, BK!Restart, BK!GroupSessions, BK!vars
<1> QED BY <1>1, <1>2, <1>3, <1>4, <1>5 DEF BK!Next, BK!TickStep

(* No tick of the fast writer clears merge_tree_checked_at while the row     *)
(* stays, and a stamp goes when its row goes.                                *)
THEOREM StampStays == BK!Spec => []StampsHaveRows /\ BK!StampIsKept
<1>1. StampsHaveRows /\ [BK!Next]_(BK!vars) =>
        [\A s \in stamped : rows'[s] # "absent" => s \in stamped']_(BK!vars)
  BY BookSteps
<1> QED BY <1>1, BookInit, BookNext, PTL DEF BK!Spec, BK!StampIsKept

(* Only a tick that saw the session active brings a row into the book, not   *)
(* the backstop with the rows it read before.                                *)
THEOREM EndedStays == BK!Spec => BK!EndedStaysGone
<1>1. StampsHaveRows /\ [BK!Next]_(BK!vars) =>
        [\A s \in Session :
           rows[s] = "absent" /\ rows'[s] # "absent" =>
             \E t \in Tick : tpc[t] = "judging" /\ s \in runs[t].sessions]_(BK!vars)
  BY BookSteps
<1> QED BY <1>1, BookInit, BookNext, PTL DEF BK!Spec, BK!EndedStaysGone

=============================================================================
