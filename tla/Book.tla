-------------------------------- MODULE Book --------------------------------
(* The book (src/store.ts), its two writers - the supervisor tick            *)
(* (src/supervisor.ts) and the merge-tree backstop                           *)
(* (src/merge-tree-backstop.ts) - and notifyNewFlags, as the timers of       *)
(* server/src/index.ts run them: no timer waits for an earlier run, and      *)
(* every run is suspended between its reads and its writes. An action runs   *)
(* from one await to the next.                                               *)
(*                                                                           *)
(* The backstop's interval is long, so there is one run of it. All sessions  *)
(* share one repository. What the tick finds out about a session (locks.db,  *)
(* tool calls) and whether a pair merges are facts of the outside that       *)
(* change at any time.                                                       *)
EXTENDS Naturals, FiniteSets

CONSTANTS
    Session,
    Tick,          \* runs of tickSupervisor that can be under way together
    MaxChanges     \* bound on changes and failures of the outside and on restarts

ASSUME BookAssumption ==
    /\ IsFiniteSet(Session) /\ IsFiniteSet(Tick)
    /\ MaxChanges \in Nat

VARIABLES
    active,      \* sessions that getActiveSessions returns
    contended,   \* sessions that hold or wait for a contended path
    looping,     \* sessions whose recent tool calls evaluateStuck calls stuck
    clashing,    \* does git merge-tree find a conflict between the sessions?
    changes,
    book,        \* flagged reason of each row, "absent" where there is none
    stamped,     \* rows with a merge_tree_checked_at
    flagged,     \* previouslyFlagged
    tick,        \* what each run of the tick has read: sessions, stuck
    tpc,         \* where it is suspended
    group        \* sessions that the suspended backstop compares

facts == <<active, contended, looping, clashing>>
outside == <<facts, changes>>
vars == <<outside, book, stamped, flagged, tick, tpc, group>>

(* status is a function of the reason: contended and backstop are            *)
(* "conflicted", repeated is "stuck", none is "ok".                          *)
Reasons == {"none", "repeated", "contended", "backstop"}

TypeOK ==
    /\ {active, contended, looping, stamped, flagged, group} \subseteq SUBSET Session
    /\ clashing \in BOOLEAN
    /\ changes \in 0..MaxChanges
    /\ book \in [Session -> Reasons \cup {"absent"}]
    /\ \A s \in stamped : book[s] # "absent"
    /\ tick \in [Tick -> [sessions : SUBSET Session, stuck : SUBSET Session]]
    /\ tpc \in [Tick -> {"idle", "reading", "judging", "debrief"}]

NoTick == [sessions |-> {}, stuck |-> {}]

Init ==
    /\ active \in SUBSET Session
    /\ contended = {} /\ looping = {} /\ clashing = FALSE
    /\ changes = 0
    /\ book = [s \in Session |-> "absent"]
    /\ stamped = {} /\ flagged = {} /\ group = {}
    /\ tick = [t \in Tick |-> NoTick]
    /\ tpc = [t \in Tick |-> "idle"]

bookRows == {s \in Session : book[s] # "absent"}

-----------------------------------------------------------------------------
(* The outside: sessions come and go, contend, loop, and clash.              *)
Change ==
    /\ changes < MaxChanges
    /\ changes' = changes + 1
    /\ \E s \in Session :
         \/ active' \in {active \cup {s}, active \ {s}} /\ UNCHANGED <<contended, looping, clashing>>
         \/ contended' \in {contended \cup {s}, contended \ {s}} /\ UNCHANGED <<active, looping, clashing>>
         \/ looping' \in {looping \cup {s}, looping \ {s}} /\ UNCHANGED <<active, contended, clashing>>
         \/ clashing' = ~clashing /\ UNCHANGED <<active, contended, looping>>
    /\ UNCHANGED <<book, stamped, flagged, tick, tpc, group>>

-----------------------------------------------------------------------------
(* runSupervisorTick.                                                        *)

GetActiveSessions(t) ==
    /\ tpc[t] = "idle"
    /\ tick' = [tick EXCEPT ![t].sessions = active]
    /\ tpc' = [tpc EXCEPT ![t] = "reading"]
    /\ UNCHANGED <<outside, book, stamped, flagged, group>>

GetToolCalls(t) ==
    /\ tpc[t] = "reading"
    /\ tick' = [tick EXCEPT ![t].stuck = looping \cap tick[t].sessions]
    /\ tpc' = [tpc EXCEPT ![t] = "judging"]
    /\ UNCHANGED <<outside, book, stamped, flagged, group>>

(* The locks as the tick reads them: locks.db that cannot be read counts as  *)
(* nobody contending.                                                        *)
ContendedPaths(locks) ==
    \/ locks = contended /\ UNCHANGED changes
    \/ locks = {} /\ changes < MaxChanges /\ changes' = changes + 1

Verdict(t, s, locks) ==
    IF s \in locks THEN "contended" ELSE IF s \in tick[t].stuck THEN "repeated" ELSE "none"

(* Mutants: the upsert is an INSERT OR REPLACE; rows are never pruned.       *)
UpdateBookReplacing(t) ==
    /\ tpc[t] = "judging"
    /\ \E locks \in {contended, {}} :
         /\ ContendedPaths(locks)
         /\ book' = [s \in Session |-> IF s \in tick[t].sessions THEN Verdict(t, s, locks) ELSE "absent"]
    /\ stamped' = {}
    /\ tpc' = [tpc EXCEPT ![t] = "debrief"]
    /\ UNCHANGED <<facts, flagged, tick, group>>
UpdateBookKeeping(t) ==
    /\ tpc[t] = "judging"
    /\ \E locks \in {contended, {}} :
         /\ ContendedPaths(locks)
         /\ book' = [s \in Session |-> IF s \in tick[t].sessions THEN Verdict(t, s, locks) ELSE book[s]]
    /\ tpc' = [tpc EXCEPT ![t] = "debrief"]
    /\ UNCHANGED <<facts, stamped, flagged, tick, group>>

(* upsertBookRow for every session of the tick, then pruneBookRows.          *)
UpdateBook(t) ==
    /\ tpc[t] = "judging"
    /\ \E locks \in {contended, {}} :
         /\ ContendedPaths(locks)
         /\ book' = [s \in Session |-> IF s \in tick[t].sessions THEN Verdict(t, s, locks) ELSE "absent"]
    /\ stamped' = stamped \cap tick[t].sessions
    /\ tpc' = [tpc EXCEPT ![t] = "debrief"]
    /\ UNCHANGED <<facts, flagged, tick, group>>

(* Mutant: a session that was flagged once is never announced again.         *)
NotifyOnce(t) ==
    /\ tpc[t] = "debrief"
    /\ flagged' = flagged \cup {s \in bookRows : book[s] # "none"}
    /\ tick' = [tick EXCEPT ![t] = NoTick]
    /\ tpc' = [tpc EXCEPT ![t] = "idle"]
    /\ UNCHANGED <<outside, book, stamped, group>>

(* The debrief is written (or skipped); notifyNewFlags announces the rows    *)
(* that are flagged now and were not before.                                 *)
NotifyNewFlags(t) ==
    /\ tpc[t] = "debrief"
    /\ flagged' = {s \in bookRows : book[s] # "none"}
    /\ tick' = [tick EXCEPT ![t] = NoTick]
    /\ tpc' = [tpc EXCEPT ![t] = "idle"]
    /\ UNCHANGED <<outside, book, stamped, group>>

(* A read fails: the book keeps the last tick's view.                        *)
TickFails(t) ==
    /\ tpc[t] \in {"idle", "reading"}
    /\ changes < MaxChanges /\ changes' = changes + 1
    /\ tick' = [tick EXCEPT ![t] = NoTick]
    /\ tpc' = [tpc EXCEPT ![t] = "idle"]
    /\ UNCHANGED <<facts, book, stamped, flagged, group>>

-----------------------------------------------------------------------------
(* runMergeTreeBackstop.                                                     *)

(* The rows of the book now, without those whose HEAD cannot be resolved;    *)
(* fewer than two are nothing to compare.                                    *)
GroupSessions ==
    /\ group = {}
    /\ \E g \in SUBSET bookRows : Cardinality(g) >= 2 /\ group' = g
    /\ UNCHANGED <<outside, book, stamped, flagged, tick, tpc>>

(* git merge-tree on the pair; a check that errs counts as no conflict.      *)
CheckMergeTree(found) ==
    \/ found = clashing /\ UNCHANGED changes
    \/ ~found /\ changes < MaxChanges /\ changes' = changes + 1

(* Mutant: a session that left the book meanwhile gets a row.                *)
RecordInserting ==
    /\ group # {}
    /\ book' = [s \in Session |-> IF s \in group /\ clashing THEN "backstop"
                                  ELSE IF s \in group /\ book[s] = "absent" THEN "none"
                                  ELSE book[s]]
    /\ stamped' = stamped \cup group
    /\ group' = {}
    /\ UNCHANGED <<outside, flagged, tick, tpc>>

(* recordMergeTreeCheck for every session of the group: an UPDATE, so a row  *)
(* that is gone stays gone.                                                  *)
RecordMergeTreeCheck ==
    /\ group # {}
    /\ \E found \in BOOLEAN :
         /\ CheckMergeTree(found)
         /\ book' = [s \in Session |-> IF s \in group \cap bookRows /\ found THEN "backstop" ELSE book[s]]
    /\ stamped' = stamped \cup (group \cap bookRows)
    /\ group' = {}
    /\ UNCHANGED <<facts, flagged, tick, tpc>>

(* The process restarts: the runs under way and previouslyFlagged are gone.  *)
Restart ==
    /\ changes < MaxChanges /\ changes' = changes + 1
    /\ flagged' = {} /\ group' = {}
    /\ tick' = [t \in Tick |-> NoTick]
    /\ tpc' = [t \in Tick |-> "idle"]
    /\ UNCHANGED <<facts, book, stamped>>

TickStep(t) ==
    GetActiveSessions(t) \/ GetToolCalls(t) \/ UpdateBook(t) \/ NotifyNewFlags(t)

Next ==
    \/ Change \/ Restart
    \/ \E t \in Tick : TickStep(t) \/ TickFails(t)
    \/ GroupSessions \/ RecordMergeTreeCheck

(* Both timers recur, what they await is bounded, and failures are counted.  *)
Spec ==
    /\ Init /\ [][Next]_vars
    /\ \A t \in Tick : WF_vars(TickStep(t))
    /\ WF_vars(GroupSessions) /\ WF_vars(RecordMergeTreeCheck)

-----------------------------------------------------------------------------
(* merge_tree_checked_at says whether the slow check ever looked at this     *)
(* session ("null and a real timestamp mean different things"): no tick of   *)
(* the fast writer clears it while the row stays.                            *)
StampIsKept ==
    [][\A s \in stamped : book'[s] # "absent" => s \in stamped']_vars

(* A session that ended and left the book does not come back: neither the    *)
(* backstop, working from rows it read before, nor anything but a tick that  *)
(* saw the session active can bring it back.                                 *)
EndedStaysGone ==
    [][\A s \in Session :
         book[s] = "absent" /\ book'[s] # "absent" =>
             \E t \in Tick : tpc[t] = "judging" /\ s \in tick[t].sessions]_vars

(* A session that ends disappears from the book, even if an older tick that  *)
(* still saw it writes last for a while.                                     *)
EndedDisappears ==
    \A s \in Session : <>[](s \notin active) => <>[](book[s] = "absent")

(* A session that stays contended is announced, and one that stays clean is  *)
(* forgotten, so that its next flag is announced again.                      *)
ContendedIsAnnounced ==
    \A s \in Session :
        /\ <>[](s \in active /\ s \in contended) => <>(s \in flagged)
        /\ <>[](s \notin contended \cup looping /\ ~clashing) => <>[](s \notin flagged)

=============================================================================
