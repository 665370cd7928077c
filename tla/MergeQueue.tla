----------------------------- MODULE MergeQueue -----------------------------
(* The merge processor (src/merge.ts) over the merge_queue table             *)
(* (src/store.ts) and the git refs it publishes to (src/gitwt.ts): enqueue,  *)
(* claim, integrate, re-verify, intent, compare-and-swap, retry; the process *)
(* dying at any await; recoverPublishing and the reclaim of stale rows.      *)
(* An action runs from one await to the next.                                *)
(*                                                                           *)
(* The scheduler appears as the statements it may execute on the delegations *)
(* table (section "environment"); PointGuard checks that it executes no      *)
(* other. A target ref is the log of its commits: every writer appends (git  *)
(* fast-forwards), the n-th commit is named by its position n.               *)
EXTENDS Delegations, Sequences

CONSTANTS
    Target,         \* (repo_common_dir, target_ref) pairs
    targetOf,       \* the target of each delegation
    Foreign,        \* a writer that is not point-guard
    MaxForeign,     \* bound on the commits of foreign writers
    maxCasRetries,
    GitMayFail,     \* may a git command die before or after its effect?
    LiveSweep       \* does the 300 s reconcile timer fire while the process is up?

ASSUME MergeQueueAssumption ==
    /\ targetOf \in [Delegation -> Target]
    /\ Foreign \notin Delegation
    /\ MaxForeign \in Nat /\ maxCasRetries \in Nat \ {0}
    /\ GitMayFail \in BOOLEAN /\ LiveSweep \in BOOLEAN

VARIABLES
    row,        \* the merge_queue row of each delegation (UNIQUE(delegation_id))
    target,     \* commits of each target ref, oldest first
    checked,    \* positions whose integrated tree passed gates and judge
    request,    \* where the confirm-merge request of each delegation is
    mpc,        \* where the processNext that claimed the row is suspended
    tries,      \* its loop counter `attempt`
    torecover   \* rows recoverPublishing has yet to look at

mergeVars == <<row, target, checked, request, mpc, tries, torecover>>
vars == <<shared, mergeVars>>

RowStates == {"none", "queued", "claimed", "integrated", "publishing", "published", "failed"}

Occupying == {"claimed", "integrated", "publishing"}

(* A row names the accepted candidate; created orders the queue; observed is *)
(* the position of the target's head, integrated that of the merge commit    *)
(* once it is published (0: no integrated_sha yet).                          *)
NoRow == [state |-> "none", accepted |-> 0, created |-> 0, observed |-> 0, integrated |-> 0]

Rows == [state : RowStates, accepted : 0..3, created : Nat, observed : Nat, integrated : Nat]
Commits == [by : Delegation \cup {Foreign}, candidate : 0..3, base : Nat]
Requests == [at : {"idle", "insert", "process"}, accepted : 0..3]

TypeOK ==
    /\ DelegationsTypeOK
    /\ row \in [Delegation -> Rows]
    /\ target \in [Target -> Seq(Commits)]
    /\ checked \in [Delegation -> SUBSET Nat]
    /\ request \in [Delegation -> Requests]
    /\ mpc \in [Delegation -> {"idle", "observe", "merge", "gates", "cas", "won", "lost"}]
    /\ tries \in [Delegation -> 0..maxCasRetries + 1]
    /\ torecover \in SUBSET Delegation

NoRequest == [at |-> "idle", accepted |-> 0]

Init ==
    /\ DelegationsInit
    /\ row = [d \in Delegation |-> NoRow]
    /\ target = [t \in Target |-> <<>>]
    /\ checked = [d \in Delegation |-> {}]
    /\ request = [d \in Delegation |-> NoRequest]
    /\ mpc = [d \in Delegation |-> "idle"]
    /\ tries = [d \in Delegation |-> 0]
    /\ torecover = {}

Tip(d) == Len(target[targetOf[d]])

(* The merge commit that the row names is on the target ref.                 *)
Landed(d) ==
    /\ row[d].integrated \in DOMAIN target[targetOf[d]]
    /\ target[targetOf[d]][row[d].integrated].by = d

RowState(d, s) == row' = [row EXCEPT ![d].state = s]
Goto(d, pc) == mpc' = [mpc EXCEPT ![d] = pc]
Return(d) == Goto(d, "idle") /\ tries' = [tries EXCEPT ![d] = 0]

-----------------------------------------------------------------------------
(* POST /delegations/:id/confirm-merge, and the plan's auto-merge hook.      *)
(* enqueue reads state and last report, then awaits commonDir.               *)
ConfirmMerge(d) ==
    /\ phase = "up" /\ dstate[d] # "absent" /\ request[d].at = "idle"
    /\ dstate[d] = "accepted" => reported[d] # 0   \* otherwise 409
    /\ request' = [request EXCEPT ![d] =
                     IF dstate[d] = "accepted"
                     THEN [at |-> "insert", accepted |-> reported[d]]
                     ELSE [at |-> "process", accepted |-> 0]]
    /\ UNCHANGED <<shared, row, target, checked, mpc, tries, torecover>>

(* Mutant: a settled entry is replaced by a new one.                         *)
EnqueueAgain(d) ==
    /\ request[d].at = "insert"
    /\ row' = [row EXCEPT ![d] =
                 IF @.state \in {"none", "failed", "published"}
                 THEN [NoRow EXCEPT !.state = "queued", !.accepted = request[d].accepted]
                 ELSE @]
    /\ request' = [request EXCEPT ![d] = [at |-> "process", accepted |-> 0]]
    /\ UNCHANGED <<shared, target, checked, mpc, tries, torecover>>

(* enqueueMerge: an existing row, in whatever state, is left as it is.       *)
EnqueueMerge(d) ==
    /\ request[d].at = "insert"
    /\ row' = [row EXCEPT ![d] =
                 IF @.state = "none"
                 THEN [NoRow EXCEPT !.state = "queued", !.accepted = request[d].accepted,
                         !.created = 1 + Cardinality({e \in Delegation : row[e] # NoRow})]
                 ELSE @]
    /\ request' = [request EXCEPT ![d] = [at |-> "process", accepted |-> 0]]
    /\ UNCHANGED <<shared, target, checked, mpc, tries, torecover>>

InState(t, states) == {d \in Delegation : targetOf[d] = t /\ row[d].state \in states}

(* claimNextMerge: nothing in flight on the target, then the oldest entry.   *)
Next1(t) ==
    IF InState(t, Occupying) # {} THEN {}
    ELSE {d \in InState(t, {"queued"}) :
            \A e \in InState(t, {"queued"}) : row[d].created <= row[e].created}

(* The claim, and the delegation's move to integrating in the same stretch;  *)
(* a delegation that is no longer accepted fails its row.                    *)
Claim(claimed) ==
    LET ready == {d \in claimed : dstate[d] = "accepted"}
    IN  /\ row' = [d \in Delegation |->
                     IF d \in ready THEN [row[d] EXCEPT !.state = "claimed"]
                     ELSE IF d \in claimed THEN [row[d] EXCEPT !.state = "failed"]
                     ELSE row[d]]
        /\ mpc' = [d \in Delegation |-> IF d \in ready THEN "observe" ELSE mpc[d]]
        /\ tries' = [d \in Delegation |-> IF d \in ready THEN 1 ELSE tries[d]]
        /\ BeginIntegration(claimed)

(* The request of d calls processNext on its target.                         *)
ProcessNext(d) ==
    /\ request[d].at = "process"
    /\ request' = [request EXCEPT ![d] = NoRequest]
    /\ Claim(Next1(targetOf[d]))
    /\ UNCHANGED <<phase, crashes, target, checked, torecover>>

-----------------------------------------------------------------------------
(* processNext, from await to await. updateMerge writes whatever the row's   *)
(* state is; the transitions of the delegation are guarded.                  *)

Observe(d) ==
    /\ mpc[d] = "observe" /\ tries[d] <= maxCasRetries
    /\ row' = [row EXCEPT ![d].observed = Tip(d)]
    /\ Goto(d, "merge")
    /\ UNCHANGED <<shared, target, checked, request, tries, torecover>>

(* Mutant: the delegation is blocked although it has attempts left.          *)
GiveUpForGood(d) ==
    /\ mpc[d] \in {"merge", "gates"}
    /\ RowState(d, "failed")
    /\ FinishIntegration(d, "blocked")
    /\ Return(d)
    /\ UNCHANGED <<phase, crashes, target, checked, request, torecover>>

(* Conflict, refused integrated tree, or the retries used up: the row fails  *)
(* and the delegation returns to a fresh attempt.                            *)
GiveUp(d) ==
    /\ \/ mpc[d] \in {"merge", "gates"}
       \/ mpc[d] = "observe" /\ tries[d] > maxCasRetries
    /\ RowState(d, "failed")
    /\ FinishIntegration(d, "queued")
    /\ Return(d)
    /\ UNCHANGED <<phase, crashes, target, checked, request, torecover>>

(* The candidate is on the observed target already: an update-ref that was   *)
(* reported as refused had landed.                                           *)
AlreadyUpToDate(d) ==
    \E i \in 1..row[d].observed :
        /\ target[targetOf[d]][i].by = d
        /\ target[targetOf[d]][i].candidate = row[d].accepted

(* git merge --no-ff: a new commit on top of the observed target, or         *)
(* "Already up to date" and HEAD stays where it is.                          *)
MergeOk(d) ==
    /\ mpc[d] = "merge"
    /\ row' = [row EXCEPT ![d].state = "integrated",
                          ![d].integrated = row[d].observed + IF AlreadyUpToDate(d) THEN 0 ELSE 1]
    /\ Goto(d, "gates")
    /\ UNCHANGED <<shared, target, checked, request, tries, torecover>>

(* The integrated tree is eligible, which needs a diff that is not empty;    *)
(* intent is on disk before the effect.                                      *)
IntegratedEligible(d) ==
    /\ mpc[d] = "gates"
    /\ row[d].integrated # row[d].observed
    /\ checked' = [checked EXCEPT ![d] = @ \cup {row[d].integrated}]
    /\ RowState(d, "publishing")
    /\ Goto(d, "cas")
    /\ UNCHANGED <<shared, target, request, tries, torecover>>

(* Mutant: update-ref without the expected old value.                        *)
CasPublishBlind(d) ==
    /\ mpc[d] = "cas"
    /\ target' = [target EXCEPT ![targetOf[d]] =
                    Append(@, [by |-> d, candidate |-> row[d].accepted, base |-> row[d].observed])]
    /\ Goto(d, "won")
    /\ UNCHANGED <<shared, row, checked, request, tries, torecover>>

(* casPublish: git update-ref with the expected old value. A command that is *)
(* killed, before its effect or after it, is reported as refused.            *)
CasPublish(d) ==
    /\ mpc[d] = "cas"
    /\ \/ /\ Tip(d) = row[d].observed
          /\ target' = [target EXCEPT ![targetOf[d]] =
                          Append(@, [by |-> d, candidate |-> row[d].accepted,
                                     base |-> row[d].observed])]
          /\ \E answer \in {"won"} \cup (IF GitMayFail THEN {"lost"} ELSE {}) : Goto(d, answer)
       \/ /\ Tip(d) # row[d].observed \/ GitMayFail
          /\ Goto(d, "lost")
          /\ UNCHANGED target
    /\ UNCHANGED <<shared, row, checked, request, tries, torecover>>

Published(d) ==
    /\ mpc[d] = "won"
    /\ RowState(d, "published")
    /\ FinishIntegration(d, "merged")
    /\ Return(d)
    /\ UNCHANGED <<phase, crashes, target, checked, request, torecover>>

(* Mutant: the expected SHA is refreshed and the same commit tried again.    *)
CasRefreshed(d) ==
    /\ mpc[d] = "lost"
    /\ row' = [row EXCEPT ![d].observed = Tip(d), ![d].integrated = Tip(d) + 1]
    /\ Goto(d, "cas")
    /\ UNCHANGED <<shared, target, checked, request, tries, torecover>>

(* A competing writer advanced the target: a fresh integrate+verify cycle.   *)
CasRefused(d) ==
    /\ mpc[d] = "lost"
    /\ RowState(d, "claimed")
    /\ tries' = [tries EXCEPT ![d] = @ + 1]
    /\ Goto(d, "observe")
    /\ UNCHANGED <<shared, target, checked, request, torecover>>

(* A git call or the judge throws: row and delegation stay as they are. In   *)
(* the boot sequence this kills the process: see Crash.                      *)
ProcessThrows(d) ==
    /\ phase = "up"
    /\ \/ mpc[d] \in {"merge", "gates"}
       \/ mpc[d] = "observe" /\ tries[d] <= maxCasRetries
    /\ Return(d)
    /\ UNCHANGED <<shared, row, target, checked, request, torecover>>

ProcessStep(d) ==
    \/ Observe(d) \/ GiveUp(d) \/ MergeOk(d) \/ IntegratedEligible(d)
    \/ CasPublish(d) \/ Published(d) \/ CasRefused(d) \/ ProcessThrows(d)

-----------------------------------------------------------------------------
(* Recovery.                                                                 *)
(* Mutants: pass 3 takes rows in publishing as well, or is left out.         *)
ReconcileAllRows(lost) ==
    /\ RequeueLost(lost)
    /\ row' = [d \in Delegation |->
                 IF row[d].state \in Occupying /\ dstate'[d] # "integrating"
                 THEN [row[d] EXCEPT !.state = "failed"] ELSE row[d]]
ReconcileNoRows(lost) == RequeueLost(lost) /\ UNCHANGED row

(* reconcileOnStartup: the delegations, then (pass 3) every claimed or       *)
(* integrated row whose delegation is no longer integrating.                 *)
Reconcile(lost) ==
    /\ RequeueLost(lost)
    /\ row' = [d \in Delegation |->
                 IF row[d].state \in {"claimed", "integrated"} /\ dstate'[d] # "integrating"
                 THEN [row[d] EXCEPT !.state = "failed"] ELSE row[d]]

Sweep ==
    /\ LiveSweep /\ phase = "up"
    /\ Reconcile({})
    /\ UNCHANGED <<phase, crashes, target, checked, request, mpc, tries, torecover>>

Crash ==
    /\ phase # "down" /\ crashes < MaxCrashes
    /\ phase' = "down"
    /\ crashes' = crashes + 1
    /\ request' = [d \in Delegation |-> NoRequest]
    /\ mpc' = [d \in Delegation |-> "idle"]
    /\ tries' = [d \in Delegation |-> 0]
    /\ torecover' = {}
    /\ UNCHANGED <<table, row, target, checked>>

(* Which running delegations pass 1 requeues depends on the runs table.      *)
Restart ==
    /\ phase = "down"
    /\ \E lost \in SUBSET {d \in Delegation : dstate[d] \in {"running", "verifying"}} :
         Reconcile(lost)
    /\ phase' = "recovering"
    /\ torecover' = {d \in Delegation : row[d].state = "publishing"}
    /\ UNCHANGED <<crashes, target, checked, request, mpc, tries>>

(* Mutant: the intent is taken for the effect.                               *)
RecoverTrusting(d) ==
    /\ phase = "recovering" /\ d \in torecover
    /\ RowState(d, "published")
    /\ FinishIntegration(d, "merged")
    /\ torecover' = torecover \ {d}
    /\ UNCHANGED <<phase, crashes, target, checked, request, mpc, tries>>

(* recoverPublishing settles one row. merge-base --is-ancestor that fails    *)
(* for any reason counts as "did not land".                                  *)
RecoverRow(d) ==
    /\ phase = "recovering" /\ d \in torecover
    /\ \E found \in {Landed(d)} \cup
           (IF GitMayFail /\ Tip(d) # row[d].integrated THEN {FALSE} ELSE {}) :
         /\ RowState(d, IF found THEN "published" ELSE "failed")
         /\ FinishIntegration(d, IF found THEN "merged" ELSE "queued")
    /\ torecover' = torecover \ {d}
    /\ UNCHANGED <<phase, crashes, target, checked, request, mpc, tries>>

(* The target cannot be read: the row is left for the operator.              *)
RecoverAmbiguous(d) ==
    /\ phase = "recovering" /\ d \in torecover
    /\ torecover' = torecover \ {d}
    /\ UNCHANGED <<shared, row, target, checked, request, mpc, tries>>

StartupResume ==
    /\ phase = "recovering" /\ torecover = {}
    /\ \E S, B \in SUBSET Delegation : StartBatch(S, B)
    /\ phase' = "resuming"
    /\ UNCHANGED <<crashes, mergeVars>>

(* resumeQueuedMerges: one processNext for every target with queued rows.    *)
FinishResume ==
    /\ phase = "resuming"
    /\ Claim(UNION {Next1(t) : t \in Target})
    /\ phase' = "merging"
    /\ UNCHANGED <<crashes, target, checked, request, torecover>>

(* resumeQueuedMerges has returned.                                          *)
FinishMerging ==
    /\ phase = "merging"
    /\ \A d \in Delegation : mpc[d] = "idle"
    /\ phase' = "up"
    /\ UNCHANGED <<table, crashes, mergeVars>>

-----------------------------------------------------------------------------
(* Environment: the scheduler's statements on the table, and other writers   *)
(* of the target ref.                                                        *)
WorkerStatement(d) ==
    \/ phase = "up" /\ (Create(d) \/ Cancel(d) \/ StartAttempt(d) \/ BlockAtCap(d))
    \/ /\ phase \in {"resuming", "up"}
       /\ \/ dstate[d] = "running" /\ BeginVerification(d)
          \/ dstate[d] = "verifying" /\ AddReport(d)
          \/ dstate[d] = "verifying" /\ reported[d] = attempts[d] /\ Accept(d)
          \/ dstate[d] \in {"running", "verifying"} /\ SettleFailure(d)

Worker(d) == WorkerStatement(d) /\ UNCHANGED <<phase, crashes, mergeVars>>

ForeignCommits ==
    UNION {{<<t, i>> : i \in {j \in DOMAIN target[t] : target[t][j].by = Foreign}} : t \in Target}

ForeignCommit(t) ==
    /\ Cardinality(ForeignCommits) < MaxForeign
    /\ target' = [target EXCEPT ![t] =
                    Append(@, [by |-> Foreign, candidate |-> 0, base |-> Len(@)])]
    /\ UNCHANGED <<shared, row, checked, request, mpc, tries, torecover>>

Next ==
    \/ \E d \in Delegation :
         \/ ConfirmMerge(d) \/ EnqueueMerge(d) \/ ProcessNext(d) \/ ProcessStep(d)
         \/ RecoverRow(d) \/ RecoverAmbiguous(d) \/ Worker(d)
    \/ Sweep \/ Crash \/ Restart \/ StartupResume \/ FinishResume \/ FinishMerging
    \/ \E t \in Target : ForeignCommit(t)

Safety == Init /\ [][Next]_vars

(* Every await of a request and of processNext is a git call, a gate or the  *)
(* judge, each bounded by a timeout; the service manager restarts the        *)
(* process, and up to resumeQueuedMerges its boot awaits bounded work; the   *)
(* reconcile timer recurs (where plans do not keep the boot from reaching    *)
(* it: README, "Further disagreements").                                     *)
Fairness ==
    /\ \A d \in Delegation :
         /\ WF_vars(EnqueueMerge(d)) /\ WF_vars(ProcessNext(d)) /\ WF_vars(ProcessStep(d))
         /\ WF_vars(RecoverRow(d) \/ RecoverAmbiguous(d))
    /\ WF_vars(Sweep) /\ WF_vars(Restart)
    /\ WF_vars(StartupResume) /\ WF_vars(FinishResume) /\ WF_vars(FinishMerging)

Spec == Safety /\ Fairness

-----------------------------------------------------------------------------
(* Properties.                                                               *)

(* Publication never overwrites somebody's commit: every commit of ours was  *)
(* built on its direct predecessor, whoever wrote that and whenever (CAS).   *)
NoLostUpdate ==
    \A t \in Target : \A i \in DOMAIN target[t] : target[t][i].base = i - 1

(* Retries, crashes, recovery and a second run of the same delegation never  *)
(* publish it twice.                                                         *)
PublishedAtMostOnce ==
    \A d \in Delegation : \A i, j \in DOMAIN target[targetOf[d]] :
        target[targetOf[d]][i].by = d /\ target[targetOf[d]][j].by = d => i = j

(* What reaches the ref is a candidate that the verifier accepted, in a tree *)
(* that passed gates and judge again at exactly the position it landed on.   *)
PublishedWasVerified ==
    \A d \in Delegation : \A i \in DOMAIN target[targetOf[d]] :
        target[targetOf[d]][i].by = d =>
            i \in checked[d] /\ target[targetOf[d]][i].candidate \in verified[d]

(* Write intent, then publish: a commit of ours on the ref always has a row  *)
(* that names it and says so, or says that it may be so; nothing in between, *)
(* not even the sweep or a crash, takes that record away. (With GitMayFail a *)
(* landed update-ref can be taken for refused, and this does not hold.)      *)
LandedIsRecorded ==
    \A d \in Delegation : \A i \in DOMAIN target[targetOf[d]] :
        target[targetOf[d]][i].by = d =>
            row[d].state \in {"publishing", "published"} /\ row[d].integrated = i

(* "published" and "merged" are never claimed for a commit that is not there.*)
RecordedHasLanded ==
    \A d \in Delegation :
        /\ row[d].state = "published" => Landed(d)
        /\ dstate[d] = "merged" => row[d].state = "published"

(* The queue row keeps naming a candidate that the verifier accepted, also   *)
(* when the delegation has been sent back and run again since.               *)
RowNamesVerified ==
    \A d \in Delegation : row[d].state # "none" => row[d].accepted \in verified[d]

(* A published row is final: no later write takes the target's history back. *)
PublishedIsFinal ==
    [][\A d \in Delegation :
         row[d].state = "published" => row'[d] = row[d] /\ dstate'[d] # "integrating"]_vars

(* The slot of a target is freed: an entry does not stay claimed or          *)
(* integrated, whatever throws (reclaim of stale rows by the sweep).         *)
TargetSlotFreed ==
    \A d \in Delegation :
        row[d].state \in {"claimed", "integrated"} ~>
            row[d].state \notin {"claimed", "integrated"}

(* The promise to the owner of the repository (module Publication): read     *)
(* through the commit log, the verifier's verdicts and the merged state,     *)
(* every step of the queue is one of its steps or none.                      *)
Promise == INSTANCE Publication WITH
    log      <- [t \in Target |-> [i \in DOMAIN target[t] |-> target[t][i].by]],
    approved <- {d \in Delegation : verified[d] # {}},
    vetted   <- checked,
    merged   <- {d \in Delegation : dstate[d] = "merged"}

ImplementsPublication == Promise!Spec

=============================================================================
