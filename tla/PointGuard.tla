----------------------------- MODULE PointGuard -----------------------------
(* The service of server/src/index.ts: one scheduler and one merge processor *)
(* on one database, in one process. Scheduler and MergeQueue are each        *)
(* specified against an assumption about the other (their "environment"      *)
(* sections); here both run for real. A step is a step of one of them that   *)
(* leaves the other's own state alone, or one of the moments they share: the *)
(* process dies, boots, or runs reconcileOnStartup. That the composition     *)
(* implements both specifications is what discharges the assumptions.        *)
EXTENDS Delegations, Sequences

CONSTANTS maxWorkers, Pid, NoPid, PidReuse,
          Target, targetOf, Foreign, MaxForeign, maxCasRetries, GitMayFail,
          LiveSweep

(* What Scheduler and MergeQueue each assume of the constants.               *)
ASSUME PointGuardAssumption ==
    /\ maxWorkers \in Nat \ {0} /\ NoPid \notin Pid
    /\ targetOf \in [Delegation -> Target] /\ Foreign \notin Delegation
    /\ MaxForeign \in Nat /\ maxCasRetries \in Nat \ {0}
    /\ PidReuse \in BOOLEAN /\ GitMayFail \in BOOLEAN /\ LiveSweep \in BOOLEAN

VARIABLES cyc, run, pid, called,
          row, target, checked, request, mpc, tries, torecover

S == INSTANCE Scheduler
M == INSTANCE MergeQueue

schedulerVars == <<cyc, run, pid, called>>
mergeVars == <<row, target, checked, request, mpc, tries, torecover>>
vars == <<shared, schedulerVars, mergeVars>>

Init == S!Init /\ M!Init

SchedulerStep ==
    /\ \/ S!Resync
       \/ \E d \in Delegation :
            S!Dispatch(d) \/ S!CancelDelegation(d) \/ S!RunCycle(d) \/ S!CycleStep(d)
    /\ UNCHANGED mergeVars

MergeStep ==
    /\ \/ \E d \in Delegation :
            \/ M!ConfirmMerge(d) \/ M!EnqueueMerge(d) \/ M!ProcessNext(d)
            \/ M!ProcessStep(d) \/ M!RecoverRow(d) \/ M!RecoverAmbiguous(d)
       \/ \E t \in Target : M!ForeignCommit(t)
    /\ UNCHANGED schedulerVars

(* reconcileOnStartup by process p: the runs it closes are the scheduler's,  *)
(* the rows it reclaims the merge processor's.                               *)
Reconcile(p) ==
    /\ S!Reconcile(p)
    /\ M!Reconcile({d \in Delegation : run[d].state = "running" /\ run[d].pid # p})

Sweep ==
    /\ LiveSweep /\ phase = "up"
    /\ Reconcile(pid)
    /\ UNCHANGED <<phase, crashes, cyc, pid, called,
                   target, checked, request, mpc, tries, torecover>>

Crash == S!Crash /\ M!Crash

Restart ==
    /\ \E p \in Pid : S!Restart(p) /\ Reconcile(p)
    /\ torecover' = {d \in Delegation : row[d].state = "publishing"}
    /\ UNCHANGED <<target, checked, request, mpc, tries>>

(* The boot sequence of index.ts: recoverPublishing, resumeQueuedDelegations,*)
(* resumeQueuedMerges. What follows, resumeOpenPlans first, is "up".         *)
StartupResume == torecover = {} /\ S!StartupResume /\ UNCHANGED mergeVars

FinishResume ==
    /\ phase = "resuming" /\ S!inFlight = {}
    /\ M!Claim(UNION {M!Next1(t) : t \in Target})
    /\ phase' = "merging"
    /\ UNCHANGED <<crashes, schedulerVars, target, checked, request, torecover>>

FinishMerging == S!FinishMerging /\ M!FinishMerging

Next ==
    \/ SchedulerStep \/ MergeStep
    \/ Sweep \/ Crash \/ Restart \/ StartupResume \/ FinishResume \/ FinishMerging

Spec == Init /\ [][Next]_vars

-----------------------------------------------------------------------------
(* The merge processor does to the delegations table only what the scheduler *)
(* allows for: the scheduler's specification holds of the whole service.     *)
ImplementsScheduler == S!Safety

(* The scheduler does to the delegations table only what the merge processor *)
(* allows for, evidence included: its specification holds of the service.    *)
ImplementsMergeQueue == M!Safety

(* Every merged delegation went all the way: a succeeded run, a verified     *)
(* candidate, and that same candidate on the target ref, last attempt only.  *)
MergedIsLatestCandidate ==
    \A d \in Delegation : dstate[d] = "merged" =>
        /\ run[d].state = "succeeded"
        /\ \E i \in DOMAIN target[targetOf[d]] :
             target[targetOf[d]][i].by = d /\ target[targetOf[d]][i].candidate = attempts[d]

(* However a git command fails or lies, whatever dies and is run again: the  *)
(* owner's view of the target refs (module Publication) holds of the service.*)
ImplementsPublication == M!ImplementsPublication

=============================================================================
