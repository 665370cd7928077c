----------------------------- MODULE Scheduler -----------------------------
(* The scheduler (src/scheduler.ts) with the attempt it awaits               *)
(* (src/worker.ts) and the boot of server/src/index.ts up to the end of      *)
(* resumeQueuedMerges: admission to a bounded set of slots, the              *)
(* attempt/verify cycle, the retry ladder, the process dying at any await,   *)
(* and reconciliation when it comes back. An action runs from one await to   *)
(* the next.                                                                 *)
(*                                                                           *)
(* The merge processor appears as the moves it may make on the delegations   *)
(* table (section "environment"); PointGuard checks that it makes no other.  *)
(* Plan-driven calls of runCycle are not here: a delegation is submitted by  *)
(* POST /delegations and retried by POST /admin/resync or a restart.         *)
EXTENDS Delegations

CONSTANTS
    maxWorkers,  \* maxConcurrentWorkers
    Pid,         \* process ids the operating system may hand out
    NoPid,       \* no run was ever recorded
    PidReuse,    \* may a new process get the pid of an unfinished run?
    LiveSweep    \* does the 300 s reconcile timer fire while the process is up?

ASSUME SchedulerAssumption ==
    /\ maxWorkers \in Nat \ {0}
    /\ NoPid \notin Pid
    /\ PidReuse \in BOOLEAN /\ LiveSweep \in BOOLEAN

VARIABLES
    cyc,     \* where the cycle of each delegation is suspended
    run,     \* newest row of the runs table for each delegation
    pid,     \* process.pid
    called   \* delegations for which a call of runCycle is pending

vars == <<shared, cyc, run, pid, called>>

RunStates == {"none", "running", "succeeded", "failed", "timeout", "unknown"}

(* "starting": createWorktree; "working": runSingle; "ok"/"bad": Sessions.end *)
(* after a run that ended well or not; "confirming": confirmArtifact;         *)
(* "verifying": verifyCandidate; "cleanup": removeWorktreeSafe.               *)
CycleStates == {"none", "starting", "working", "ok", "bad",
                "confirming", "verifying", "cleanup"}

TypeOK ==
    /\ DelegationsTypeOK
    /\ cyc \in [Delegation -> CycleStates]
    /\ run \in [Delegation -> [state : RunStates, pid : Pid \cup {NoPid}]]
    /\ pid \in Pid
    /\ called \in SUBSET Delegation

inFlight == {d \in Delegation : cyc[d] # "none"}

Init ==
    /\ DelegationsInit
    /\ cyc = [d \in Delegation |-> "none"]
    /\ run = [d \in Delegation |-> [state |-> "none", pid |-> NoPid]]
    /\ pid \in Pid
    /\ called = {}

CycTo(d, c) == cyc' = [cyc EXCEPT ![d] = c]

-----------------------------------------------------------------------------
(* Requests.                                                                 *)

(* POST /delegations: the row, and the call of runCycle that follows it.     *)
Dispatch(d) ==
    /\ phase = "up"
    /\ Create(d)
    /\ called' = called \cup {d}
    /\ UNCHANGED <<phase, crashes, cyc, run, pid>>

(* POST /admin/resync: a call of runCycle for every queued delegation.       *)
Resync ==
    /\ phase = "up"
    /\ called' = called \cup {d \in Delegation : dstate[d] = "queued"}
    /\ UNCHANGED <<shared, cyc, run, pid>>

(* POST /delegations/:id/cancel.                                             *)
CancelDelegation(d) ==
    /\ phase = "up"
    /\ Cancel(d)
    /\ UNCHANGED <<phase, crashes, cyc, run, pid, called>>

(* Mutant: one worker more than there are slots.                             *)
RefusedLate(d) == d \in inFlight \/ Cardinality(inFlight) > maxWorkers

Refused(d) == d \in inFlight \/ Cardinality(inFlight) >= maxWorkers

(* runCycle: refuse, stop at the cap, or claim the row and the slot.         *)
RunCycle(d) ==
    /\ d \in called
    /\ called' = called \ {d}
    /\ \/ /\ Refused(d) \/ dstate[d] # "queued"
          /\ UNCHANGED <<table, cyc>>
       \/ /\ ~Refused(d)
          /\ BlockAtCap(d)
          /\ UNCHANGED cyc
       \/ /\ ~Refused(d)
          /\ StartAttempt(d)
          /\ CycTo(d, "starting")
    /\ UNCHANGED <<phase, crashes, run, pid>>

-----------------------------------------------------------------------------
(* executeCycle and executeAttempt, from await to await.                     *)

CreateRun(d) ==
    /\ cyc[d] = "starting"
    /\ run' = [run EXCEPT ![d] = [state |-> "running", pid |-> pid]]
    /\ CycTo(d, "working")
    /\ UNCHANGED <<shared, pid, called>>

(* executeAttempt throws before its run exists: no worktree, no run row.     *)
InfraFailure(d) ==
    /\ cyc[d] = "starting"
    /\ SettleFailure(d)
    /\ CycTo(d, "none")
    /\ UNCHANGED <<phase, crashes, run, pid, called>>

(* Mutant: a timed-out run is not finished.                                  *)
WorkerEndsUnrecorded(d, outcome) ==
    /\ cyc[d] = "working"
    /\ run' = [run EXCEPT ![d].state = IF outcome = "timeout" THEN @ ELSE outcome]
    /\ CycTo(d, IF outcome = "succeeded" THEN "ok" ELSE "bad")
    /\ UNCHANGED <<shared, pid, called>>

(* runSingle settles: a valid report, an error or schema drift, the deadline.*)
WorkerEnds(d, outcome) ==
    /\ cyc[d] = "working"
    /\ run' = [run EXCEPT ![d].state = IF @ = "running" THEN outcome ELSE @]
    /\ CycTo(d, IF outcome = "succeeded" THEN "ok" ELSE "bad")
    /\ UNCHANGED <<shared, pid, called>>

(* Mutant: the failed cycle is not removed from inFlight.                    *)
AttemptFailsInPlace(d) ==
    /\ cyc[d] = "bad"
    /\ SettleFailure(d)
    /\ UNCHANGED <<phase, crashes, cyc, run, pid, called>>

AttemptFails(d) ==
    /\ cyc[d] = "bad"
    /\ SettleFailure(d)
    /\ CycTo(d, "none")
    /\ UNCHANGED <<phase, crashes, run, pid, called>>

AttemptSucceeds(d) ==
    /\ cyc[d] = "ok"
    /\ BeginVerification(d)
    /\ CycTo(d, IF dstate[d] = "running" THEN "confirming" ELSE "none")
    /\ UNCHANGED <<phase, crashes, run, pid, called>>

(* Mutant: the report is not put on record.                                  *)
ArtifactUnreported(d) ==
    /\ cyc[d] = "confirming"
    /\ CycTo(d, "verifying")
    /\ UNCHANGED <<shared, run, pid, called>>

(* confirmArtifact finds the claimed commit, clean and on the branch.        *)
ArtifactConfirmed(d) ==
    /\ cyc[d] = "confirming"
    /\ AddReport(d)
    /\ CycTo(d, "verifying")
    /\ UNCHANGED <<phase, crashes, run, pid, called>>

CandidateEligible(d) ==
    /\ cyc[d] = "verifying"
    /\ Accept(d)
    /\ CycTo(d, "cleanup")
    /\ UNCHANGED <<phase, crashes, run, pid, called>>

(* The artifact does not check out, or gates or judge refuse the candidate.  *)
VerificationFails(d) ==
    /\ cyc[d] \in {"confirming", "verifying"}
    /\ SettleFailure(d)
    /\ CycTo(d, "none")
    /\ UNCHANGED <<phase, crashes, run, pid, called>>

(* A git call inside confirmArtifact or verifyCandidate throws. executeCycle *)
(* has no catch around them: the slot is freed and nothing is settled. While *)
(* the boot sequence awaits the cycle this kills the process: see Crash.     *)
VerificationThrows(d) ==
    /\ phase = "up"
    /\ cyc[d] \in {"confirming", "verifying"}
    /\ CycTo(d, "none")
    /\ UNCHANGED <<shared, run, pid, called>>

FinishCleanup(d) ==
    /\ cyc[d] = "cleanup"
    /\ CycTo(d, "none")
    /\ UNCHANGED <<shared, run, pid, called>>

CycleStep(d) ==
    \/ CreateRun(d) \/ InfraFailure(d)
    \/ \E o \in {"succeeded", "failed", "timeout"} : WorkerEnds(d, o)
    \/ AttemptFails(d) \/ AttemptSucceeds(d)
    \/ ArtifactConfirmed(d) \/ CandidateEligible(d)
    \/ VerificationFails(d) \/ VerificationThrows(d) \/ FinishCleanup(d)

-----------------------------------------------------------------------------
(* The process dies, comes back and reconciles.                              *)
(* Mutants: the delegation goes back but its run stays open; a verdict that  *)
(* was already recorded is overwritten.                                      *)
ReconcileOpenRuns(p) ==
    /\ RequeueLost({d \in Delegation : run[d].state = "running" /\ run[d].pid # p})
    /\ UNCHANGED run
ReconcileAllRuns(p) ==
    LET lost == {d \in Delegation : run[d].pid \notin {p, NoPid}}
    IN  /\ run' = [d \in Delegation |->
                     IF d \in lost THEN [run[d] EXCEPT !.state = "unknown"] ELSE run[d]]
        /\ RequeueLost(lost)

(* reconcileOnStartup by process p. The owner of a run is recognised by its  *)
(* pid alone.                                                                *)
Reconcile(p) ==
    LET lost == {d \in Delegation : run[d].state = "running" /\ run[d].pid # p}
    IN  /\ run' = [d \in Delegation |->
                     IF d \in lost THEN [run[d] EXCEPT !.state = "unknown"]
                     ELSE run[d]]
        /\ RequeueLost(lost)

(* The 300 s timer calls reconcileOnStartup in the living process.           *)
Sweep ==
    /\ LiveSweep /\ phase = "up"
    /\ Reconcile(pid)
    /\ UNCHANGED <<phase, crashes, cyc, pid, called>>

(* Death at any await: memory is gone, the database stays.                   *)
Crash ==
    /\ phase # "down" /\ crashes < MaxCrashes
    /\ phase' = "down"
    /\ crashes' = crashes + 1
    /\ cyc' = [d \in Delegation |-> "none"]
    /\ called' = {}
    /\ UNCHANGED <<table, run, pid>>

Restart(p) ==
    /\ phase = "down"
    /\ PidReuse \/ \A d \in Delegation : ~(run[d].state = "running" /\ run[d].pid = p)
    /\ pid' = p
    /\ Reconcile(p)
    /\ phase' = "recovering"
    /\ UNCHANGED <<crashes, cyc, called>>

(* recoverPublishing is done; resumeQueuedDelegations calls runCycle on all  *)
(* queued delegations, in some order, until the slots are gone.              *)
StartupResume ==
    /\ phase = "recovering"
    /\ LET queued == {d \in Delegation : dstate[d] = "queued"}
           capped == {d \in queued : AtCap(d)}
       IN  \E S \in SUBSET (queued \ capped), B \in SUBSET capped :
             /\ Cardinality(S) <= maxWorkers
             /\ Cardinality(S) < maxWorkers => S = queued \ capped /\ B = capped
             /\ StartBatch(S, B)
             /\ cyc' = [d \in Delegation |-> IF d \in S THEN "starting" ELSE cyc[d]]
    /\ phase' = "resuming"
    /\ UNCHANGED <<crashes, run, pid, called>>

(* Every resumed cycle has settled: resumeQueuedMerges claims what it can.   *)
FinishResume ==
    /\ phase = "resuming"
    /\ inFlight = {}
    /\ \E C \in SUBSET {d \in Delegation : dstate[d] = "accepted"} : BeginIntegration(C)
    /\ phase' = "merging"
    /\ UNCHANGED <<crashes, cyc, run, pid, called>>

(* resumeQueuedMerges has returned.                                          *)
FinishMerging ==
    /\ phase = "merging"
    /\ phase' = "up"
    /\ UNCHANGED <<table, crashes, cyc, run, pid, called>>

-----------------------------------------------------------------------------
(* Environment: what the merge processor does to the table between boots.    *)
Integration ==
    /\ phase \in {"merging", "up"}
    /\ \/ phase = "up" /\ \E d \in Delegation : dstate[d] = "accepted" /\ BeginIntegration({d})
       \/ \E d \in Delegation, to \in {"merged", "queued"} :
            dstate[d] = "integrating" /\ FinishIntegration(d, to)
    /\ UNCHANGED <<phase, crashes, cyc, run, pid, called>>

Next ==
    \/ \E d \in Delegation :
         Dispatch(d) \/ CancelDelegation(d) \/ RunCycle(d) \/ CycleStep(d)
    \/ Resync \/ Sweep \/ Crash
    \/ \E p \in Pid : Restart(p)
    \/ StartupResume \/ FinishResume \/ FinishMerging
    \/ Integration

Safety == Init /\ [][Next]_vars

(* Every await inside a cycle is bounded by a timeout (worker deadline, gate *)
(* timeouts, judge deadline, 60 s per git call); a pending call is a         *)
(* microtask. Nothing is assumed of the boot or the service manager.         *)
Fairness ==
    \A d \in Delegation : WF_vars(CycleStep(d)) /\ WF_vars(RunCycle(d))

Spec == Safety /\ Fairness

-----------------------------------------------------------------------------
(* Properties.                                                               *)

(* Never more cycles than slots, neither while calls of runCycle interleave  *)
(* nor when a boot resumes everything at once (inFlight.size >= maxWorkers). *)
WorkerSlots == Cardinality(inFlight) <= maxWorkers

(* The brief's attempt budget survives crashes, merge conflicts and every    *)
(* other way back into the queue: attempt_count never passes attemptLimit.   *)
AttemptsBounded == \A d \in Delegation : attempts[d] <= attemptLimit[d]

(* A delegation reaches the human ("blocked") only with its budget spent,    *)
(* whoever blocked it: runCycle, settleFailure or the reconciliation.        *)
BlockedMeansCapSpent ==
    \A d \in Delegation : dstate[d] = "blocked" => attempts[d] = attemptLimit[d]

(* A suspended cycle still finds the row as it left it: nothing moves a      *)
(* delegation under the cycle that works on it, so the transitions that      *)
(* executeCycle makes after an await are never refused.                      *)
ActiveCycleOwnsState ==
    \A d \in Delegation :
        /\ cyc[d] \in {"starting", "working", "ok", "bad"} => dstate[d] = "running"
        /\ cyc[d] \in {"confirming", "verifying"} => dstate[d] = "verifying"
        /\ cyc[d] = "cleanup" => dstate[d] \notin {"absent", "running", "verifying"}

(* While the process is alive a row of the runs table says "running" exactly *)
(* when that worker is at work in this process (invariant of recovery: every *)
(* run that a crash interrupted was closed before dispatch resumed).         *)
RunningRunIsLive ==
    phase # "down" =>
        \A d \in Delegation :
            run[d].state = "running" <=> cyc[d] = "working" /\ run[d].pid = pid

(* "Never silently launch a replacement beside an unaccounted-for worker"    *)
(* (scheduler.ts): an attempt is started only when the previous run of that  *)
(* delegation has a terminal state, even if the new process reuses a pid.    *)
NoReplacementBesideWorker ==
    \A d \in Delegation :
        cyc[d] = "starting" \/ dstate[d] \in {"queued", "blocked", "cancelled"}
            => run[d].state # "running"

(* "accepted" and what follows it stand on evidence about the delegation's   *)
(* own newest attempt: its worker succeeded, its report is the last one, and *)
(* that very candidate passed gates and judge. enqueue and the integration   *)
(* read "the last report" and rely on this.                                  *)
AcceptedWasVerified ==
    \A d \in Delegation :
        dstate[d] \in {"accepted", "integrating", "merged"} =>
            /\ attempts[d] \in verified[d]
            /\ reported[d] = attempts[d]
            /\ run[d].state = "succeeded"

(* No step takes a delegation along an edge that DELEGATION_TRANSITIONS does *)
(* not list: the transitions composed in one synchronous stretch included.   *)
LifecycleEdges ==
    [][\A d \in Delegation :
         dstate[d] \notin {"absent", dstate'[d]} =>
             dstate'[d] \in DELEGATION_TRANSITIONS[dstate[d]]]_vars

(* "a run never leaves a terminal state" (store.ts, finishRun): recovery and *)
(* a late worker cannot rewrite each other's verdict, only a new attempt     *)
(* replaces the newest run.                                                  *)
RunsStayTerminal ==
    [][\A d \in Delegation :
         run[d].state \notin {"none", "running"} /\ run'[d] # run[d] =>
             run'[d].state = "running" /\ cyc[d] = "starting"]_vars

(* A slot that was taken is given back, whatever the attempt does.           *)
SlotReleased == \A d \in Delegation : cyc[d] # "none" ~> cyc[d] = "none"

=============================================================================
