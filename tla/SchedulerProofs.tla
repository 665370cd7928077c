--------------------------- MODULE SchedulerProofs ---------------------------
(* Proofs about module Scheduler, for every set of delegations, number of    *)
(* slots, budget, and number of crashes.                                     *)
EXTENDS Scheduler, FiniteSetTheorems, TLAPS

-----------------------------------------------------------------------------
(* What holds of one delegation between any two awaits. The three invariants *)
(* AttemptsBounded, BlockedMeansCapSpent and ActiveCycleOwnsState are        *)
(* conjuncts; the rest says what a suspended cycle may rely on when it goes  *)
(* on: its own run, its own report.                                          *)
Consistent(d) ==
    /\ attempts[d] <= attemptLimit[d]
    /\ dstate[d] \in {"running", "verifying"} => attempts[d] >= 1
    /\ dstate[d] = "blocked" => attempts[d] = attemptLimit[d]
    /\ cyc[d] \in {"starting", "working", "ok", "bad"} => dstate[d] = "running"
    /\ cyc[d] \in {"confirming", "verifying"} => dstate[d] = "verifying"
    /\ cyc[d] = "cleanup" => dstate[d] \notin {"absent", "running", "verifying"}
    /\ cyc[d] = "working" => run[d].state = "running" /\ run[d].pid = pid
    /\ cyc[d] \in {"ok", "confirming", "verifying"} => run[d].state = "succeeded"
    /\ cyc[d] = "verifying" => reported[d] = attempts[d]
    /\ run[d].state = "running" => dstate[d] = "running" /\ cyc[d] \in {"none", "working"}
    /\ dstate[d] \in {"accepted", "integrating", "merged"} =>
         /\ attempts[d] \in verified[d]
         /\ reported[d] = attempts[d]
         /\ run[d].state = "succeeded"

(* A process that has not yet resumed anything has no cycle, and one that is *)
(* not done with its merges no call of runCycle pending.                     *)
QuietBoot ==
    /\ phase \in {"down", "recovering"} => \A d \in Delegation : cyc[d] = "none"
    /\ phase # "up" => called = {}

(* A living process owns every running run, if pids are not reused.          *)
RunsOwned ==
    ~PidReuse /\ phase # "down" =>
        \A d \in Delegation : run[d].state = "running" => cyc[d] = "working"

IInv ==
    /\ TypeOK
    /\ \A d \in Delegation : Consistent(d)
    /\ QuietBoot
    /\ RunsOwned

-----------------------------------------------------------------------------
LEMMA InitIInv == Init => IInv
BY DelegationsAssumption, SchedulerAssumption
   DEF Init, DelegationsInit, IInv, TypeOK, DelegationsTypeOK, DELEGATION_STATES, Phases,
       RunStates, CycleStates, Consistent, QuietBoot, RunsOwned

LEMMA NextIInv == IInv /\ [Next]_vars => IInv'
<1> SUFFICES ASSUME IInv, [Next]_vars PROVE IInv'
  OBVIOUS
<1> USE DelegationsAssumption, SchedulerAssumption
    DEF IInv, TypeOK, DelegationsTypeOK, DELEGATION_STATES, Phases, RunStates, CycleStates,
        Consistent, QuietBoot, RunsOwned, shared, table, Transition
<1>1. ASSUME NEW d \in Delegation, Dispatch(d) PROVE IInv'
  BY <1>1 DEF Dispatch, Create
<1>2. ASSUME NEW d \in Delegation, CancelDelegation(d) PROVE IInv'
  BY <1>2 DEF CancelDelegation, Cancel
<1>3. ASSUME NEW d \in Delegation, RunCycle(d) PROVE IInv'
  <2>1. CASE UNCHANGED <<table, cyc>>
    BY <1>3, <2>1 DEF RunCycle
  <2>2. CASE ~Refused(d) /\ BlockAtCap(d) /\ UNCHANGED cyc
    BY <1>3, <2>2 DEF RunCycle, BlockAtCap, AtCap
  <2>3. CASE ~Refused(d) /\ StartAttempt(d) /\ CycTo(d, "starting")
    <3>1. cyc[d] = "none" /\ dstate[d] = "queued" /\ attempts[d] < attemptLimit[d]
      BY <2>3 DEF Refused, inFlight, StartAttempt, AtCap
    <3>2. TypeOK'
      BY <1>3, <2>3, <3>1 DEF RunCycle, StartAttempt, CycTo
    <3>3. \A e \in Delegation : Consistent(e)'
      BY <1>3, <2>3, <3>1 DEF RunCycle, StartAttempt, CycTo
    <3>4. QuietBoot' /\ RunsOwned'
      BY <1>3, <2>3, <3>1 DEF RunCycle, StartAttempt, CycTo
    <3>5. QED
      BY <3>2, <3>3, <3>4
  <2>4. QED
    BY <1>3, <2>1, <2>2, <2>3 DEF RunCycle
<1>4. ASSUME NEW d \in Delegation, CreateRun(d) PROVE IInv'
  BY <1>4 DEF CreateRun, CycTo
<1>5. ASSUME NEW d \in Delegation, InfraFailure(d) PROVE IInv'
  BY <1>5 DEF InfraFailure, SettleFailure, Requeue, AtCap, CycTo
<1>6. ASSUME NEW d \in Delegation,
              NEW o \in {"succeeded", "failed", "timeout"}, WorkerEnds(d, o)
       PROVE IInv'
  BY <1>6 DEF WorkerEnds, CycTo
<1>7. ASSUME NEW d \in Delegation, AttemptFails(d) PROVE IInv'
  BY <1>7 DEF AttemptFails, SettleFailure, Requeue, AtCap, CycTo
<1>8. ASSUME NEW d \in Delegation, AttemptSucceeds(d) PROVE IInv'
  BY <1>8 DEF AttemptSucceeds, BeginVerification, CycTo
<1>9. ASSUME NEW d \in Delegation, ArtifactConfirmed(d) PROVE IInv'
  BY <1>9 DEF ArtifactConfirmed, AddReport, CycTo
<1>10. ASSUME NEW d \in Delegation, CandidateEligible(d) PROVE IInv'
  BY <1>10 DEF CandidateEligible, Accept, CycTo
<1>11. ASSUME NEW d \in Delegation, VerificationFails(d) PROVE IInv'
  BY <1>11 DEF VerificationFails, SettleFailure, Requeue, AtCap, CycTo
<1>12. ASSUME NEW d \in Delegation, VerificationThrows(d) PROVE IInv'
  BY <1>12 DEF VerificationThrows, CycTo
<1>13. ASSUME NEW d \in Delegation, FinishCleanup(d) PROVE IInv'
  BY <1>13 DEF FinishCleanup, CycTo
<1>14. CASE Resync
  BY <1>14 DEF Resync
<1>15. CASE Sweep
  BY <1>15 DEF Sweep, Reconcile, RequeueLost, Requeue, AtCap
<1>16. CASE Crash
  BY <1>16 DEF Crash
<1>17. ASSUME NEW p \in Pid, Restart(p) PROVE IInv'
  <2> DEFINE lost == {d \in Delegation : run[d].state = "running" /\ run[d].pid # p}
  <2>1. /\ phase = "down" /\ phase' = "recovering" /\ pid' = p
        /\ UNCHANGED <<crashes, cyc, called, attempts, reported, verified>>
        /\ run' = [d \in Delegation |->
                     IF d \in lost THEN [run[d] EXCEPT !.state = "unknown"] ELSE run[d]]
        /\ RequeueLost(lost)
    BY <1>17 DEF Restart, Reconcile, RequeueLost
  <2>2. TypeOK'
    BY <2>1 DEF RequeueLost, Requeue, AtCap
  <2>3. \A d \in Delegation : Consistent(d)'
    BY <2>1 DEF RequeueLost, Requeue, AtCap
  <2>4. QuietBoot'
    BY <2>1
  <2>5. RunsOwned'
    BY <1>17, <2>1 DEF Restart
  <2>6. QED
    BY <2>2, <2>3, <2>4, <2>5
<1>18. CASE StartupResume
  <2>1. PICK S \in SUBSET Delegation, B \in SUBSET Delegation :
          /\ \A d \in S : dstate[d] = "queued" /\ attempts[d] < attemptLimit[d]
          /\ \A d \in B : dstate[d] = "queued" /\ attempts[d] >= attemptLimit[d]
          /\ StartBatch(S, B)
          /\ cyc' = [d \in Delegation |-> IF d \in S THEN "starting" ELSE cyc[d]]
    <3> DEFINE queued == {d \in Delegation : dstate[d] = "queued"}
               capped == {d \in queued : AtCap(d)}
    <3>1. PICK S \in SUBSET (queued \ capped), B \in SUBSET capped :
            /\ StartBatch(S, B)
            /\ cyc' = [d \in Delegation |-> IF d \in S THEN "starting" ELSE cyc[d]]
      BY <1>18 DEF StartupResume
    <3>2. \A d \in Delegation : attempts[d] \in Int /\ attemptLimit[d] \in Int
      OBVIOUS
    <3>3. /\ \A d \in S : d \in Delegation /\ dstate[d] = "queued" /\ attempts[d] < attemptLimit[d]
          /\ \A d \in B : d \in Delegation /\ dstate[d] = "queued" /\ attempts[d] >= attemptLimit[d]
      BY <3>1, <3>2 DEF AtCap
    <3>4. QED
      BY <3>1, <3>3
  <2>2. phase = "recovering" /\ phase' = "resuming" /\ UNCHANGED <<crashes, run, pid, called>>
    BY <1>18 DEF StartupResume
  <2>3. TypeOK'
    BY <2>1, <2>2 DEF StartBatch
  <2>4. \A d \in Delegation : Consistent(d)'
    BY <2>1, <2>2 DEF StartBatch
  <2>5. QuietBoot' /\ RunsOwned'
    BY <2>1, <2>2 DEF StartBatch
  <2>6. QED
    BY <2>3, <2>4, <2>5
<1>19. CASE FinishResume
  <2>1. UNCHANGED <<attempts, reported, verified, crashes, cyc, run, pid, called>> /\ phase' = "merging"
    BY <1>19 DEF FinishResume, BeginIntegration
  <2>2. dstate' \in [Delegation -> {dstate[d] : d \in Delegation} \cup {"integrating"}]
    BY <1>19 DEF FinishResume, BeginIntegration
  <2>3. \A d \in Delegation :
          dstate'[d] = dstate[d] \/ (dstate[d] = "accepted" /\ dstate'[d] = "integrating")
    BY <1>19 DEF FinishResume, BeginIntegration
  <2>4. dstate' \in [Delegation -> DELEGATION_STATES \cup {"absent"}]
    BY <2>2, <2>3
  <2>5. QED
    BY <1>19, <2>1, <2>3, <2>4 DEF FinishResume, inFlight
<1>20. CASE FinishMerging
  BY <1>20 DEF FinishMerging
<1>21. CASE Integration
  BY <1>21 DEF Integration, BeginIntegration, FinishIntegration
<1>22. CASE UNCHANGED vars
  BY <1>22 DEF vars
<1>23. QED
  BY <1>1, <1>2, <1>3, <1>4, <1>5, <1>6, <1>7, <1>8, <1>9, <1>10, <1>11, <1>12, <1>13, <1>14, <1>15, <1>16, <1>17, <1>18, <1>19, <1>20, <1>21, <1>22 DEF Next, CycleStep

-----------------------------------------------------------------------------
(* Between any two awaits every delegation is Consistent.                    *)
THEOREM Invariance == Safety => []IInv
BY InitIInv, NextIInv, PTL DEF Safety

(* The variables keep their types: in particular attempt_count stays within  *)
(* what contracts.ts allows and the runs table holds no state it does not    *)
(* declare.                                                                  *)
THEOREM TypeCorrect == Safety => []TypeOK
<1>1. IInv => TypeOK
  BY DEF IInv
<1>2. QED
  BY <1>1, Invariance, PTL

(* However crashes, conflicts and failures interleave, no delegation is      *)
(* given more attempts than its brief allows, and none is blocked with       *)
(* attempts left.                                                            *)
THEOREM Budget == Safety => [](AttemptsBounded /\ BlockedMeansCapSpent)
<1>1. IInv => AttemptsBounded /\ BlockedMeansCapSpent
  BY DEF IInv, Consistent, AttemptsBounded, BlockedMeansCapSpent
<1>2. QED
  BY <1>1, Invariance, PTL

(* No handler moves a delegation under the cycle that is working on it.      *)
THEOREM CycleOwnership == Safety => []ActiveCycleOwnsState
<1>1. IInv => ActiveCycleOwnsState
  BY DEF IInv, Consistent, ActiveCycleOwnsState
<1>2. QED
  BY <1>1, Invariance, PTL

(* No attempt is started, or could be started, beside a run that recovery    *)
(* has not accounted for; pid reuse does not change that.                    *)
THEOREM NoReplacement == Safety => []NoReplacementBesideWorker
<1>1. IInv => NoReplacementBesideWorker
  BY DEF IInv, Consistent, NoReplacementBesideWorker
<1>2. QED
  BY <1>1, Invariance, PTL

(* What is accepted, being integrated or merged was produced by the newest   *)
(* attempt, reported by it and verified.                                     *)
THEOREM AcceptedOnEvidence == Safety => []AcceptedWasVerified
<1>1. IInv => AcceptedWasVerified
  BY DEF IInv, Consistent, AcceptedWasVerified
<1>2. QED
  BY <1>1, Invariance, PTL

(* As long as the operating system does not hand out the pid of an           *)
(* interrupted run again, the runs table of a living process is truthful.    *)
THEOREM RunsTableIsLive ==
    ASSUME ~PidReuse PROVE Safety => []RunningRunIsLive
<1>1. IInv => RunningRunIsLive
  BY DEF IInv, Consistent, RunsOwned, RunningRunIsLive
<1>2. QED
  BY <1>1, Invariance, PTL

-----------------------------------------------------------------------------
(* The slots. A step frees slots, or takes one that was free, or is the boot *)
(* that fills them from none.                                                *)
LEMMA SlotsOfStep ==
    ASSUME IInv, [Next]_vars
    PROVE  \/ inFlight' \subseteq inFlight
           \/ /\ Cardinality(inFlight) < maxWorkers
              /\ \E d \in Delegation : inFlight' = inFlight \cup {d}
           \/ \E S \in SUBSET Delegation : inFlight' = S /\ Cardinality(S) <= maxWorkers
<1> DEFINE Goal ==
      \/ inFlight' \subseteq inFlight
      \/ /\ Cardinality(inFlight) < maxWorkers
         /\ \E d \in Delegation : inFlight' = inFlight \cup {d}
      \/ \E S \in SUBSET Delegation : inFlight' = S /\ Cardinality(S) <= maxWorkers
<1>0. cyc \in [Delegation -> CycleStates]
  BY DEF IInv, TypeOK
<1>1. ASSUME NEW d \in Delegation, RunCycle(d) PROVE Goal
  <2>1. CASE UNCHANGED cyc
    BY <2>1 DEF inFlight
  <2>2. CASE ~Refused(d) /\ CycTo(d, "starting")
    <3>1. inFlight' = inFlight \cup {d}
      BY <1>0, <2>2 DEF CycTo, inFlight
    <3>2. Cardinality(inFlight) < maxWorkers
      <4>1. inFlight \subseteq Delegation
        BY DEF inFlight
      <4>2. Cardinality(inFlight) \in Nat
        BY <4>1, DelegationsAssumption, FS_Subset, FS_CardinalityType DEF DelegationsAssumption
      <4>3. QED
        BY <2>2, <4>2, SchedulerAssumption DEF Refused, SchedulerAssumption
    <3>3. QED
      BY <3>1, <3>2
  <2>3. QED
    BY <1>1, <2>1, <2>2 DEF RunCycle
<1>2. ASSUME NEW d \in Delegation, CycleStep(d) PROVE Goal
  <2>1. cyc[d] # "none" /\ (UNCHANGED cyc \/ \E c \in CycleStates : CycTo(d, c))
    BY <1>2 DEF CycleStep, CreateRun, InfraFailure, WorkerEnds, AttemptFails, AttemptSucceeds,
                ArtifactConfirmed, CandidateEligible, VerificationFails, VerificationThrows,
                FinishCleanup, CycleStates
  <2>2. inFlight' \subseteq inFlight
    BY <1>0, <2>1 DEF CycTo, inFlight
  <2>3. QED
    BY <2>2
<1>3. CASE StartupResume
  <2>1. PICK S \in SUBSET Delegation :
          /\ Cardinality(S) <= maxWorkers
          /\ cyc' = [d \in Delegation |-> IF d \in S THEN "starting" ELSE cyc[d]]
    BY <1>3 DEF StartupResume
  <2>2. \A d \in Delegation : cyc[d] = "none"
    BY <1>3 DEF StartupResume, IInv, QuietBoot
  <2>3. inFlight' = S
    BY <2>1, <2>2 DEF inFlight
  <2>4. QED
    BY <2>1, <2>3
<1>4. CASE Crash
  BY <1>4 DEF Crash, inFlight
<1>5. CASE UNCHANGED cyc
  BY <1>5 DEF inFlight
<1>6. QED
  BY <1>1, <1>2, <1>3, <1>4, <1>5
     DEF Next, Dispatch, CancelDelegation, Resync, Sweep, Restart, FinishResume, FinishMerging,
         Integration, vars

(* There are never more cycles in flight than slots, for any number of       *)
(* delegations, slots and crashes.                                           *)
THEOREM Slots == Safety => []WorkerSlots
<1>1. Init => WorkerSlots
  <2>1. Init => inFlight = {}
    BY DEF Init, inFlight
  <2>2. QED
    BY <2>1, FS_EmptySet, SchedulerAssumption DEF WorkerSlots, SchedulerAssumption
<1>2. IInv /\ WorkerSlots /\ [Next]_vars => WorkerSlots'
  <2> SUFFICES ASSUME IInv, WorkerSlots, [Next]_vars PROVE WorkerSlots'
    OBVIOUS
  <2>1. IsFiniteSet(inFlight)
    BY DelegationsAssumption, FS_Subset DEF inFlight, DelegationsAssumption
  <2>2. CASE inFlight' \subseteq inFlight
    <3>1. Cardinality(inFlight') <= Cardinality(inFlight)
      BY <2>1, <2>2, FS_Subset
    <3>2. Cardinality(inFlight') \in Nat /\ Cardinality(inFlight) \in Nat
      BY <2>1, <2>2, FS_Subset, FS_CardinalityType
    <3>3. QED
      BY <3>1, <3>2, SchedulerAssumption DEF WorkerSlots, SchedulerAssumption
  <2>3. ASSUME Cardinality(inFlight) < maxWorkers, NEW d \in Delegation,
               inFlight' = inFlight \cup {d}
        PROVE WorkerSlots'
    <3>1. Cardinality(inFlight \cup {d}) \in {Cardinality(inFlight), Cardinality(inFlight) + 1}
      BY <2>1, FS_AddElement
    <3>2. Cardinality(inFlight) \in Nat
      BY <2>1, FS_CardinalityType
    <3>3. Cardinality(inFlight') <= maxWorkers
      BY <2>3, <3>1, <3>2, SchedulerAssumption DEF SchedulerAssumption
    <3>4. QED
      BY <3>3 DEF WorkerSlots
  <2>4. QED
    BY <2>2, <2>3, SlotsOfStep DEF WorkerSlots
<1>3. QED
  BY <1>1, <1>2, Invariance, PTL DEF Safety

-----------------------------------------------------------------------------
(* Every change of a delegation's state is an edge of the lifecycle that     *)
(* contracts.ts declares.                                                    *)
THEOREM Lifecycle == Safety => LifecycleEdges
<1> DEFINE Edges == \A d \in Delegation :
                      dstate[d] \notin {"absent", dstate'[d]} =>
                        dstate'[d] \in DELEGATION_TRANSITIONS[dstate[d]]
<1>1. IInv /\ [Next]_vars => [Edges]_vars
  <2> SUFFICES ASSUME IInv, Next PROVE Edges
    OBVIOUS
  <2>1. dstate \in [Delegation -> DELEGATION_STATES \cup {"absent"}]
    BY DEF IInv, TypeOK, DelegationsTypeOK
  <2>2. CASE UNCHANGED dstate
    BY <2>2
  <2> USE <2>1 DEF DELEGATION_STATES, DELEGATION_TRANSITIONS, Transition, Requeue
  <2>3. ASSUME NEW d \in Delegation,
               Create(d) \/ StartAttempt(d) \/ BlockAtCap(d) \/ Cancel(d)
        PROVE Edges
    BY <2>3 DEF Create, StartAttempt, BlockAtCap, Cancel
  <2>4. ASSUME NEW d \in Delegation, BeginVerification(d) \/ Accept(d) \/ SettleFailure(d)
        PROVE Edges
    BY <2>4 DEF BeginVerification, Accept, SettleFailure
  <2>5. ASSUME NEW L, RequeueLost(L) PROVE Edges
    BY <2>5 DEF RequeueLost
  <2>6. ASSUME NEW S, NEW B, StartBatch(S, B) PROVE Edges
    BY <2>6 DEF StartBatch
  <2>7. ASSUME NEW C, BeginIntegration(C) PROVE Edges
    BY <2>7 DEF BeginIntegration
  <2>8. ASSUME NEW d \in Delegation, NEW to \in {"merged", "queued"}, FinishIntegration(d, to)
        PROVE Edges
    BY <2>8 DEF FinishIntegration
  <2> HIDE DEF Edges
  <2>9. ASSUME NEW d \in Delegation,
               Dispatch(d) \/ CancelDelegation(d) \/ RunCycle(d) \/ CycleStep(d)
        PROVE Edges
    BY <2>9, <2>2, <2>3, <2>4
       DEF Dispatch, CancelDelegation, RunCycle, CycleStep, CreateRun, InfraFailure, WorkerEnds,
           AttemptFails, AttemptSucceeds, ArtifactConfirmed, AddReport, CandidateEligible,
           VerificationFails, VerificationThrows, FinishCleanup, shared, table
  <2>10. CASE Sweep \/ \E p \in Pid : Restart(p)
    BY <2>10, <2>5 DEF Sweep, Restart, Reconcile
  <2>11. CASE StartupResume
    BY <2>11, <2>6 DEF StartupResume
  <2>12. CASE FinishResume
    BY <2>12, <2>7 DEF FinishResume
  <2>13. CASE Integration
    BY <2>13, <2>7, <2>8 DEF Integration
  <2>14. CASE Resync \/ Crash \/ FinishMerging
    BY <2>14, <2>2 DEF Resync, Crash, FinishMerging, shared, table
  <2>15. QED
    BY <2>9, <2>10, <2>11, <2>12, <2>13, <2>14 DEF Next
<1>2. QED
  BY <1>1, Invariance, PTL DEF Safety, LifecycleEdges

(* A run never leaves a terminal state: only a new attempt's run replaces it.*)
THEOREM RunsTerminal == Safety => RunsStayTerminal
<1> DEFINE Stays == \A d \in Delegation :
                      run[d].state \notin {"none", "running"} /\ run'[d] # run[d] =>
                        run'[d].state = "running" /\ cyc[d] = "starting"
<1>1. IInv /\ [Next]_vars => [Stays]_vars
  <2> SUFFICES ASSUME IInv, Next PROVE Stays
    OBVIOUS
  <2>1. run \in [Delegation -> [state : RunStates, pid : Pid \cup {NoPid}]]
    BY DEF IInv, TypeOK
  <2>2. CASE UNCHANGED run
    BY <2>2
  <2>3. ASSUME NEW d \in Delegation, CreateRun(d) PROVE Stays
    BY <2>1, <2>3 DEF CreateRun
  <2>4. ASSUME NEW d \in Delegation, NEW o, WorkerEnds(d, o) PROVE Stays
    <3>1. run[d].state = "running"
      BY <2>4 DEF IInv, Consistent, WorkerEnds
    <3>2. QED
      BY <2>1, <2>4, <3>1 DEF WorkerEnds
  <2>5. ASSUME NEW p, Reconcile(p) PROVE Stays
    BY <2>1, <2>5 DEF Reconcile
  <2> HIDE DEF Stays
  <2>6. QED
    BY <2>2, <2>3, <2>4, <2>5
       DEF Next, Dispatch, CancelDelegation, RunCycle, CycleStep, InfraFailure, AttemptFails,
           AttemptSucceeds, ArtifactConfirmed, CandidateEligible, VerificationFails,
           VerificationThrows, FinishCleanup, Resync, Sweep, Crash, Restart, StartupResume,
           FinishResume, FinishMerging, Integration
<1>2. QED
  BY <1>1, Invariance, PTL DEF Safety, RunsStayTerminal

=============================================================================
