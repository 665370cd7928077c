--------------------------- MODULE PointGuardProofs ---------------------------
(* Proofs about the whole service (module PointGuard): that the scheduler and *)
(* the merge processor, running for real on one table, each make only the     *)
(* moves that the other's specification allows for. The invariants of the two *)
(* parts are taken from SchedulerProofs and MergeQueueProofs by name.         *)
EXTENDS PointGuard, FiniteSetTheorems, TLAPS

SP == INSTANCE SchedulerProofs
MP == INSTANCE MergeQueueProofs

-----------------------------------------------------------------------------
(* The parts as PointGuard runs them, and as the proof modules speak of them.*)

(* The assumption that there are finitely many delegations means the same in *)
(* both.                                                                     *)
LEMMA SchedulerFinite == \A X : SP!IsFiniteSet(X) <=> IsFiniteSet(X)
BY DEF SP!IsFiniteSet, IsFiniteSet

LEMMA QueueFinite == \A X : MP!IsFiniteSet(X) <=> IsFiniteSet(X)
BY DEF MP!IsFiniteSet, IsFiniteSet

(* The inductive invariants of the parts, with the steps they allow for.     *)
LEMMA SchedulerKeeps ==
    /\ SP!Init => SP!IInv
    /\ SP!IInv /\ [SP!Next]_(SP!vars) => SP!IInv'
BY SP!InitIInv, SP!NextIInv, DelegationsAssumption, PointGuardAssumption, SchedulerFinite

LEMMA QueueKeeps ==
    /\ MP!Init => MP!IInv /\ MP!Numbered
    /\ MP!IInv /\ MP!Numbered /\ [MP!Next]_(MP!vars) => MP!IInv' /\ MP!Numbered'
BY MP!InitHolds, MP!NextHolds, MP!InitNumbers, MP!NumbersHold,
   DelegationsAssumption, PointGuardAssumption, QueueFinite

(* An instance in PointGuard and one through a proof module are the same     *)
(* specification.                                                            *)
LEMMA SameScheduler == (S!Init <=> SP!Init) /\ ([S!Next]_(S!vars) <=> [SP!Next]_(SP!vars))
BY SMTT(60)
   DEF S!Init, S!Next, S!vars, S!Dispatch, S!Resync, S!CancelDelegation, S!RunCycle,
       S!Refused, S!inFlight, S!CycTo, S!CreateRun, S!InfraFailure, S!WorkerEnds,
       S!AttemptFails, S!AttemptSucceeds, S!ArtifactConfirmed, S!CandidateEligible,
       S!VerificationFails, S!VerificationThrows, S!FinishCleanup, S!CycleStep,
       S!Reconcile, S!Sweep, S!Crash, S!Restart, S!StartupResume, S!FinishResume, S!FinishMerging,
       S!Integration, S!Cardinality, S!Create, S!StartAttempt, S!BlockAtCap,
       S!BeginVerification, S!AddReport, S!Accept, S!SettleFailure, S!Cancel, S!StartBatch,
       S!RequeueLost, S!BeginIntegration, S!FinishIntegration, S!Transition, S!AtCap,
       S!Requeue, S!shared, S!table, S!DelegationsInit, SP!Init, SP!Next, SP!vars,
       SP!Dispatch, SP!Resync, SP!CancelDelegation, SP!RunCycle, SP!Refused, SP!inFlight,
       SP!CycTo, SP!CreateRun, SP!InfraFailure, SP!WorkerEnds, SP!AttemptFails,
       SP!AttemptSucceeds, SP!ArtifactConfirmed, SP!CandidateEligible,
       SP!VerificationFails, SP!VerificationThrows, SP!FinishCleanup, SP!CycleStep,
       SP!Reconcile, SP!Sweep, SP!Crash, SP!Restart, SP!StartupResume, SP!FinishResume,
       SP!FinishMerging, SP!Integration, SP!Cardinality, SP!Create, SP!StartAttempt,
       SP!BlockAtCap, SP!BeginVerification, SP!AddReport, SP!Accept, SP!SettleFailure,
       SP!Cancel, SP!StartBatch, SP!RequeueLost, SP!BeginIntegration, SP!FinishIntegration,
       SP!Transition, SP!AtCap, SP!Requeue, SP!shared, SP!table, SP!DelegationsInit

LEMMA SameQueue == (M!Init <=> MP!Init) /\ ([M!Next]_(M!vars) <=> [MP!Next]_(MP!vars))
BY SMTT(60)
   DEF M!Init, M!Next, M!vars, M!mergeVars, M!NoRow, M!NoRequest, M!Tip, M!Landed,
       M!RowState, M!Goto, M!Return, M!ConfirmMerge, M!EnqueueMerge, M!InState, M!Next1,
       M!Claim, M!Occupying, M!ProcessNext, M!Observe, M!GiveUp, M!AlreadyUpToDate,
       M!MergeOk, M!IntegratedEligible, M!CasPublish, M!Published, M!CasRefused,
       M!ProcessThrows, M!ProcessStep, M!Reconcile, M!Sweep, M!Crash, M!Restart,
       M!RecoverRow, M!RecoverAmbiguous, M!StartupResume, M!FinishResume, M!FinishMerging,
       M!WorkerStatement, M!Worker, M!ForeignCommits, M!ForeignCommit, M!Cardinality,
       M!Create, M!StartAttempt, M!BlockAtCap, M!BeginVerification, M!AddReport, M!Accept,
       M!SettleFailure, M!Cancel, M!StartBatch, M!RequeueLost, M!BeginIntegration,
       M!FinishIntegration, M!Transition, M!AtCap, M!Requeue, M!shared, M!table,
       M!DelegationsInit, MP!Init, MP!Next, MP!vars, MP!mergeVars, MP!NoRow, MP!NoRequest,
       MP!Tip, MP!Landed, MP!RowState, MP!Goto, MP!Return, MP!ConfirmMerge,
       MP!EnqueueMerge, MP!InState, MP!Next1, MP!Claim, MP!Occupying, MP!ProcessNext,
       MP!Observe, MP!GiveUp, MP!AlreadyUpToDate, MP!MergeOk, MP!IntegratedEligible,
       MP!CasPublish, MP!Published, MP!CasRefused, MP!ProcessThrows, MP!ProcessStep,
       MP!Reconcile, MP!Sweep, MP!Crash, MP!Restart, MP!RecoverRow, MP!RecoverAmbiguous,
       MP!StartupResume, MP!FinishResume, MP!FinishMerging, MP!WorkerStatement, MP!Worker,
       MP!ForeignCommits, MP!ForeignCommit, MP!Cardinality, MP!Create, MP!StartAttempt,
       MP!BlockAtCap, MP!BeginVerification, MP!AddReport, MP!Accept, MP!SettleFailure,
       MP!Cancel, MP!StartBatch, MP!RequeueLost, MP!BeginIntegration, MP!FinishIntegration,
       MP!Transition, MP!AtCap, MP!Requeue, MP!shared, MP!table, MP!DelegationsInit

-----------------------------------------------------------------------------
(* What neither specification says of itself: what the two parts, and the    *)
(* boot sequence that runs one after the other, owe each other.              *)

(* A living process closed or owns every run that says "running".            *)
OwnRuns ==
    phase # "down" => \A d \in Delegation : run[d].state = "running" => run[d].pid = pid

(* The boot resumes merges when the resumed cycles have settled, and cycles  *)
(* before any delegation is integrating again.                               *)
BootOrder ==
    /\ phase = "merging" => \A d \in Delegation : cyc[d] = "none"
    /\ phase \in {"recovering", "resuming"} => \A d \in Delegation : dstate[d] # "integrating"

(* From the confirmation to the ref nothing but the newest attempt's         *)
(* candidate is on its way: an accepted delegation waits for its claim, and  *)
(* the row of an integrating or merged one is the row it was claimed by.     *)
Latest ==
    \A d \in Delegation :
        /\ request[d].at = "insert" /\ row[d].state = "none" =>
             dstate[d] = "accepted" /\ request[d].accepted = attempts[d]
        /\ row[d].state = "queued" =>
             dstate[d] = "accepted" /\ row[d].accepted = attempts[d]
        /\ dstate[d] \in {"integrating", "merged"} =>
             row[d].accepted = attempts[d] /\ row[d].state \notin {"none", "queued"}

IInv == SP!IInv /\ MP!IInv /\ MP!Numbered /\ OwnRuns /\ BootOrder /\ Latest

LEMMA Types ==
    ASSUME IInv
    PROVE  /\ dstate \in [Delegation -> DELEGATION_STATES \cup {"absent"}]
           /\ attempts \in [Delegation -> 0..3]
           /\ cyc \in [Delegation -> S!CycleStates]
           /\ row \in [Delegation -> M!Rows]
           /\ phase \in Phases
BY DEF IInv, SP!IInv, SP!TypeOK, SP!DelegationsTypeOK, SP!DELEGATION_STATES, DELEGATION_STATES,
       SP!Phases, Phases, SP!CycleStates, S!CycleStates,
       MP!IInv, MP!QueueTypeOK, MP!Rows, MP!RowStates, M!Rows, M!RowStates

-----------------------------------------------------------------------------
(* The merge processor seen from the scheduler's side.                       *)

LEMMA FinishIsIntegration ==
    ASSUME IInv, NEW d \in Delegation, NEW to \in {"merged", "queued"},
           M!FinishIntegration(d, to), UNCHANGED <<phase, crashes, schedulerVars>>,
           phase \in {"merging", "up"} \/ dstate[d] # "integrating"
    PROVE  [S!Next]_(S!vars)
<1>1. CASE dstate[d] = "integrating"
  <2>1. S!Integration
    BY <1>1 DEF M!FinishIntegration, M!Transition, S!Integration, S!FinishIntegration,
       S!Transition, schedulerVars
  <2> QED BY <2>1 DEF S!Next
<1>2. CASE dstate[d] # "integrating"
  <2>1. dstate' = dstate
    BY <1>2, Types DEF M!FinishIntegration, M!Transition
  <2> QED BY <2>1 DEF M!FinishIntegration, schedulerVars, S!vars, S!shared, S!table
<1> QED BY <1>1, <1>2

LEMMA OneClaimed ==
    ASSUME IInv, NEW t
    PROVE  M!Next1(t) = {} \/ \E d \in Delegation : M!Next1(t) = {d}
<1>1. M!Next1(t) = MP!Next1(t)
  BY DEF M!Next1, M!InState, M!Occupying, MP!Next1, MP!InState, MP!Occupying
<1>2. M!Next1(t) \subseteq Delegation
  BY DEF M!Next1, M!InState
<1>3. \A d, e \in M!Next1(t) : d = e
  BY <1>1, MP!NextOneIsOne, QueueFinite, DelegationsAssumption, PointGuardAssumption
     DEF IInv, MP!IInv
<1> QED BY <1>2, <1>3

LEMMA ClaimIsIntegration ==
    ASSUME IInv, NEW t, M!Claim(M!Next1(t)), phase = "up",
           UNCHANGED <<phase, crashes, schedulerVars>>
    PROVE  [S!Next]_(S!vars)
<1>1. M!BeginIntegration(M!Next1(t))
  BY DEF M!Claim
<1>2. CASE \E d \in M!Next1(t) : dstate[d] = "accepted"
  <2>1. PICK d \in Delegation : M!Next1(t) = {d} /\ dstate[d] = "accepted"
    BY <1>2, OneClaimed
  <2>2. S!Integration
    BY <1>1, <2>1 DEF M!BeginIntegration, S!Integration, S!BeginIntegration, schedulerVars
  <2> QED BY <2>2 DEF S!Next
<1>3. CASE \A d \in M!Next1(t) : dstate[d] # "accepted"
  <2>1. dstate' = dstate
    BY <1>1, <1>3, Types DEF M!BeginIntegration
  <2> QED BY <1>1, <2>1 DEF M!BeginIntegration, schedulerVars, S!vars, S!shared, S!table
<1> QED BY <1>2, <1>3

LEMMA MergeStepForScheduler ==
    ASSUME IInv, MergeStep
    PROVE  [S!Next]_(S!vars)
<1>a. UNCHANGED schedulerVars
  BY DEF MergeStep
<1>1. CASE UNCHANGED M!shared
  BY <1>a, <1>1 DEF schedulerVars, S!vars, S!shared, S!table, M!shared, M!table
<1>2. ASSUME NEW d \in Delegation, M!ProcessNext(d) PROVE [S!Next]_(S!vars)
  <2>1. phase = "up"
    BY <1>2 DEF M!ProcessNext, IInv, MP!IInv, MP!BootInv, MP!NoRequest
  <2> QED BY <1>a, <1>2, <2>1, ClaimIsIntegration DEF M!ProcessNext
<1>3. ASSUME NEW d \in Delegation, M!GiveUp(d) \/ M!Published(d) PROVE [S!Next]_(S!vars)
  <2>1. mpc[d] # "idle"
    BY <1>3 DEF M!GiveUp, M!Published
  <2>2. phase \in {"merging", "up"}
    BY <2>1, Types DEF IInv, MP!IInv, MP!BootInv, Phases
  <2> QED BY <1>a, <1>3, <2>2, FinishIsIntegration DEF M!GiveUp, M!Published
<1>4. ASSUME NEW d \in Delegation, M!RecoverRow(d) PROVE [S!Next]_(S!vars)
  <2>1. dstate[d] # "integrating"
    BY <1>4 DEF M!RecoverRow, IInv, BootOrder
  <2> QED BY <1>a, <1>4, <2>1, FinishIsIntegration DEF M!RecoverRow
<1>5. ASSUME NEW d \in Delegation,
             \/ M!ConfirmMerge(d) \/ M!EnqueueMerge(d) \/ M!RecoverAmbiguous(d) \/ M!Observe(d)
             \/ M!MergeOk(d) \/ M!IntegratedEligible(d) \/ M!CasPublish(d) \/ M!CasRefused(d)
             \/ M!ProcessThrows(d)
      PROVE  UNCHANGED M!shared
  BY <1>5 DEF M!ConfirmMerge, M!EnqueueMerge, M!RecoverAmbiguous, M!Observe, M!MergeOk,
     M!IntegratedEligible, M!CasPublish, M!CasRefused, M!ProcessThrows
<1>6. ASSUME NEW t \in Target, M!ForeignCommit(t) PROVE UNCHANGED M!shared
  BY <1>6 DEF M!ForeignCommit
<1> QED BY <1>1, <1>2, <1>3, <1>4, <1>5, <1>6 DEF MergeStep, M!ProcessStep

LEMMA StepsForScheduler == IInv /\ [Next]_vars => [S!Next]_(S!vars)
<1> SUFFICES ASSUME IInv, [Next]_vars PROVE [S!Next]_(S!vars)
  OBVIOUS
<1>1. CASE SchedulerStep
  BY <1>1 DEF SchedulerStep, S!Next
<1>2. CASE MergeStep
  BY <1>2, MergeStepForScheduler
<1>3. CASE Sweep
  BY <1>3 DEF Sweep, Reconcile, S!Sweep, S!Next
<1>4. CASE Crash \/ FinishMerging
  BY <1>4 DEF Crash, FinishMerging, S!Next
<1>5. CASE Restart \/ StartupResume
  BY <1>5 DEF Restart, StartupResume, S!Next
<1>6. CASE FinishResume
  <2> DEFINE claimed == UNION {M!Next1(t) : t \in Target}
             ready == {d \in claimed : dstate[d] = "accepted"}
  <2>1. claimed \subseteq Delegation
    BY DEF M!Next1, M!InState
  <2>2. M!BeginIntegration(claimed)
    BY <1>6 DEF FinishResume, M!Claim
  <2>3. S!BeginIntegration(ready)
    BY <2>2 DEF M!BeginIntegration, S!BeginIntegration
  <2>4. ready \in SUBSET {d \in Delegation : dstate[d] = "accepted"}
    BY <2>1
  <2> HIDE DEF ready
  <2>5. S!FinishResume
    BY <1>6, <2>3, <2>4 DEF FinishResume, S!FinishResume, schedulerVars
  <2> QED BY <2>5 DEF S!Next
<1>7. CASE UNCHANGED vars
  BY <1>7 DEF vars, shared, table, schedulerVars, S!vars, S!shared, S!table
<1> QED BY <1>1, <1>2, <1>3, <1>4, <1>5, <1>6, <1>7 DEF Next

-----------------------------------------------------------------------------
(* The scheduler seen from the merge processor's side.                       *)

LEMMA CycleStepForQueue ==
    ASSUME IInv, NEW d \in Delegation, S!CycleStep(d), UNCHANGED mergeVars
    PROVE  [M!Next]_(M!vars)
<1>a. phase \in {"resuming", "up"} /\ cyc[d] # "none"
  <2>1. cyc[d] # "none"
    BY DEF S!CycleStep, S!CreateRun, S!InfraFailure, S!WorkerEnds, S!AttemptFails,
       S!AttemptSucceeds, S!ArtifactConfirmed, S!CandidateEligible, S!VerificationFails,
       S!VerificationThrows, S!FinishCleanup
  <2> QED BY <2>1, Types DEF IInv, SP!IInv, SP!QuietBoot, BootOrder, Phases
<1>b. SP!Consistent(d) /\ dstate \in [Delegation -> DELEGATION_STATES \cup {"absent"}]
  BY Types DEF IInv, SP!IInv
<1>c. ASSUME M!WorkerStatement(d), UNCHANGED <<phase, crashes>> PROVE [M!Next]_(M!vars)
  BY <1>c DEF M!Worker, M!Next, mergeVars, M!mergeVars
<1>d. ASSUME UNCHANGED <<dstate, attempts, reported, verified, phase, crashes>>
      PROVE  [M!Next]_(M!vars)
  BY <1>d DEF mergeVars, M!vars, M!shared, M!table, M!mergeVars
<1>1. CASE S!InfraFailure(d) \/ S!AttemptFails(d) \/ S!VerificationFails(d)
  <2>1. dstate[d] \in {"running", "verifying"}
    BY <1>b, <1>1 DEF SP!Consistent, S!InfraFailure, S!AttemptFails, S!VerificationFails
  <2>2. M!SettleFailure(d) /\ UNCHANGED <<phase, crashes>>
    BY <1>1 DEF S!InfraFailure, S!AttemptFails, S!VerificationFails, S!SettleFailure,
       S!Transition, S!Requeue, S!AtCap, M!SettleFailure, M!Transition, M!Requeue, M!AtCap
  <2> QED BY <1>a, <1>c, <2>1, <2>2 DEF M!WorkerStatement
<1>2. CASE S!AttemptSucceeds(d)
  <2>1. dstate[d] = "running"
    BY <1>b, <1>2 DEF SP!Consistent, S!AttemptSucceeds
  <2>2. M!BeginVerification(d) /\ UNCHANGED <<phase, crashes>>
    BY <1>2 DEF S!AttemptSucceeds, S!BeginVerification, S!Transition, M!BeginVerification,
       M!Transition
  <2> QED BY <1>a, <1>c, <2>1, <2>2 DEF M!WorkerStatement
<1>3. CASE S!ArtifactConfirmed(d)
  <2>1. dstate[d] = "verifying"
    BY <1>b, <1>3 DEF SP!Consistent, S!ArtifactConfirmed
  <2>2. M!AddReport(d) /\ UNCHANGED <<phase, crashes>>
    BY <1>3 DEF S!ArtifactConfirmed, S!AddReport, M!AddReport
  <2> QED BY <1>a, <1>c, <2>1, <2>2 DEF M!WorkerStatement
<1>4. CASE S!CandidateEligible(d)
  <2>1. dstate[d] = "verifying" /\ reported[d] = attempts[d]
    BY <1>b, <1>4 DEF SP!Consistent, S!CandidateEligible
  <2>2. M!Accept(d) /\ UNCHANGED <<phase, crashes>>
    BY <1>4 DEF S!CandidateEligible, S!Accept, S!Transition, M!Accept, M!Transition
  <2> QED BY <1>a, <1>c, <2>1, <2>2 DEF M!WorkerStatement
<1>5. CASE \/ S!CreateRun(d) \/ S!VerificationThrows(d) \/ S!FinishCleanup(d)
           \/ \E o \in {"succeeded", "failed", "timeout"} : S!WorkerEnds(d, o)
  BY <1>d, <1>5 DEF S!CreateRun, S!VerificationThrows, S!FinishCleanup, S!WorkerEnds, S!shared,
     S!table
<1> QED BY <1>1, <1>2, <1>3, <1>4, <1>5 DEF S!CycleStep

LEMMA SchedulerStepForQueue ==
    ASSUME IInv, SchedulerStep
    PROVE  [M!Next]_(M!vars)
<1>a. UNCHANGED mergeVars
  BY DEF SchedulerStep
<1>1. ASSUME NEW d \in Delegation, phase = "up", UNCHANGED <<phase, crashes>>,
             M!Create(d) \/ M!Cancel(d) \/ M!StartAttempt(d) \/ M!BlockAtCap(d)
      PROVE  [M!Next]_(M!vars)
  BY <1>a, <1>1 DEF M!WorkerStatement, M!Worker, M!Next, mergeVars, M!mergeVars
<1>2. CASE UNCHANGED <<dstate, attempts, reported, verified, phase, crashes>>
  BY <1>a, <1>2 DEF mergeVars, M!vars, M!shared, M!table, M!mergeVars
<1>3. ASSUME NEW d \in Delegation, S!Dispatch(d) PROVE [M!Next]_(M!vars)
  BY <1>1, <1>3 DEF S!Dispatch, S!Create, M!Create
<1>4. ASSUME NEW d \in Delegation, S!CancelDelegation(d) PROVE [M!Next]_(M!vars)
  BY <1>1, <1>4 DEF S!CancelDelegation, S!Cancel, S!Transition, M!Cancel, M!Transition
<1>5. ASSUME NEW d \in Delegation, S!RunCycle(d) PROVE [M!Next]_(M!vars)
  <2>1. phase = "up"
    BY <1>5 DEF S!RunCycle, IInv, SP!IInv, SP!QuietBoot
  <2>2. CASE S!StartAttempt(d)
    BY <1>1, <1>5, <2>1, <2>2 DEF S!RunCycle, S!StartAttempt, S!Transition, S!AtCap,
       M!StartAttempt, M!Transition, M!AtCap
  <2>3. CASE S!BlockAtCap(d)
    BY <1>1, <1>5, <2>1, <2>3 DEF S!RunCycle, S!BlockAtCap, S!Transition, S!AtCap,
       M!BlockAtCap, M!Transition, M!AtCap
  <2>4. CASE UNCHANGED S!table
    BY <1>2, <1>5, <2>4 DEF S!RunCycle, S!table
  <2> QED BY <1>5, <2>2, <2>3, <2>4 DEF S!RunCycle
<1>6. CASE S!Resync
  BY <1>2, <1>6 DEF S!Resync, S!shared, S!table
<1> QED BY <1>a, <1>3, <1>4, <1>5, <1>6, CycleStepForQueue DEF SchedulerStep

LEMMA StepsForQueue == IInv /\ [Next]_vars => [M!Next]_(M!vars)
<1> SUFFICES ASSUME IInv, [Next]_vars PROVE [M!Next]_(M!vars)
  OBVIOUS
<1>1. CASE SchedulerStep
  BY <1>1, SchedulerStepForQueue
<1>2. CASE MergeStep
  BY <1>2 DEF MergeStep, M!Next
<1>3. CASE Sweep
  <2> DEFINE lost == {d \in Delegation : run[d].state = "running" /\ run[d].pid # pid}
  <2>1. M!Reconcile(lost) /\ phase = "up"
    BY <1>3 DEF Sweep, Reconcile
  <2>2. lost = {}
    BY <2>1 DEF IInv, OwnRuns
  <2>3. M!Reconcile({})
    BY <2>1, <2>2
  <2>4. M!Sweep
    BY <1>3, <2>3 DEF Sweep, M!Sweep
  <2> QED BY <2>4 DEF M!Next
<1>4. CASE Crash \/ FinishMerging
  BY <1>4 DEF Crash, FinishMerging, M!Next
<1>5. ASSUME NEW p \in Pid, S!Restart(p), Reconcile(p), Restart PROVE [M!Next]_(M!vars)
  <2> DEFINE lost == {d \in Delegation : run[d].state = "running" /\ run[d].pid # p}
  <2>1. M!Reconcile(lost)
    BY <1>5 DEF Reconcile
  <2>2. lost \in SUBSET {d \in Delegation : dstate[d] \in {"running", "verifying"}}
    BY DEF IInv, SP!IInv, SP!Consistent
  <2> HIDE DEF lost
  <2>3. M!Restart
    BY <1>5, <2>1, <2>2 DEF Restart, S!Restart, M!Restart
  <2> QED BY <2>3 DEF M!Next
<1>6. CASE StartupResume
  <2>1. PICK started \in SUBSET Delegation, capped \in SUBSET Delegation :
          S!StartBatch(started, capped)
    BY <1>6 DEF StartupResume, S!StartupResume
  <2>2. M!StartBatch(started, capped)
    BY <2>1 DEF S!StartBatch, S!AtCap, M!StartBatch, M!AtCap
  <2>3. M!StartupResume
    BY <1>6, <2>2 DEF StartupResume, S!StartupResume, M!StartupResume, mergeVars, M!mergeVars
  <2> QED BY <2>3 DEF M!Next
<1>7. CASE FinishResume
  BY <1>7 DEF FinishResume, M!FinishResume, M!Next
<1>8. CASE UNCHANGED vars
  BY <1>8 DEF vars, shared, table, mergeVars, M!vars, M!shared, M!table, M!mergeVars
<1> QED BY <1>1, <1>2, <1>3, <1>4, <1>5, <1>6, <1>7, <1>8 DEF Next, Restart

-----------------------------------------------------------------------------
(* The joint invariant is inductive.                                         *)

LEMMA OwnRunsHold == IInv /\ [S!Next]_(S!vars) => OwnRuns'
<1> SUFFICES ASSUME IInv, [S!Next]_(S!vars) PROVE OwnRuns'
  OBVIOUS
<1>a. run \in [Delegation -> [state : SP!RunStates, pid : Pid \cup {NoPid}]] /\ OwnRuns
  BY DEF IInv, SP!IInv, SP!TypeOK
<1>1. CASE run' = run /\ pid' = pid /\ (phase' = phase \/ phase # "down" \/ phase' = "down")
  BY <1>a, <1>1 DEF OwnRuns
<1>2. ASSUME NEW d \in Delegation, S!CreateRun(d) PROVE OwnRuns'
  BY <1>a, <1>2 DEF OwnRuns, S!CreateRun, S!shared
<1>3. ASSUME NEW d \in Delegation, NEW o \in {"succeeded", "failed", "timeout"}, S!WorkerEnds(d, o)
      PROVE  OwnRuns'
  BY <1>a, <1>3 DEF OwnRuns, S!WorkerEnds, S!shared
<1>4. CASE S!Sweep
  BY <1>a, <1>4 DEF OwnRuns, S!Sweep, S!Reconcile
<1>5. ASSUME NEW p \in Pid, S!Restart(p) PROVE OwnRuns'
  BY <1>a, <1>5 DEF OwnRuns, S!Restart, S!Reconcile
<1>6. ASSUME NEW d \in Delegation, S!CycleStep(d) PROVE OwnRuns'
  BY <1>1, <1>2, <1>3, <1>6 DEF S!CycleStep, S!InfraFailure, S!AttemptFails, S!AttemptSucceeds,
     S!ArtifactConfirmed, S!CandidateEligible, S!VerificationFails, S!VerificationThrows,
     S!FinishCleanup, S!shared
<1>7. ASSUME NEW d \in Delegation, S!Dispatch(d) \/ S!CancelDelegation(d) \/ S!RunCycle(d)
      PROVE  OwnRuns'
  BY <1>1, <1>7 DEF S!Dispatch, S!CancelDelegation, S!RunCycle
<1>8. CASE \/ S!Resync \/ S!Crash \/ S!StartupResume \/ S!FinishResume \/ S!FinishMerging
           \/ S!Integration \/ UNCHANGED S!vars
  BY <1>1, <1>8 DEF S!Resync, S!Crash, S!StartupResume, S!FinishResume, S!FinishMerging, S!Integration,
     S!vars, S!shared
<1> QED BY <1>4, <1>5, <1>6, <1>7, <1>8 DEF S!Next

LEMMA BootOrderHolds == IInv /\ [S!Next]_(S!vars) => BootOrder'
<1> SUFFICES ASSUME IInv, [S!Next]_(S!vars) PROVE BootOrder'
  OBVIOUS
<1>a. /\ dstate \in [Delegation -> DELEGATION_STATES \cup {"absent"}]
      /\ cyc \in [Delegation -> S!CycleStates] /\ phase \in Phases
      /\ BootOrder
  BY Types DEF IInv
<1>b. /\ phase \in {"down", "recovering"} => \A d \in Delegation : cyc[d] = "none"
      /\ phase # "up" => called = {}
  BY DEF IInv, SP!IInv, SP!QuietBoot
<1> USE DEF BootOrder
<1>1. ASSUME NEW d \in Delegation, S!Dispatch(d) \/ S!CancelDelegation(d) PROVE BootOrder'
  BY <1>a, <1>1 DEF S!Dispatch, S!CancelDelegation
<1>2. ASSUME NEW d \in Delegation, S!RunCycle(d) PROVE BootOrder'
  BY <1>a, <1>b, <1>2 DEF S!RunCycle
<1>3. ASSUME NEW d \in Delegation, S!CycleStep(d) PROVE BootOrder'
  <2>1. cyc[d] # "none" /\ phase' = phase
    BY <1>3 DEF S!CycleStep, S!CreateRun, S!InfraFailure, S!WorkerEnds, S!AttemptFails,
       S!AttemptSucceeds, S!ArtifactConfirmed, S!CandidateEligible, S!VerificationFails,
       S!VerificationThrows, S!FinishCleanup, S!shared
  <2>2. phase \notin {"down", "recovering", "merging"}
    BY <1>a, <1>b, <2>1
  <2>3. \A e \in Delegation : dstate'[e] = "integrating" => dstate[e] = "integrating"
    BY <1>a, <1>3 DEF S!CycleStep, S!CreateRun, S!InfraFailure, S!WorkerEnds, S!AttemptFails,
       S!AttemptSucceeds, S!ArtifactConfirmed, S!CandidateEligible, S!VerificationFails,
       S!VerificationThrows, S!FinishCleanup, S!SettleFailure, S!BeginVerification, S!AddReport,
       S!Accept, S!Transition, S!Requeue, S!shared, S!table
  <2> QED BY <1>a, <2>1, <2>2, <2>3
<1>4. CASE S!Resync \/ UNCHANGED S!vars
  BY <1>a, <1>4 DEF S!Resync, S!vars, S!shared, S!table
<1>5. CASE S!Sweep \/ S!Crash \/ S!FinishMerging
  BY <1>5 DEF S!Sweep, S!Crash, S!FinishMerging
<1>6. ASSUME NEW p \in Pid, S!Restart(p) PROVE BootOrder'
  BY <1>6 DEF S!Restart, S!Reconcile, S!RequeueLost, S!Requeue
<1>7. CASE S!StartupResume
  <2>1. \E started, capped : S!StartBatch(started, capped)
    BY <1>7 DEF S!StartupResume
  <2>2. \A e \in Delegation : dstate'[e] = "integrating" => dstate[e] = "integrating"
    BY <2>1 DEF S!StartBatch
  <2> QED BY <1>a, <1>7, <2>2 DEF S!StartupResume
<1>8. CASE S!FinishResume
  BY <1>8 DEF S!FinishResume, S!inFlight
<1>9. CASE S!Integration
  BY <1>a, <1>9 DEF S!Integration
<1> QED BY <1>1, <1>2, <1>3, <1>4, <1>5, <1>6, <1>7, <1>8, <1>9 DEF S!Next

LEMMA LatestHolds == IInv /\ [MP!Next]_(MP!vars) => Latest'
<1> SUFFICES ASSUME IInv, [MP!Next]_(MP!vars), NEW d \in Delegation
             PROVE  /\ request'[d].at = "insert" /\ row'[d].state = "none" =>
                         dstate'[d] = "accepted" /\ request'[d].accepted = attempts'[d]
                    /\ row'[d].state = "queued" =>
                         dstate'[d] = "accepted" /\ row'[d].accepted = attempts'[d]
                    /\ dstate'[d] \in {"integrating", "merged"} =>
                         row'[d].accepted = attempts'[d] /\ row'[d].state \notin {"none", "queued"}
  BY DEF Latest
<1> USE DelegationsAssumption, PointGuardAssumption, QueueFinite
<1>a. MP!IInv
  BY DEF IInv
<1>b. MP!RowMoves(d)
  BY <1>a, MP!RowsMove
<1>c. MP!AcceptedMoves(d)
  BY <1>a, MP!AcceptedMove
<1>d. \/ request'[d] = request[d] \/ request'[d].at # "insert"
      \/ request'[d].accepted = reported[d] /\ dstate[d] = "accepted"
  BY <1>a, MP!RequestsMove
<1>e. dstate[d] = "accepted" => reported[d] = attempts[d]
  BY DEF IInv, SP!IInv, SP!Consistent
<1>f. /\ request[d].at = "insert" /\ row[d].state = "none" =>
           dstate[d] = "accepted" /\ request[d].accepted = attempts[d]
      /\ row[d].state = "queued" => dstate[d] = "accepted" /\ row[d].accepted = attempts[d]
      /\ dstate[d] \in {"integrating", "merged"} =>
           row[d].accepted = attempts[d] /\ row[d].state \notin {"none", "queued"}
  BY DEF IInv, Latest
<1>1. dstate[d] \in {"accepted", "integrating", "merged"} => attempts'[d] = attempts[d]
  BY <1>c DEF MP!AcceptedMoves
<1>2. row'[d].state \in {"none", "queued"} =>
        row'[d] = row[d] \/ (row[d].state = "none" /\ request[d].at = "insert"
                             /\ row'[d].accepted = request[d].accepted)
  BY <1>b DEF MP!RowMoves
<1>3. dstate[d] = "accepted" /\ row'[d].state \in {"none", "queued"} => dstate'[d] = "accepted"
  BY <1>c DEF MP!AcceptedMoves
<1>4. ASSUME request'[d].at = "insert", row'[d].state = "none"
      PROVE  dstate'[d] = "accepted" /\ request'[d].accepted = attempts'[d]
  <2>1. row[d].state = "none"
    BY <1>b, <1>4 DEF MP!RowMoves
  <2> QED BY <1>d, <1>e, <1>f, <1>1, <1>3, <1>4, <2>1
<1>5. ASSUME row'[d].state = "queued"
      PROVE  dstate'[d] = "accepted" /\ row'[d].accepted = attempts'[d]
  BY <1>f, <1>1, <1>2, <1>3, <1>5
<1>6. ASSUME dstate'[d] \in {"integrating", "merged"}
      PROVE  row'[d].accepted = attempts'[d] /\ row'[d].state \notin {"none", "queued"}
  <2>1. CASE dstate[d] = "accepted"
    BY <1>b, <1>c, <1>f, <1>1, <1>6, <2>1 DEF MP!AcceptedMoves, MP!RowMoves
  <2>2. CASE dstate[d] \in {"integrating", "merged"}
    BY <1>b, <1>f, <1>1, <2>2 DEF MP!RowMoves
  <2> QED BY <1>c, <1>6, <2>1, <2>2 DEF MP!AcceptedMoves
<1> QED BY <1>4, <1>5, <1>6

LEMMA InitIInv == Init => IInv
<1> SUFFICES ASSUME Init PROVE IInv
  OBVIOUS
<1>1. SP!IInv /\ MP!IInv /\ MP!Numbered
  BY SameScheduler, SameQueue, SchedulerKeeps, QueueKeeps DEF Init
<1>2. OwnRuns /\ BootOrder
  BY DEF Init, S!Init, S!DelegationsInit, OwnRuns, BootOrder
<1>3. Latest
  BY DEF Init, M!Init, M!DelegationsInit, M!NoRow, M!NoRequest, Latest
<1> QED BY <1>1, <1>2, <1>3 DEF IInv

LEMMA NextIInv == IInv /\ [Next]_vars => IInv'
<1> SUFFICES ASSUME IInv, [Next]_vars PROVE IInv'
  OBVIOUS
<1>1. [S!Next]_(S!vars) /\ [SP!Next]_(SP!vars) /\ [MP!Next]_(MP!vars)
  BY StepsForScheduler, StepsForQueue, SameScheduler, SameQueue
<1>2. SP!IInv' /\ MP!IInv' /\ MP!Numbered'
  BY <1>1, SchedulerKeeps, QueueKeeps DEF IInv
<1>3. OwnRuns' /\ BootOrder' /\ Latest'
  BY <1>1, OwnRunsHold, BootOrderHolds, LatestHolds
<1> QED BY <1>2, <1>3 DEF IInv

-----------------------------------------------------------------------------
(* What the service knows of itself between any two awaits.                  *)
THEOREM Invariance == Spec => []IInv
BY InitIInv, NextIInv, PTL DEF Spec

(* The scheduler's specification holds of the whole service: the merge       *)
(* processor makes no move on the table that Scheduler does not allow for.   *)
THEOREM SchedulerImplemented == Spec => ImplementsScheduler
<1>1. Init => S!Init
  BY DEF Init
<1> QED BY <1>1, Invariance, StepsForScheduler, PTL DEF Spec, ImplementsScheduler, S!Safety

(* The merge queue's specification holds of the whole service: the scheduler *)
(* makes no move on the table, evidence included, that MergeQueue does not   *)
(* allow for.                                                                *)
THEOREM MergeQueueImplemented == Spec => ImplementsMergeQueue
<1>1. Init => M!Init
  BY DEF Init
<1> QED BY <1>1, Invariance, StepsForQueue, PTL DEF Spec, ImplementsMergeQueue, M!Safety

(* Whatever crashes, sweeps, retries and refused or lying git commands lie   *)
(* between the two, a delegation that is merged has the candidate of its     *)
(* last attempt on its target ref, and that attempt's run succeeded.         *)
THEOREM MergedIsLatest == Spec => []MergedIsLatestCandidate
<1>1. IInv => MergedIsLatestCandidate
  <2> SUFFICES ASSUME IInv, NEW d \in Delegation, dstate[d] = "merged"
               PROVE  /\ run[d].state = "succeeded"
                      /\ \E i \in DOMAIN target[targetOf[d]] :
                           /\ target[targetOf[d]][i].by = d
                           /\ target[targetOf[d]][i].candidate = attempts[d]
    BY DEF MergedIsLatestCandidate
  <2>1. run[d].state = "succeeded"
    BY DEF IInv, SP!IInv, SP!Consistent
  <2>2. row[d].integrated \in DOMAIN target[targetOf[d]]
        /\ target[targetOf[d]][row[d].integrated].by = d
    BY DEF IInv, MP!IInv, MP!SettledInv, MP!RecordedHasLanded, MP!Landed
  <2>3. target[targetOf[d]][row[d].integrated].candidate = row[d].accepted
    BY <2>2 DEF IInv, MP!IInv, MP!LogInv, MP!Positions, MP!By
  <2>4. row[d].accepted = attempts[d]
    BY DEF IInv, Latest
  <2> QED BY <2>1, <2>2, <2>3, <2>4
<1> QED BY <1>1, Invariance, PTL

LEMMA SamePromise ==
    /\ M!Promise!Init <=> MP!Promise!Init
    /\ [M!Promise!Next]_(M!Promise!vars) <=> [MP!Promise!Next]_(MP!Promise!vars)
BY DEF M!Promise!Init, M!Promise!Next, M!Promise!vars, M!Promise!InLog, M!Promise!Approve,
       M!Promise!Vet, M!Promise!Publish, M!Promise!ForeignCommit, M!Promise!Report,
       MP!Promise!Init, MP!Promise!Next, MP!Promise!vars, MP!Promise!InLog, MP!Promise!Approve,
       MP!Promise!Vet, MP!Promise!Publish, MP!Promise!ForeignCommit, MP!Promise!Report

(* The service keeps the promise to the owner of the repository (module      *)
(* Publication): read through the target refs, the verdicts and the merged   *)
(* delegations, each of its steps is a step of the promise or none.          *)
THEOREM PublicationImplemented == Spec => ImplementsPublication
<1> USE DelegationsAssumption, PointGuardAssumption, QueueFinite
<1>1. Init => M!Promise!Init
  BY SameQueue, SamePromise, MP!InitShows DEF Init
<1>2. IInv /\ [Next]_vars => [M!Promise!Next]_(M!Promise!vars)
  BY StepsForQueue, SameQueue, SamePromise, MP!StepShows DEF IInv
<1> QED BY <1>1, <1>2, Invariance, PTL
   DEF Spec, ImplementsPublication, M!ImplementsPublication, M!Promise!Spec

=============================================================================
