---------------------------- MODULE Delegations ----------------------------
(* The delegations table (src/store.ts), the evidence that hangs off it, and *)
(* the legal lifecycle (src/contracts.ts): the state that the scheduler and  *)
(* the merge processor share. Each operator below is one statement that some *)
(* component executes on the table; the components add the control around    *)
(* it. better-sqlite3 is synchronous and one process owns the database, so a *)
(* statement, and everything up to the next await, is one step.              *)
(*                                                                           *)
(* Abstractions: a brief is its attemptLimit, a candidate commit is the      *)
(* number of the attempt that produced it, and evidence is what the code     *)
(* later reads from it: the attempt of the newest report, and the attempts   *)
(* whose candidate computeEligibility accepted.                              *)
EXTENDS Integers, FiniteSets

CONSTANTS
    Delegation,     \* ids that dispatch may hand out
    attemptLimit,   \* brief.attemptLimit of each delegation
    MaxCrashes      \* bound on process deaths in one behaviour

ASSUME DelegationsAssumption ==
    /\ IsFiniteSet(Delegation)
    /\ attemptLimit \in [Delegation -> 1..3]  \* contracts.ts: min(1).max(3)
    /\ MaxCrashes \in Nat

VARIABLES
    dstate,     \* delegations.state, "absent" before the row exists
    attempts,   \* delegations.attempt_count
    reported,   \* attempt of the newest "report" evidence, 0 if there is none
    verified,   \* attempts whose candidate passed gates and judge
    phase,      \* how far server/src/index.ts has come with its boot
    crashes     \* process deaths so far

table == <<dstate, attempts, reported, verified>>
shared == <<table, phase, crashes>>

DELEGATION_STATES ==
    {"queued", "running", "verifying", "accepted", "integrating",
     "merged", "blocked", "cancelling", "cancelled", "failed"}

DELEGATION_TRANSITIONS ==
    [queued      |-> {"running", "cancelled", "blocked"},
     running     |-> {"verifying", "queued", "blocked", "cancelling", "failed"},
     verifying   |-> {"accepted", "queued", "blocked", "cancelling", "failed"},
     accepted    |-> {"integrating", "blocked", "cancelled"},
     integrating |-> {"merged", "queued", "blocked", "failed"},
     merged      |-> {},
     blocked     |-> {"queued", "cancelled"},
     cancelling  |-> {"cancelled", "failed"},
     cancelled   |-> {},
     failed      |-> {"queued"}]

(* "down": no process. "recovering": reconcileOnStartup done, awaiting       *)
(* recoverPublishing. "resuming": awaiting resumeQueuedDelegations.          *)
(* "merging": awaiting resumeQueuedMerges. "up": that is done. Open plans     *)
(* (resumeOpenPlans, awaited before the service listens: module Plans), later *)
(* requests and timers dispatch, cancel, merge and sweep from here on.        *)
Phases == {"down", "recovering", "resuming", "merging", "up"}

DelegationsTypeOK ==
    /\ dstate \in [Delegation -> DELEGATION_STATES \cup {"absent"}]
    /\ attempts \in [Delegation -> 0..3]
    /\ reported \in [Delegation -> 0..3]
    /\ verified \in [Delegation -> SUBSET (1..3)]
    /\ phase \in Phases
    /\ crashes \in 0..MaxCrashes

DelegationsInit ==
    /\ dstate = [d \in Delegation |-> "absent"]
    /\ attempts = [d \in Delegation |-> 0]
    /\ reported = [d \in Delegation |-> 0]
    /\ verified = [d \in Delegation |-> {}]
    /\ phase = "up"
    /\ crashes = 0

-----------------------------------------------------------------------------
(* Mutant: the UPDATE without its WHERE state IN (...).                      *)
TransitionForced(d, from, to) == dstate' = [dstate EXCEPT ![d] = to]

(* The guarded UPDATE: a delegation that left `from` is not touched.         *)
Transition(d, from, to) ==
    dstate' = [dstate EXCEPT ![d] = IF @ \in from THEN to ELSE @]

(* Mutant: the budget is never tested.                                       *)
AtCapNever(d) == FALSE

AtCap(d) == attempts[d] >= attemptLimit[d]

(* Where a delegation goes when an attempt is lost: back into the queue      *)
(* within its budget, to the human once the budget is spent.                 *)
Requeue(d) == IF AtCap(d) THEN "blocked" ELSE "queued"

-----------------------------------------------------------------------------
(* What the scheduler does to the table.                                     *)
Create(d) ==
    /\ dstate[d] = "absent"
    /\ dstate' = [dstate EXCEPT ![d] = "queued"]
    /\ UNCHANGED <<attempts, reported, verified>>

StartAttempt(d) ==
    /\ dstate[d] = "queued" /\ ~AtCap(d)
    /\ Transition(d, {"queued"}, "running")
    /\ attempts' = [attempts EXCEPT ![d] = @ + 1]
    /\ UNCHANGED <<reported, verified>>

BlockAtCap(d) ==
    /\ dstate[d] = "queued" /\ AtCap(d)
    /\ Transition(d, {"queued"}, "blocked")
    /\ UNCHANGED <<attempts, reported, verified>>

BeginVerification(d) ==
    /\ Transition(d, {"running"}, "verifying")
    /\ UNCHANGED <<attempts, reported, verified>>

AddReport(d) ==
    /\ reported' = [reported EXCEPT ![d] = attempts[d]]
    /\ UNCHANGED <<dstate, attempts, verified>>

Accept(d) ==
    /\ verified' = [verified EXCEPT ![d] = @ \cup {attempts[d]}]
    /\ Transition(d, {"verifying"}, "accepted")
    /\ UNCHANGED <<attempts, reported>>

SettleFailure(d) ==
    /\ Transition(d, {"running", "verifying"}, Requeue(d))
    /\ UNCHANGED <<attempts, reported, verified>>

(* Mutant: a delegation whose worker is running can be cancelled.            *)
CancelRunning(d) ==
    /\ dstate[d] \in {"queued", "blocked", "running"}
    /\ dstate' = [dstate EXCEPT ![d] = "cancelled"]
    /\ UNCHANGED <<attempts, reported, verified>>

Cancel(d) ==
    /\ dstate[d] \in {"queued", "blocked"}
    /\ Transition(d, {"queued", "blocked"}, "cancelled")
    /\ UNCHANGED <<attempts, reported, verified>>

(* resumeQueuedDelegations calls runCycle on every queued delegation in one  *)
(* synchronous pass. `started` are those that got a slot, `capped` those     *)
(* found at their cap while a slot was still free.                           *)
StartBatch(started, capped) ==
    /\ \A d \in started : dstate[d] = "queued" /\ ~AtCap(d)
    /\ \A d \in capped : dstate[d] = "queued" /\ AtCap(d)
    /\ dstate' = [d \in Delegation |-> IF d \in started THEN "running"
                                       ELSE IF d \in capped THEN "blocked"
                                       ELSE dstate[d]]
    /\ attempts' = [d \in Delegation |->
                      IF d \in started THEN attempts[d] + 1 ELSE attempts[d]]
    /\ UNCHANGED <<reported, verified>>

(* Mutant: accepted delegations are taken for interrupted ones too.          *)
RequeueAccepted(lost) ==
    /\ dstate' = [d \in Delegation |->
                    IF d \in lost \/ dstate[d] \in {"accepted", "integrating"}
                    THEN Requeue(d) ELSE dstate[d]]
    /\ UNCHANGED <<attempts, reported, verified>>

(* The delegation half of reconcileOnStartup. `lost` are the delegations     *)
(* whose running row it just closed; every integrating one goes back too.    *)
RequeueLost(lost) ==
    /\ dstate' = [d \in Delegation |->
                    IF \/ d \in lost /\ dstate[d] \in {"running", "verifying"}
                       \/ dstate[d] = "integrating"
                    THEN Requeue(d) ELSE dstate[d]]
    /\ UNCHANGED <<attempts, reported, verified>>

-----------------------------------------------------------------------------
(* What the merge processor does to the table.                               *)
BeginIntegration(claimed) ==
    /\ dstate' = [d \in Delegation |->
                    IF d \in claimed /\ dstate[d] = "accepted"
                    THEN "integrating" ELSE dstate[d]]
    /\ UNCHANGED <<attempts, reported, verified>>

FinishIntegration(d, to) ==
    /\ Transition(d, {"integrating"}, to)
    /\ UNCHANGED <<attempts, reported, verified>>

=============================================================================
