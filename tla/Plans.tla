------------------------------- MODULE Plans -------------------------------
(* Plans (src/scheduler.ts runPlan and onPlanDelegationSettled, src/store.ts *)
(* plan_steps, the auto-merge hook and the resume passes of                  *)
(* server/src/index.ts): one plan, its steps, the delegations dispatched for *)
(* them, and the promise chains that carry a step from one await to the next.*)
(*                                                                           *)
(* The event loop is part of the model: callbacks of settled promises        *)
(* (`micro`) run before anything that waits for I/O, a timer or a request.   *)
(* A delegation is reduced to its slot, its attempts and its queue row: the  *)
(* cycle in between is module Scheduler, the integration module MergeQueue,  *)
(* where processNext may also throw or be swept. One plan has one target.    *)
EXTENDS Integers, FiniteSets, Sequences, SequencesExt

CONSTANTS
    Step,           \* the frozen plan: a step is its place in steps_json
    dependsOn,      \* what each step waits for
    Delegation,     \* ids that dispatch hands out, in this order
    Submission,     \* POST /plans requests that carry this planId
    Boot,           \* the pass of resumeQueuedDelegations .. resumeOpenPlans
    NoOne,          \* no delegation, no caller
    maxWorkers,
    attemptLimit,   \* DelegationBriefSchema's default: briefFromStep sets none
    MaxPasses       \* bound on process deaths and resyncs together

ASSUME PlansAssumption ==
    /\ Step \subseteq Nat
    /\ dependsOn \in [Step -> SUBSET Step]
    /\ \A s \in Step : s \notin dependsOn[s]     \* PlanSchema
    /\ Delegation \subseteq Nat /\ IsFiniteSet(Delegation)
    /\ NoOne \notin Delegation /\ Boot \notin Delegation
    /\ maxWorkers \in Nat \ {0} /\ attemptLimit \in Nat \ {0}
    /\ MaxPasses \in Nat

VARIABLES
    status,     \* plan_steps.status, "none" before the intake
    owner,      \* plan_steps.delegation_id
    dstate,     \* delegations.state ("running" stands for verifying too)
    attempts,   \* delegations.attempt_count
    base,       \* the delegations whose commits baseline_sha contains
    rows,       \* queued rows of the merge queue, oldest first
    spent,      \* delegations whose row is published or failed: never claimed again
    claim,      \* the row in flight, and who called the processNext that works on it
    cycle,      \* inFlight: what awaits the cycle: a plan's chain, a resume pass
                \* ("bare"), or nothing, since that pass ended ("left")
    merging,    \* where the auto-merge hook of the delegation is suspended
    micro,      \* onPlanDelegationSettled callbacks that are ready, in order
    calls,      \* runPlan calls suspended in dispatch: steps to do, merges seen
    resume,     \* where the resume pass of a boot or a resync is
    up, sent, passes   \* listening?; requests sent; deaths and resyncs so far

plan == <<status, owner>>
delegations == <<dstate, attempts, base>>
queue == <<rows, spent, claim>>
bounds == <<up, sent, passes>>
vars == <<plan, delegations, queue, cycle, merging, micro, calls, resume, bounds>>

Caller == Delegation \cup Submission \cup {Boot}
NoClaim == [row |-> NoOne, by |-> NoOne]
NoCall == [todo |-> {}, seen |-> {}]

TypeOK ==
    /\ status \in [Step -> {"none", "queued", "in_progress", "done", "failed"}]
    /\ owner \in [Step -> Delegation \cup {NoOne}]
    /\ dstate \in [Delegation -> {"absent", "queued", "running", "accepted", "integrating",
                                  "merged", "blocked", "cancelled"}]
    /\ attempts \in [Delegation -> 0..attemptLimit]
    /\ base \in [Delegation -> SUBSET Delegation]
    /\ rows \in Seq(Delegation) /\ spent \subseteq Delegation
    /\ claim \in [row : Delegation \cup {NoOne}, by : Delegation \cup {Boot, NoOne}]
    /\ cycle \in [Delegation -> {"none", "plan", "bare", "left"}]
    /\ merging \in [Delegation -> {"no", "enqueue", "process", "cleanup"}]
    /\ micro \in Seq(Delegation)
    /\ calls \in [Caller -> [todo : SUBSET Step, seen : SUBSET Delegation]]
    /\ resume \in {"idle", "cycles", "merges", "plan"}
    /\ up \in BOOLEAN /\ sent \subseteq Submission
    /\ passes \in 0..MaxPasses

Init ==
    /\ status = [s \in Step |-> "none"] /\ owner = [s \in Step |-> NoOne]
    /\ dstate = [d \in Delegation |-> "absent"]
    /\ attempts = [d \in Delegation |-> 0]
    /\ base = [d \in Delegation |-> {}]
    /\ rows = <<>> /\ spent = {} /\ claim = NoClaim
    /\ cycle = [d \in Delegation |-> "none"]
    /\ merging = [d \in Delegation |-> "no"]
    /\ micro = <<>>
    /\ calls = [c \in Caller |-> NoCall]
    /\ resume = "idle"
    /\ up = TRUE /\ sent = {} /\ passes = 0

In(state) == {d \in Delegation : dstate[d] = state}
inFlight == {d \in Delegation : cycle[d] # "none"}
StepOf(d) == CHOOSE s \in Step : owner[s] = d

(* Nothing that waits for I/O proceeds while a callback is ready.            *)
Idle == micro = <<>>

-----------------------------------------------------------------------------
(* runCycle, called on each delegation of D in one synchronous stretch, on   *)
(* the states ds. Some start until the slots are gone; one at its cap is     *)
(* blocked if a slot was still free; `rest` are the callbacks ready so far.  *)
(* A plan's call that did not start has a settled promise at once.           *)
RunCycles(ds, D, who, rest) ==
    LET able == {d \in D : ds[d] = "queued" /\ cycle[d] = "none"}
        capped == {d \in able : attempts[d] >= attemptLimit}
        free == maxWorkers - Cardinality(inFlight)
    IN  \E S \in SUBSET (able \ capped), B \in SUBSET capped :
          /\ Cardinality(S) <= free
          /\ free <= 0 => B = {}
          /\ Cardinality(S) < free => S = able \ capped /\ B = capped
          /\ dstate' = [d \in Delegation |-> IF d \in S THEN "running"
                                             ELSE IF d \in B THEN "blocked" ELSE ds[d]]
          /\ attempts' = [d \in Delegation |-> IF d \in S THEN attempts[d] + 1 ELSE attempts[d]]
          /\ cycle' = [d \in Delegation |-> IF d \in S THEN who ELSE cycle[d]]
          /\ micro' = rest \o IF who = "plan" THEN SetToSeq(D \ S) ELSE <<>>

(* nextRunnableSteps: queued, and all of dependsOn done. Mutant: settled.    *)
RunnableAnyway(st) ==
    {s \in Step : st[s] = "queued" /\ \A p \in dependsOn[s] : st[p] \in {"done", "failed"}}
NextRunnableSteps(st) ==
    {s \in Step : st[s] = "queued" /\ \A p \in dependsOn[s] : st[p] = "done"}

StalledInProgress(st) ==
    {owner[s] : s \in {s \in Step : st[s] = "in_progress" /\ dstate[owner[s]] = "queued"}}

(* A call that has these steps to dispatch, in the order of the plan.        *)
Call(todo) == IF todo = {} THEN NoCall ELSE [todo |-> todo, seen |-> In("merged")]

First(c, s) == s \in calls[c].todo /\ \A r \in calls[c].todo : s <= r

(* runPlan up to its first await: re-arm what stalled, then read, once, what *)
(* is runnable. Dispatch resolves the target's head no earlier than now.     *)
RunPlan(c, st, rest) ==
    /\ RunCycles(dstate, StalledInProgress(st), "plan", rest)
    /\ calls' = [calls EXCEPT ![c] = Call(NextRunnableSteps(st))]

-----------------------------------------------------------------------------
(* POST /plans: the intake, idempotent on planId, and a run of the plan.     *)
SubmitPlan(c) ==
    /\ Idle /\ up /\ c \notin sent
    /\ sent' = sent \cup {c}
    /\ status' = [s \in Step |-> IF status[s] = "none" THEN "queued" ELSE status[s]]
    /\ RunPlan(c, status', <<>>)
    /\ UNCHANGED <<owner, base, queue, merging, resume, up, passes>>

StepDispatched(c, s) == calls' = [calls EXCEPT ![c] = Call(@.todo \ {s})]

(* dispatch could not resolve the target (a path that cannot be read hashes  *)
(* to "absent", and the brief of a step that passed the intake parses): the  *)
(* step is settled as failed, whatever its row says by now.                  *)
DispatchFails(c) ==
    /\ Idle
    /\ \E s \in Step :
         /\ First(c, s) /\ StepDispatched(c, s)
         /\ status' = [status EXCEPT ![s] = "failed"]
    /\ UNCHANGED <<owner, delegations, queue, cycle, merging, micro, resume, bounds>>

(* Mutant: the claim without its guard.                                      *)
ClaimAlways(s) == TRUE

(* claimPlanStep: AND status = 'queued'.                                     *)
Claimable(s) == status[s] = "queued"

(* dispatch returns a new delegation. Claimed, it becomes the step's and     *)
(* runs; a call that lost the race leaves it behind.                         *)
DispatchReturns(c) ==
    /\ Idle
    /\ \E s \in Step, d \in In("absent") :
         LET ds == [dstate EXCEPT ![d] = "queued"]
         IN  /\ First(c, s) /\ StepDispatched(c, s)
             /\ \A e \in In("absent") : d <= e
             /\ base' = [base EXCEPT ![d] = calls[c].seen]
             /\ IF Claimable(s)
                THEN /\ status' = [status EXCEPT ![s] = "in_progress"]
                     /\ owner' = [owner EXCEPT ![s] = d]
                     /\ RunCycles(ds, {d}, "plan", <<>>)
                ELSE dstate' = ds /\ UNCHANGED <<plan, attempts, cycle, micro>>
    /\ UNCHANGED <<queue, merging, resume, bounds>>

-----------------------------------------------------------------------------
(* onPlanDelegationSettled.                                                  *)

(* What it does for a delegation that is not, or no longer, accepted.        *)
SettleRow(d, rest) ==
    \/ /\ dstate[d] = "merged"
       /\ status' = [status EXCEPT ![StepOf(d)] = "done"]
       /\ RunPlan(d, status', rest)
    \/ /\ dstate[d] \in {"blocked", "cancelled"}
       /\ status' = [status EXCEPT ![StepOf(d)] = "failed"]
       /\ micro' = rest
       /\ UNCHANGED <<dstate, attempts, cycle, calls>>
    \/ /\ dstate[d] = "queued"
       /\ RunCycles(dstate, {d}, "plan", rest)
       /\ UNCHANGED <<status, calls>>
    \/ /\ dstate[d] \in {"running", "integrating"}
       /\ micro' = rest
       /\ UNCHANGED <<status, dstate, attempts, cycle, calls>>

(* Mutants: an accepted delegation counts as done; nobody drives a retry.    *)
SettledTooEarly ==
    /\ micro # <<>>
    /\ LET d == Head(micro) IN
         \/ /\ dstate[d] = "accepted"
            /\ status' = [status EXCEPT ![StepOf(d)] = "done"]
            /\ RunPlan(d, status', Tail(micro))
         \/ SettleRow(d, Tail(micro))
    /\ UNCHANGED <<owner, base, queue, merging, resume, bounds>>
SettledWithoutRetry ==
    /\ micro # <<>>
    /\ LET d == Head(micro) IN
         IF dstate[d] \in {"accepted", "queued"}
         THEN /\ merging' = [merging EXCEPT ![d] = IF dstate[d] = "accepted" THEN "enqueue" ELSE @]
              /\ micro' = Tail(micro)
              /\ UNCHANGED <<status, dstate, attempts, cycle, calls>>
         ELSE SettleRow(d, Tail(micro)) /\ UNCHANGED merging
    /\ UNCHANGED <<owner, base, queue, resume, bounds>>

OnPlanDelegationSettled ==
    /\ micro # <<>>
    /\ LET d == Head(micro) IN
         \/ /\ dstate[d] = "accepted"
            /\ merging' = [merging EXCEPT ![d] = "enqueue"]
            /\ micro' = Tail(micro)
            /\ UNCHANGED <<status, dstate, attempts, cycle, calls>>
         \/ SettleRow(d, Tail(micro)) /\ UNCHANGED merging
    /\ UNCHANGED <<owner, base, queue, resume, bounds>>

(* The hook is back: the row is read again, and an accepted one is left.     *)
HookReturns(d) ==
    \/ SettleRow(d, <<>>)
    \/ /\ dstate[d] = "accepted"
       /\ UNCHANGED <<status, dstate, attempts, cycle, calls, micro>>

AfterHook(d) ==
    /\ merging' = [merging EXCEPT ![d] = "no"]
    /\ HookReturns(d)

(* enqueue, after commonDir: a row is made once in a delegation's life.      *)
Enqueued(d) ==
    IF d \in spent \/ claim.row = d \/ \E i \in DOMAIN rows : rows[i] = d
    THEN rows ELSE Append(rows, d)

Enqueue(d) ==
    /\ Idle /\ merging[d] = "enqueue"
    /\ rows' = Enqueued(d)
    /\ merging' = [merging EXCEPT ![d] = "process"]
    /\ UNCHANGED <<plan, delegations, spent, claim, cycle, micro, calls, resume, bounds>>

HookFails(d) ==
    /\ Idle /\ merging[d] \in {"enqueue", "process"}
    /\ AfterHook(d)
    /\ UNCHANGED <<owner, base, queue, resume, bounds>>

(* claimNextMerge on rows rs: the oldest, whoever asks, if none is in flight.*)
Ready(rs) == rs # <<>> /\ claim = NoClaim /\ dstate[Head(rs)] = "accepted"

ClaimNext(rs, by) ==
    /\ Ready(rs)
    /\ claim' = [row |-> Head(rs), by |-> by]
    /\ rows' = Tail(rs)
    /\ dstate' = [dstate EXCEPT ![Head(rs)] = "integrating"]
    /\ UNCHANGED spent

(* Nothing to claim; or the oldest entry's delegation has moved on.          *)
ClaimNothing(rs) ==
    /\ ~Ready(rs)
    /\ IF rs # <<>> /\ claim = NoClaim
       THEN rows' = Tail(rs) /\ spent' = spent \cup {Head(rs)}
       ELSE rows' = rs /\ UNCHANGED spent
    /\ UNCHANGED claim

ProcessNext(d) ==
    /\ Idle /\ merging[d] = "process"
    /\ \/ /\ ClaimNext(rows, d)
          /\ merging' = [merging EXCEPT ![d] = "no"]
          /\ UNCHANGED <<status, attempts, cycle, micro, calls>>
       \/ ClaimNothing(rows) /\ AfterHook(d)
    /\ UNCHANGED <<owner, base, resume, bounds>>

(* The integration publishes, or conflicts or is refused: fresh attempt.     *)
IntegrationEnds(to) ==
    /\ Idle /\ claim # NoClaim
    /\ dstate' = [dstate EXCEPT ![claim.row] = to]
    /\ spent' = spent \cup {claim.row}
    /\ claim' = NoClaim
    /\ merging' = IF claim.by \in Delegation
                  THEN [merging EXCEPT ![claim.by] = "cleanup"] ELSE merging
    /\ UNCHANGED <<plan, attempts, base, rows, cycle, micro, calls, resume, bounds>>

(* processNext's finally is done; the chain that called it goes on.          *)
IntegrationReturns(d) ==
    /\ Idle /\ merging[d] = "cleanup"
    /\ AfterHook(d)
    /\ UNCHANGED <<owner, base, queue, resume, bounds>>

-----------------------------------------------------------------------------
(* The cycle of a delegation, and the operator's cancel.                     *)

Release(d) ==
    /\ cycle' = [cycle EXCEPT ![d] = "none"]
    /\ micro' = IF cycle[d] = "plan" THEN <<d>> ELSE <<>>

AttemptFails(d) ==
    /\ Idle /\ cycle[d] # "none" /\ dstate[d] = "running"
    /\ dstate' = [dstate EXCEPT ![d] = IF attempts[d] >= attemptLimit THEN "blocked" ELSE "queued"]
    /\ Release(d)
    /\ UNCHANGED <<plan, attempts, base, queue, merging, calls, resume, bounds>>

(* Verification throws: the slot is freed, nothing is settled, the chain is  *)
(* logged and gone. In a resync's own cycle it rejects the Promise.all, and  *)
(* the pass ends there, leaving the others running; in a boot's it kills the *)
(* process: see Crash.                                                       *)
AttemptThrows(d) ==
    /\ Idle /\ cycle[d] # "none" /\ dstate[d] = "running" /\ (up \/ cycle[d] = "plan")
    /\ cycle' = [e \in Delegation |-> IF e = d THEN "none"
                                     ELSE IF cycle[d] = "bare" /\ cycle[e] = "bare" THEN "left"
                                     ELSE cycle[e]]
    /\ resume' = IF cycle[d] = "bare" THEN "idle" ELSE resume
    /\ UNCHANGED <<plan, delegations, queue, merging, micro, calls, bounds>>

CandidateAccepted(d) ==
    /\ Idle /\ cycle[d] # "none" /\ dstate[d] = "running"
    /\ dstate' = [dstate EXCEPT ![d] = "accepted"]
    /\ UNCHANGED <<plan, attempts, base, queue, cycle, merging, micro, calls, resume, bounds>>

(* The verification checkout is removed, and runCycle resolves.              *)
CycleReturns(d) ==
    /\ Idle /\ cycle[d] # "none" /\ dstate[d] # "running"
    /\ Release(d)
    /\ UNCHANGED <<plan, delegations, queue, merging, calls, resume, bounds>>

Cancel(d) ==
    /\ Idle /\ up /\ dstate[d] \in {"queued", "blocked"}
    /\ dstate' = [dstate EXCEPT ![d] = "cancelled"]
    /\ UNCHANGED <<plan, attempts, base, queue, cycle, merging, micro, calls, resume, bounds>>

-----------------------------------------------------------------------------
(* The resume pass of a boot and of POST /admin/resync: each stage awaits    *)
(* what it started.                                                          *)
ResumeQueuedDelegations ==
    /\ resume' = "cycles"
    /\ RunCycles(dstate, In("queued"), "bare", <<>>)

Resync ==
    /\ Idle /\ up /\ resume = "idle" /\ passes < MaxPasses
    /\ passes' = passes + 1
    /\ ResumeQueuedDelegations
    /\ UNCHANGED <<plan, base, queue, merging, calls, up, sent>>

ResumeQueuedMerges ==
    /\ Idle /\ resume = "cycles" /\ \A d \in Delegation : cycle[d] # "bare"
    /\ resume' = "merges"
    /\ \/ ClaimNext(rows, Boot)
       \/ ClaimNothing(rows) /\ UNCHANGED dstate
    /\ UNCHANGED <<plan, attempts, base, cycle, merging, micro, calls, bounds>>

OpenPlan == \E s \in Step : status[s] \in {"queued", "in_progress"}

(* Mutant: the pass waits until the merge queue is drained, which one        *)
(* processNext does not do, whatever the comment of resumeQueuedMerges says. *)
ResumeWhenDrained ==
    /\ Idle /\ resume = "merges" /\ claim.by # Boot /\ rows = <<>>
    /\ resume' = "plan"
    /\ IF OpenPlan THEN RunPlan(Boot, status, <<>>)
       ELSE UNCHANGED <<dstate, attempts, cycle, micro, calls>>
    /\ UNCHANGED <<plan, base, queue, merging, bounds>>

ResumeOpenPlans ==
    /\ Idle /\ resume = "merges" /\ claim.by # Boot
    /\ resume' = "plan"
    /\ IF OpenPlan THEN RunPlan(Boot, status, <<>>)
       ELSE UNCHANGED <<dstate, attempts, cycle, micro, calls>>
    /\ UNCHANGED <<plan, base, queue, merging, bounds>>

(* runPlan has dispatched what it read. A boot prunes worktrees (module      *)
(* Attempt; no failure leaves that pass) and listens; a resync answers.      *)
Listen ==
    /\ Idle /\ resume = "plan" /\ calls[Boot] = NoCall
    /\ resume' = "idle" /\ up' = TRUE
    /\ UNCHANGED <<plan, delegations, queue, cycle, merging, micro, calls, sent, passes>>

(* The process dies: promises and callbacks are gone, the tables stay.       *)
Crash ==
    /\ passes < MaxPasses /\ (up \/ resume # "idle")
    /\ passes' = passes + 1
    /\ up' = FALSE /\ resume' = "idle" /\ micro' = <<>>
    /\ cycle' = [d \in Delegation |-> "none"]
    /\ merging' = [d \in Delegation |-> "no"]
    /\ calls' = [c \in Caller |-> NoCall]
    /\ claim' = [claim EXCEPT !.by = NoOne]
    /\ UNCHANGED <<plan, delegations, rows, spent, sent>>

(* reconcileOnStartup requeues what was running (unless its run had ended)   *)
(* or integrating, and reclaims the row in flight; then the resume pass.     *)
Restart ==
    /\ ~up /\ resume = "idle"
    /\ \E lost \in SUBSET In("running") :
         LET ds == [d \in Delegation |->
                      IF d \in lost \cup In("integrating")
                      THEN IF attempts[d] >= attemptLimit THEN "blocked" ELSE "queued"
                      ELSE dstate[d]]
         IN  RunCycles(ds, {d \in Delegation : ds[d] = "queued"}, "bare", <<>>)
    /\ spent' = spent \cup ({claim.row} \ {NoOne})
    /\ claim' = NoClaim
    /\ resume' = "cycles"
    /\ UNCHANGED <<plan, base, rows, merging, calls, bounds>>

CycleStep(d) == AttemptFails(d) \/ AttemptThrows(d) \/ CandidateAccepted(d) \/ CycleReturns(d)
HookStep(d) == Enqueue(d) \/ HookFails(d) \/ ProcessNext(d) \/ IntegrationReturns(d)

(* What the service does by itself.                                          *)
Progress ==
    \/ OnPlanDelegationSettled
    \/ \E c \in Caller : DispatchFails(c) \/ DispatchReturns(c)
    \/ \E d \in Delegation : CycleStep(d) \/ HookStep(d)
    \/ IntegrationEnds("merged") \/ IntegrationEnds("queued")
    \/ ResumeQueuedMerges \/ ResumeOpenPlans \/ Listen \/ Restart

Next ==
    \/ Progress
    \/ \E c \in Submission : SubmitPlan(c)
    \/ \E d \in Delegation : Cancel(d)
    \/ Resync \/ Crash

(* The runtime runs what is ready; every await is bounded by a timeout of    *)
(* git, worker, gate or judge; the service manager restarts the process. The *)
(* work of a plan is finite, so it is enough that some of it goes on. (A     *)
(* callback that spins is all that goes on, for ever: see EventLoopTurns.)   *)
Fairness == WF_vars(Progress)

Spec == Init /\ [][Next]_vars /\ Fairness

-----------------------------------------------------------------------------
(* Properties.                                                               *)

(* "all of dependsOn done before a step is runnable" (PlanStepSchema,        *)
(* nextRunnableSteps), through races of submissions, restarts and unguarded  *)
(* settlements: whatever a step waits for was merged before its delegation   *)
(* was dispatched, and the baseline it works from contains those commits.    *)
BuiltOnDependencies ==
    \A s \in Step : owner[s] # NoOne =>
        \A p \in dependsOn[s] :
            owner[p] # NoOne /\ dstate[owner[p]] = "merged" /\ owner[p] \in base[owner[s]]

(* A step is reported done only for work of its own that is on the target.   *)
DoneIsMerged ==
    \A s \in Step : status[s] = "done" => owner[s] # NoOne /\ dstate[owner[s]] = "merged"

(* "Setting a delegation_id happens exactly once" (claimPlanStep): of        *)
(* however many concurrent runs of the plan, one owns a step, for good, and  *)
(* no delegation works for two steps.                                        *)
OneOwnerForGood ==
    [][\A s \in Step : /\ owner[s] # NoOne => owner'[s] = owner[s]
                       /\ \A r \in Step : owner'[s] = owner'[r] /\ owner'[s] # NoOne => r = s]_vars

(* A plan that runs one step at a time, whose merges neither conflict nor    *)
(* are touched by operator, crash or resync, and in which neither verifier   *)
(* nor hook throws, has every step it starts settled: the retry ladder, the  *)
(* hook and the fan-out call each other with nobody else to drive them.      *)
Undisturbed ==
    /\ passes = 0 /\ In("cancelled") = {}
    /\ claim.by = claim.row
    /\ spent \subseteq In("merged")
    /\ \A d \in In("running") : cycle[d] # "none"
    /\ \A d \in In("accepted") : cycle[d] # "none" \/ merging[d] # "no" \/ ~Idle
    /\ \A r, s \in Step : status[r] = "in_progress" /\ status[s] = "in_progress" => r = s

StepsSettle ==
    []Undisturbed => \A s \in Step : status[s] = "in_progress" ~> status[s] \in {"done", "failed"}

(* However the process dies, it ends up listening for good (the HTTP server  *)
(* listens behind the awaits of all resume passes): cycles, merges and plans *)
(* that a boot picks up cannot keep the service down, however the last       *)
(* process left them. With fewer slots than delegations they can: what makes *)
(* EventLoopTurns fail happens inside resumeOpenPlans too.                   *)
ComesUp == maxWorkers >= Cardinality(Delegation) => <>[]up

(* "nothing blocks" (runCycle): a callback that is ready is done eventually, *)
(* so that I/O, timers and requests get their turn.                          *)
EventLoopTurns == micro # <<>> ~> micro = <<>>

=============================================================================
