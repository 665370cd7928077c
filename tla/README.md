# Point-guard in TLA+

A verification project for point-guard, the service that delegates coding
subtasks to disposable agents, verifies what they return, integrates accepted
work into a target branch and keeps a live book of sessions. Paths are relative
to the repository, whose root the manifest calls `src/` (so `src/src/merge.ts`
is `src/merge.ts` of the checkout).

The modules were written from the source. Comments and docs of the repository
were read as claims about the source: where the two disagree the model follows
the code, and a run with a counterexample says so (section *Disagreements*).

## 1. The system

One Node process (`server/src/index.ts`) with one SQLite database
(`src/store.ts`). JavaScript runs one stretch of code at a time, so what
interleaves is the stretches between `await`s: of worker cycles, merge
processing, timers and requests. The process may die at any `await`; the service
manager starts it again (`run-at-load`, `keep-alive` in `bag.yaml`). Git
repositories are shared with other writers. A terminal client follows the event
stream over a WebSocket.

| Component | State | Operations | Interacts through | What makes it correct |
|---|---|---|---|---|
| Delegations table (`store.ts`, `contracts.ts`) | `state`, `attempt_count`, evidence per delegation | guarded `transitionDelegation`, `incrementAttempts`, `addEvidence` | every other component writes it | edges of `DELEGATION_TRANSITIONS` only; budget never exceeded; blocked means spent |
| Scheduler (`scheduler.ts`) | `inFlight` map (slots) | `dispatch`, `runCycle`, `executeCycle`, `settleFailure`, `reconcileOnStartup`, `runPlan` | calls worker and verifier; table | slots bounded and returned; a cycle owns its row; recovery never doubles a worker |
| Worker and single run (`worker.ts`, `run-single.ts`) | `runs` row with pid, worktree, session row | `executeAttempt`, `runSingle` with a deadline | awaited by the scheduler; session store | child, slot and run row end together, or the child is at least told to stop; no session lingers unnoticed; a worker ends |
| Verifier (`verifier.ts`) | none | `confirmArtifact`, `verifyCandidate`: gates, judge, verdict | awaited by scheduler and merge processor | accepts only on complete evidence of this attempt, about one clean commit in scope |
| Merge processor and queue (`merge.ts`, `store.ts`) | `merge_queue` row per delegation | `enqueue`, `processNext`, `recoverPublishing` | target ref via `gitwt.ts`; table | one integration per target; publish once, what was verified, on the head it was verified for; the row tells the truth |
| Git and worktrees (`gitwt.ts`) | refs, worktrees | `casPublish`, `mergeIntoWorktree`, `isAncestor`, prune | processes with timeouts | no lost update; no uncommitted work removed |
| Boot, handlers, timers (`index.ts`) | `phase` | boot order, REST handlers, 300 s reconcile, 30 s outbox, 500 ms poll, 60 s tick | all | comes up; nothing stays half done |
| Plans (`scheduler.ts`, `store.ts`) | `plans`, `plan_steps` | `submit_plan`, `runPlan`, `onPlanDelegationSettled`, auto-merge, re-arm at boot | promise chains | dependents start from a baseline with their dependencies; done means merged; one delegation owns a step; every step settles |
| Book (`supervisor.ts`, `merge-tree-backstop.ts`) | `book` rows, `previouslyFlagged` | tick, backstop, `notifyNewFlags` | two timers, one table | ended sessions go, flags are announced, the slow check's stamp survives |
| Event stream (`store.ts`, `index.ts`, `tui/src/net.rs`) | `stream_events`, `pushCursor`, `last_cursor` | `emitEvent`, poll, replay, reconnect | WebSocket | in order, no duplicate, catches up |
| Outbox (`store.ts`, `index.ts`) | `outbox` rows | `enqueueOutbox`, `flushOutbox` | HTTP | nothing leaves undelivered; everything is delivered |
| Debrief and narrative (`debrief.ts`, `debrief-plans.ts`, `debrief-narrative.ts`) | `debrief_snapshot`, `debrief_narrative` | second half of the tick, 300 s narrative pass | book, delegations, outbox, plans service, two models | prose not marked stale describes what it is shown beside; it catches up |
| Stuck detection, messages, compaction, tools, web | none | pure functions, proxies | - | see section 7 |

Hard behaviours: the sweep runs recovery in a *living* process, beside
suspended cycles; a crash splits an effect from its record (run row, git ref,
queue row, outbox post); recovery is several passes over the same rows in a
fixed order; rows are rewritten by calls that read them long ago; several loops
take a bounded batch; promise chains call each other with nobody else to drive
them; a worker, a deadline and a prune pass meet in one worktree. `PROJECT.json`
lists each hazard at its line with the properties that watch it, or why none
does.

## 2. Modules

| Module | Models | State and its counterpart |
|---|---|---|
| `Delegations` | the delegations table and the statements on it | `dstate` = `state`, `attempts` = `attempt_count`, `reported` = attempt of the newest report evidence, `verified` = attempts whose candidate the verifier accepted; `phase` = how far the boot is, up to the end of `resumeQueuedMerges`; `crashes` |
| `Scheduler` | `scheduler.ts` + `worker.ts` + boot until merges are resumed | `cyc` = the await at which a cycle is suspended (domain of `inFlight` = those not `"none"`), `run` = newest `runs` row, `pid`, `called` = calls of `runCycle` about to run |
| `MergeQueue` | `merge.ts` + `merge_queue` + refs | `row`, `target` = commit log of each ref, `checked` = positions at which the merged tree passed gates and judge, `request` = confirm-merge requests under way, `mpc`/`tries` = suspended `processNext`, `torecover` = rows left for `recoverPublishing` |
| `Publication` | abstract: what the owner of a ref is promised | log of writers, approved, vetted, merged |
| `PointGuard` | the service: scheduler and merge processor together | union of both |
| `EventStream` | stream, poller, socket, client | `latest`, `pushCursor`, `frames`, `lastCursor`, `shown` |
| `Outbox` | outbox and overlapping flushes | `outbox`, `batch` per run, `accepted` by the API |
| `Book` | book, tick, backstop, notification | `book`, `stamped`, `tick` per run, `group`, `flagged` |
| `Plans` | the plan half of `scheduler.ts`, the auto-merge hook and the resume passes | `status`, `owner` = `plan_steps`; `dstate`, `attempts`, `base` (commits in `baseline_sha`) of its delegations; `rows`, `spent`, `claim` = merge queue and the row in flight; `cycle` = what awaits a cycle (a plan, a resume pass, or nothing since that pass was rejected); `merging` = hooks; `micro` = ready callbacks; `calls` = suspended `runPlan` calls; `resume` = boot or resync pass, `up` = listening |
| `Verdict` | the decisions of `verifier.ts` and the delta of `gitwt.ts` as pure functions | none |
| `Attempt` | one delegation's attempts from inside: `executeCycle`, `worker.ts`, `run-single.ts`, verification, worktrees and the prune | `pc` = the await, `run`, `session`, `ledger`, `gaps` (outbox rows), `stream` = child and timer of `runSingle`, `left` = children that a thrown stream left behind, `tree`, `evidence`, `told` = what the prompt carries, `worktrees`, `dirty`, `prune` |
| `Debrief` | debrief half of the tick, narrative pass | `book` and `order` (rows by `updated_at`), `recent` (flag events), `tick`, `snapshot`, `narrative` (hash, and what its prompt told), `pass` |
| `MC*` | instances for TLC | - |
| `*Proofs` | theorems about the module of that name; `SupervisorProofs`: about `Debrief` and `Book` | - |

`Plans` and `Attempt` look at the scheduler from two other sides. `Plans` has
many delegations and reduces a cycle to "runs, then fails, throws or is
accepted"; `Scheduler` has the cycle's awaits and reduces an attempt to its
outcome; `Attempt` has one delegation and all that happens in it. Each says in
its head comment what it leaves to the others.

An action runs from one `await` to the next; composed synchronous stretches
(transition, finishRun, transition) are one action. The `map` of `PROJECT.json`
gives the lines of every definition.

Scheduler and merge processor write one table. Each of their modules has a
section *environment* with the statements that the other may execute, and
`PointGuard` composes the real ones. `ImplementsScheduler` and
`ImplementsMergeQueue`, checked by TLC and proved in `PointGuardProofs`, say that
neither does anything that the other was not specified against. So what is
checked or proved of a component alone holds in the service.

A definition that a comment calls a mutant is a plausible bug of the definition
that follows it. Each property of a passing run is known to fail under one of
them; no specification uses them.

## 3. Runs

| Run | Instance | Distinct states | Shows |
|---|---|---|---|
| `scheduler` | 2 delegations, 1 slot, budgets 1 and 2, 2 crashes, sweep | 159 k | slots, budgets, ownership, runs table, evidence, lifecycle edges, terminal runs; slots come back |
| `mergequeue_safety` | 2 delegations (budgets 1 and 2), 1 target, 1 foreign commit, 2 CAS tries, 1 crash, sweep | 1.9 M | no lost update, verified at its position, row and ref agree, published is final; the queue implements `Publication` |
| `mergequeue_liveness` | 2 delegations, 1 target, 1 crash, sweep, failing git | 97 k | a target's slot is freed whatever throws |
| `pointguard` | 1 delegation with budget 3, 2 crashes, 2 foreign commits, 2 CAS tries, failing git, reused pids | 397 k | the composition implements `Scheduler`, `MergeQueue` and the promise `Publication`; merged is the latest candidate |
| `eventstream` | 5 events, push batch 2, 2 lost connections or restarts | 5.7 k | in order, no duplicate, catches up |
| `outbox` | 2 flushes, batch 2, 2 events, 1 visibility row, 2 failures | 9.0 k | nothing lost, everything delivered |
| `plans` | 3 steps (the third waits for two), 3 delegations, 1 submission, 4 slots, budget 2, 1 crash or resync | 199 k | baseline holds the dependencies, done means merged, one owner for good; an undisturbed plan settles its steps; a boot with slots enough comes up |
| `attempt` | 1 delegation, 2 attempts, 1 fault (death, prune pass or failed write), workers that commit well, move a protected file, lie about the claim or leave files behind | 729 k | acceptance is proven, every child is awaited or told to stop, sessions accounted for, dirty work kept, every child ends |
| `debrief` | 2 sessions, 1 plan, 1 delegation, 2 changes, failures or restarts | 447 k | unmarked prose is true; a quiet team whose rows keep their order gets prose that is not stale |
| `book` | 2 sessions, 2 ticks, backstop, 2 changes, failures or restarts | 39 k | stamps kept, ended sessions gone and stay gone, contention announced |

Why the bounds are enough to be interesting. Two delegations and one slot give
refusal, requeue and resume order. A budget of 2 lets an attempt fail, be lost
in a crash or come back from integration, and be followed by one that is
accepted; a budget of 1 reaches `blocked`. One crash splits any effect from its
record; the second one hits recovery itself. One foreign commit makes a
compare-and-swap lose, two tries let it lose and win, or lose for good. The
batch of 2 stands for 20, 200 and 500: it is smaller than what can be waiting.
In `pointguard` the statements that the components make on the shared table
concern one delegation each, so one delegation with the full budget of 3
exercises every way back and forth; what several delegations do to each other is
the subject of the component runs.

The deadlock check is off in `eventstream` and `outbox`, which really come to
rest when the bounded inputs are used up. `pointguard` uses the symmetry of
process ids; it checks no liveness.

Three steps with a join are the smallest plan in which a step can be settled while
another one is still wanted by the same dependent; one crash or resync lets any
chain be cut and picked up by another one. `ComesUp` asks that the slots be as many
as the delegations; with a plan of two steps, two slots and two deaths or resyncs,
so that a boot itself may die, it was checked once (222 k states). Two attempts and one fault let every
suspension point of an attempt be the one that dies, and its successor read what
is left; two attempts are needed for evidence of an earlier one to be mistaken
for that of the last. In `debrief` two changes suffice to change what is shown
and to change it back while a model is being asked.

The deadlock check is off in `plans` and `attempt` too: a plan or delegation that
is settled has nothing left to do.

Every property of the manifest is checked on every run of its list. The type
invariants of `Plans`, `Attempt`, `Debrief`, `Book`, `Outbox` and `EventStream` hold on
the same instances (run once each, and `EventStream`'s is proved); they are left
out of the lists, which are for what could go wrong. `StepsSettle` is
conditional: `Undisturbed` excludes crash, resync, cancels, conflicts, throwing
verifiers and hooks, and several steps at work at once, each of which is known
to strand a step (below). What remains is the chain of retries, hook and fan-out.

Constants that leave something out. `GitMayFail = FALSE` in `mergequeue_safety`:
a git command that dies answers nothing false there, because
`LandedIsRecorded` holds only then (see *Further disagreements*, "Intent"); `pointguard` and `mergequeue_liveness` have it `TRUE`. `PidReuse = FALSE` in
`scheduler`.

### Disagreements

These runs check one sentence of the repository each, and TLC finds it violated
by what the code does. `PROJECT.json` quotes the sentence and tells the story.

| Run | Claim | What happens |
|---|---|---|
| `plans_eventloop` | runCycle refuses, the caller polls again, nothing blocks | the settle callback of a refused step and `runCycle` call each other in the microtask queue for ever |
| `attempt_retry` | a fresh attempt is told how the last one failed | the transition to `running` has cleared the reason before it is read |

The counterexample of `plans_eventloop` ends in stuttering, and that is the point.
`micro` is not empty, so the runtime does nothing else; its only callback leaves
`dstate`, `micro` and everything else as they were. The step is enabled and taken
for ever, and a step that changes nothing is a stuttering step. Two steps and
one slot are enough, without crash or failure.

The same happens inside `await resumeOpenPlans()` (`index.ts:147`) when a process
that died is started again with an open plan that has more runnable steps than
there are slots. Then the service never reaches `httpServer.listen`
(`index.ts:654`), and no timer is armed. TLC finds it when the premise of `ComesUp`
is dropped: two steps, one slot, one death.

### Further disagreements

Met while modelling; each follows from the modules in a few steps, none has a
run of its own.

Delegations and merges:

* *Every path out of an attempt ends in a recorded, terminal, explainable state*
  (`scheduler.ts:6-7`): `executeCycle` catches `executeAttempt` only (155-176). When
  git throws inside `confirmArtifact` or `verifyCandidate`, the `finally` of
  `runCycle` frees the slot and the delegation stays in `verifying`, which can
  neither be cancelled nor retried and which no recovery looks for
  (`VerificationThrows` in `Scheduler` and `Attempt`).
* *Integration is serialized per target* (`store.ts:642-646`): passes 2 and 3 of the
  sweep in the living process (`scheduler.ts:505-532`) fail the row of a
  `processNext` that is only suspended; the next request claims another row, and
  two integrations run on one target. What is published stays right
  (`NoLostUpdate`, `PublishedWasVerified`), because the compare-and-swap decides.
* *Published -> finalize without repeating* (`merge.ts:187-192`): boot runs
  `reconcileOnStartup` first (`index.ts:70-71`), which moves the integrating
  delegation to `queued` or `blocked`; `recoverPublishing` then marks the row
  published, and its transition to `merged` (`merge.ts:207`) is refused.
* *Conflicts return to a fresh bounded worker with an updated baseline*
  (`merge.ts:113-116`): its candidate can be accepted but not integrated, for
  `merge_queue` has one row per delegation and `enqueueMerge` (`store.ts:624-629`)
  returns the failed one. The baseline is not updated either: only `dispatch`
  writes `baseline_sha`.
* A recovery whose git command fails leaves the row in `publishing`, which
  occupies the target until the next boot (`RecoverAmbiguous`): no sweep looks at
  those rows. The code calls this operator review.
* *Interrupted work is requeued* (`scheduler.ts:291-296`): only a delegation with
  a `running` run row is. A crash before `createRun`, or after `finishRun` while
  the candidate is being verified, leaves it `running` or `verifying`
  (`Crash`, then `Reconcile`).
* *A running row with our own pid is impossible on startup* (`scheduler.ts:470`):
  with `PidReuse` the new process skips the interrupted run at boot and at every
  sweep, although `pid_started_at` is recorded next to the pid.
* *The caller polls again* (`scheduler.ts:126-127`, `index.ts:84-86`): a
  delegation that found no slot, or whose attempt failed within its budget, has
  no pending call (`called`) until resync or restart.
* *One `processNext` call drains the target's whole queue* (`store.ts:691-692`,
  `index.ts:98-99`): `Claim` takes one entry, and nothing calls it again.
* *Intent distinguishes published from provably not* (`merge.ts:154-155`):
  `casPublish` reads a command that was killed after its effect as a refusal, and
  `isAncestor` reads an error as "no" (`GitMayFail`). The commit is on the ref,
  the row ends up `failed` and the delegation goes back to a fresh attempt. It
  is not published twice: git finds nothing to merge, and the gates refuse an
  empty diff (`verifier.ts:147`).

Plans:

* *A step is never re-dispatched* (`scheduler.ts:323-326`): two `runPlan` calls
  that overlap dispatch a runnable step each. One claims it (`OneOwnerForGood`);
  the delegation of the other stays `queued` and a resync or boot runs it.
* A dispatch that fails writes `failed` over whatever the other call has made of
  the step (`DispatchFails`: `settlePlanStep` has no guard).
* *Will retry on the next settlement or resume* (`index.ts:62`): `processNext` of a
  hook may find the target occupied, or claim the row of another delegation;
  then nobody settles the step whose hook it was.
* Boot runs `resumeQueuedDelegations` before `resumeOpenPlans`
  (`index.ts:108-115`): a plan's delegation is run by a bare `runCycle`, nobody
  awaits it for the plan, and once accepted it has no chain.
* A dependency cycle of two or more steps passes `PlanSchema`, and a step after a
  failed one stays queued: such a plan is open for ever. `openPlans` returns 30
  plans and `listDelegations` 100 rows; what lies beyond is not resumed.

Workers and verification:

* The prune of a resync removes clean verification and integration checkouts
  that are in use, and a fresh worktree whose run is not recorded yet, together
  with its branch (`gitwt.ts:303-326`, `index.ts:125-143`): the keep set knows the
  session ids of recorded runs. `DirtyKept` says what it does not do.
* *The slot is not free until the provider run has actually ended*, *no child
  outlives the attempt unaccounted for* (`run-single.ts:106-109`, `224-226`): when the
  stream throws, `runSingle` only fires `void runner.stop()`. Run row, session and
  slot close while the child may still be there, and a replacement may run beside
  it (`StreamThrows`, `left`). `ChildAccounted` says what does hold: that child has
  been told to stop and its run is recorded as failed.
* A run whose stream throws after the deadline is recorded `failed`, not
  `timeout`, and has no ledger row. A verification that fails leaves its checkout
  behind.
* The zero-test patterns are not anchored (`verifier.ts:53`): "10 passed" contains
  "0 passed" (theorem `TensNeverPass`), while a runner without a known count passes.
* *The judge re-checks the requirements*: those that its report omits are not held
  against the candidate (`verifier.ts:364`), unlike those the worker's report omits.

Stream, outbox, book, debrief:

* *The next main tick picks up the backstop's escalation* (`index.ts:609-614`): that
  tick first upserts every active session with its own verdict
  (`supervisor.ts:162-170`, `store.ts:1100-1107`) and then looks for new flags.
* *Replay from the cursor without a race* (`index.ts:480-481`,
  `net.rs:377-378`): a live frame that arrives before the replay moves
  `last_cursor` past what the replay brings, which is then dropped; so does a gap
  of more than the 500 events of one replay. The client catches up
  (`CatchesUp`), but has not shown everything.
* *Transactional outbox* (`store.ts:174-176`): visibility rows are never
  delivered and stay among the 20 oldest, so 20 of them keep every event from
  being posted. `outbox` has fewer of them than its batch.
* *Unchanged inputs regenerate nothing, an idle team costs nothing*
  (`debrief-narrative.ts:11-14`, `266-268`): a trouble id contains the book row's
  `updated_at`, which every tick rewrites, so with any flagged session the hash
  changes every minute. And the sessions are hashed in the order of the book
  (`debrief.ts:248`, `ORDER BY updated_at DESC`, `store.ts:1154`), which each tick makes
  anew: when it visits them in another order the hash changes too. In both cases
  the narrative is shown as stale and regenerated though nothing happened.
  `NarrativeCatchesUp` therefore asks that nobody is flagged and that the order
  rests; without either TLC finds a counterexample.
* Only counts, flags and plans are hashed: when a session that worked and one that
  was idle change places, the hash stays and so does the unmarked narrative. Its
  prompt told nothing else (`narrativePrompt`), which is why
  `UnmarkedNarrativeIsTrue` can hold. Three details are told and not hashed: the
  number of undelivered events, plan titles, and the repository's name.
* A session that is no longer flagged stays in the trouble list through its old
  event until 50 newer events exist, and one that went from stuck to conflicted
  is listed twice. The outbox trouble's id depends on the newest row only.
* The two plan lists are fetched one after the other: a plan that moves between
  them is missed or listed twice (`Fetched`, `FetchInProgress`). A plan that links to
  one session by name appears under another one of the same repository.
* An empty or rambling answer of the hosted model is dropped; the local model is
  asked only when the hosted one fails.

## 4. Fairness

* Cycle and `processNext` steps, weakly fair: each awaits a git call (60 s
  timeout in `gitwt.ts`), a gate or judge with a deadline, or `runSingle` with
  `timeoutMs`. Pending calls of `runCycle` are microtasks.
* `Restart`: `keep-alive`. Crashes are bounded in number, so "ends up" is meant
  after the last one.
* Boot steps up to the resumed merges await bounded work. What follows, the resumed
  plans, does so if slots suffice; that is the premise of `ComesUp`, and it stands
  behind the fairness of the reconcile timer (`Sweep`) and of the cycle steps too.
* Requests, resync, cancels, foreign commits and sessions are never fair: nobody
  has to press a button.
* Poller, client reconnection (capped backoff) and socket reads: weakly fair.
* Outbox: the timer recurs, and a post that is made is answered eventually;
  failures are bounded.
* Plans: one weak fairness for all that the service does by itself (`Progress`): its
  work is finite, so it is enough that some of it goes on. Requests, cancels and
  crashes are outside.
* Attempt: the deadline's timer fires, and a runner that was told to stop ends its
  stream, awaited or left behind. Nothing else: in particular a worker need not ever finish.
* Debrief: tick steps and narrative pass recur, what they await has deadlines
  (the two of the narrative add up to less than its interval).
* Book: ticks and backstop recur; failing reads of `locks.db` and failing
  `git merge-tree` commands count against the bound on changes.

## 5. What is proved

Eight modules, every leaf checked by TLAPS.

| Module | Theorems |
|---|---|
| `SchedulerProofs` | all safety properties of `Scheduler` |
| `MergeQueueProofs` | all safety properties of `MergeQueue`; `TypeOK`, `PublishedAtMostOnce` and `RowNamesVerified`, which no run lists; `MergeQueue` implements `Publication` |
| `PointGuardProofs` | the service implements `Scheduler`, `MergeQueue` and `Publication`; a merged delegation is its last attempt's |
| `PlansProofs` | all safety properties of `Plans` |
| `AttemptProofs` | what the gates and the verdict are worth (`Verdict`); all safety properties of `Attempt` |
| `SupervisorProofs` | the safety properties of `Debrief` and of `Book` |
| `OutboxProofs`, `EventStreamProofs` | their safety properties |

Every safety invariant and every action property that a passing run lists is the
statement of a theorem, and so are the three refinements. (`StampIsKept` and
`EndedStaysGone` are named there through an instance of `Book`.)

### Scheduler

`SchedulerProofs` proves, for any set of
delegations, budgets from 1 to 3, any number of slots, pids and crashes:
`TypeOK`, `AttemptsBounded`, `BlockedMeansCapSpent`, `ActiveCycleOwnsState`,
`NoReplacementBesideWorker`, `AcceptedWasVerified`, `WorkerSlots`,
`LifecycleEdges`, `RunsStayTerminal`, and, assuming that the operating system
does not reuse the pid of an unfinished run, `RunningRunIsLive`.

The argument. Most of these are not inductive: that a requeue by the sweep does
not double a worker needs to know that the running run belongs to a cycle; that
an accepted candidate is the last one needs to know which attempt a suspended
verification works on. `IInv` adds, per delegation, `Consistent(d)`: what a cycle
suspended at each await may rely on (its row, its run, its report, its budget);
`QuietBoot`: until the boot resumes work there is no cycle, and until it has
resumed the merges no other call of `runCycle`, so recovery cannot meet a live one; and `RunsOwned`.
`InitIInv` and `NextIInv` prove it inductive, one step per action; every
theorem but `Slots` follows from it. `Slots` is an induction of its own over the
cardinality of `inFlight`, by the admission test of `runCycle`. The two action
properties use `IInv` for the states before the step.

Assumptions: those named in the modules (`DelegationsAssumption`,
`SchedulerAssumption`): finitely many delegations, `attemptLimit` in 1..3 as
`DelegationBriefSchema` has it, at least one slot.

### Merge queue and its promise

`MergeQueueProofs` holds for any number of delegations, targets, CAS tries, crashes
and foreign commits, with or without the live sweep, and with git commands that
die after their effect; `LandedRecorded` alone assumes `GitMayFail = FALSE`. The
properties are not inductive: that a publication overwrites nobody needs to know
that a suspended `processNext` still works on a row it claimed, that its merge
commit is built on the position it observed and that the delegation is not yet
below it. `IInv` adds

* `TableInv`: the table of the delegations, of which an accepted one has a report
  that was verified;
* `BootInv`: no request and no `processNext` before the boot resumes merges, so
  recovery does not meet a suspended call of its own process;
* `CandidateInv`: rows and requests name verified candidates;
* `SuspendedInv`: at each await, what the call relies on of its row, its
  observation and its checks;
* `LogInv`: who is on the ref was checked for that position;
* `SettledInv`: published rows are on the ref and merged ones published.

One lemma per conjunct says that each action preserves it. `RecordInv` extends it
for `LandedRecorded`: before the compare-and-swap nothing of the delegation is on
the ref. `KeepsThePromise` maps a commit to its writer, and shows for each
action that it appends at most one commit, checked at its position and
approved, or marks a delegation merged whose commit is there; everything else
stutters.

### The service

`PointGuardProofs` discharges what `Scheduler` and `MergeQueue` assume of each
other, for all values of the constants. To see that a step of one is a step the
other allows for, one has to know what the step finds: that a claim meets accepted
delegations one at a time follows from the merge queue's invariant, and that a
cycle which accepts has just reported is in the scheduler's. So the argument goes
round: the joint invariant

`IInv == SP!IInv /\ MP!IInv /\ MP!Numbered /\ OwnRuns /\ BootOrder /\ Latest`

holds initially; in a state where it holds, each step of the service is a step of
`Scheduler` (`StepsForScheduler`) and one of `MergeQueue` (`StepsForQueue`), stuttering
included; and the lemmas of `SchedulerProofs` and `MergeQueueProofs`, cited by name,
carry their parts of it over that step. Nothing about the parts is proved twice.
What neither part can say alone is in the rest:

* `Numbered`: the rows of the queue have distinct creation numbers, none above the
  number of rows, so `claimNextMerge` takes at most one entry per target (a step of
  the scheduler's specification begins one integration);
* `OwnRuns`: while a process lives, a running row carries its pid, so the sweep closes no
  run and moves no delegation under the merge processor;
* `BootOrder`: there is no cycle left when merges are resumed and nothing integrating
  before, so recovery of the one meets no work of the other;
* `Latest`: from the confirmation to the ref only the newest attempt's candidate is on
  its way.

`Latest` is what `MergedIsLatest` needs besides: the row of a merged delegation names
its last attempt, the commit at the row's position carries the row's candidate
(`LogInv`), and the run of that attempt succeeded (`Consistent`). It is a fact of
the composition only: the merge queue's own environment may start a new attempt of
any queued delegation, and the scheduler knows no rows.

TLC checked the joint invariant before it was proved, with the constants of
`pointguard` and with two delegations that share a target and a slot (one crash, one
attempt, one CAS try, no foreign commit).

### Debrief and book

`UnmarkedIsTrue` needs `Honest`: what a narrative tells is what can be read off the
hash it is filed under (`Told`). A hash determines the prompt (`HashTells`): counts,
order, flags, plans and troubles. The rewrite of a snapshot that changes the
timestamps in a hash (`Aged`) leaves alone what it tells (`AgedHash`), and a narrative
is stored under the hash of the very snapshot its prompt was made of. Nothing is
asked of the order in which ticks write the rows.

`StampStays` and `EndedStays` hold of `Book` for any number of overlapping ticks. The
invariant is that a stamp has a row; that a tick which read the sessions long ago may still
write the row of an ended one is allowed by `EndedStaysGone`, and that the next
tick removes it is liveness.

### Plans

For every plan, number of slots, submissions, crashes and resyncs. A step's
delegation is merged, when the step is done, because only two paths settle a step
as done, and both have just seen the state of its owner; that the owner is the
right one is `OwnerInv` (an owner is a dispatched delegation, owned once) with
`ChainInv` (every delegation that a chain, a hook or a ready callback will settle is
owned by a step) and `CallsInv` (what a suspended `runPlan` has still to dispatch has
its dependencies merged, and its baseline sees them). `ClaimInv` ties the row in
flight to its delegation.

### Verdict and attempt

`GateCoversEveryChange`, `EligibleIsComplete` and `TensNeverPass` are facts about the pure
functions: a commit without a failure in the diff gates changes only files in
scope and unprotected ones, renames included; eligibility is complete as far as
the worker's report goes. `AttemptProofs` carries them through the
interleaving: `EvidenceOfAttempt` says at each await which pieces of evidence are of
the current attempt and what has been established of the tree; `CycleOwns` that the
cycle's row, run and child agree, `LeftBehind` what is known of a child whose stream threw; `SessionsKnown` what is known of the session rows;
`PruneHasChosen` that a pass which is about to remove a worktree has chosen one
(its status may be out of date by then; git looks again and refuses a dirty one).

### Event stream and outbox

`ShownInOrder` is inductive with the types, since the cursor is the last event
shown. `DeliveredWasAccepted` needs `AnswerIsForHead`: an answer under way is for
the first event of its batch.

Assumptions: the named ones of each module (finite sets, budgets as the schema
has them, limits at least one, glob scopes as sets of paths). They state what
the constants are; none is about the behaviour.

Only model-checked: all liveness (`SlotReleased`, `ComesUp`, `TargetSlotFreed`, `CatchesUp`,
`EventsDelivered`, `EndedDisappears`, `ContendedIsAnnounced`, `StepsSettle`, `WorkerEnds`,
`NarrativeCatchesUp`), which rests on fairness and so on ENABLED and is out of the
proof system's reach. The two counterexamples of section 3 are TLC's as well.

## 6. Assumptions of the models

* A worker's child process dies with the service process. `reconcileOnStartup`
  assumes the same; it does not signal old pids.
* Other writers of a target ref only fast-forward it.
* Queue rows have distinct creation times; one confirm-merge request per
  delegation is pending at a time.
* Row limits of list queries (30 plans, 100 delegations, 50 events) are not
  reached, except where a module has them as constants.
* In `Scheduler`, `runCycle` is called by `POST /delegations`, resync and boot; the
  plan chains, which call it too, are in `Plans`. `Plans` has one plan, whose steps
  share a target; an operator's confirm-merge and a `processNext` that throws are in
  `MergeQueue`.
* `Attempt`: a runner sends events until it ends or throws; git finds renames of
  equal content only; a check's output is a count or nothing.
* `Verdict`: `git show` answers. One that fails hashes like an absent file
  (`gitwt.ts:163-167`), so a protected file that could not be read at both looks would
  pass as unchanged.
* `Plans`: a resync does not start while another pass of the kind is under way.
* `Debrief`: an event in the trouble list is its kind and session (its id also has the
  time it was written, so a second one of the same kind changes the hash), and the list
  does not reach `TROUBLE_CAP`. Ticks do not overlap and read their sources in one step (`Book` has the
  races of the book's writers); a hash is the content it is computed from.
* An event is its cursor, a candidate its attempt number, a commit its position,
  a flag its reason.
* The merge-tree backstop has one run at a time; sessions share one repository.

## 7. Not modelled

* Stuck detection: a comparison of hashes and counts over a list of tool calls,
  without state. `Book` takes its verdict as input.
* Recursion gate: one comparison of an environment variable.
* Messages, compaction, credentials: one model call over a snapshot, no state
  between calls. Tools, web and web server: stateless proxies and rendering.
  Panes and keys of the terminal client. `notify`: one external command.
* Conversations, memory, chat and the ledger in `store.ts`: appends and reads.
* Wording, caps and next actions of the debrief; the prompts; glob syntax.

## 8. Plan

Done, in this order: `Delegations`, `Scheduler`, `MergeQueue`, `Publication`,
`PointGuard`, `SchedulerProofs`, `EventStream`, `Outbox`, `Book`; then `Plans`, `Verdict`,
`Attempt`, `Debrief`, and the proofs about `MergeQueue`, `Publication`, `Plans`,
`Verdict`, `Attempt`, `EventStream` and `Outbox`; then `PointGuardProofs` and
`SupervisorProofs`.

Left, for whoever goes on:

1. The safety part of the liveness arguments as invariants: what makes each of the
   fair steps possible (that a suspended cycle or `processNext` always has a next step,
   that a boot phase is never stuck), short of ENABLED itself.
2. `Attempt` as an implementation of the attempt that `Scheduler` abstracts (its
   `WorkerEnds`, `ArtifactConfirmed`, `CandidateEligible`), by a refinement mapping.
3. `Plans` with two plans on two targets, and with `MergeQueue` in place of its
   reduced queue.
4. `evaluateStuck` as operators against a reference definition.
