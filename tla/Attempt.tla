------------------------------ MODULE Attempt ------------------------------
(* The attempts of one delegation, seen from the inside: the worker's run    *)
(* (src/worker.ts executeAttempt over src/run-single.ts runSingle), its      *)
(* records, the verification of what it claims (src/verifier.ts) and the     *)
(* worktrees all this leaves on disk (src/gitwt.ts), while a prune pass      *)
(* (POST /admin/resync or the boot) walks the same worktrees and the process *)
(* may die. An action runs from one await to the next.                       *)
(*                                                                           *)
(* Abstractions: slots, other delegations and the merge queue are modules    *)
(* Scheduler and MergeQueue, of which the moves on this delegation remain.   *)
(* The runner sends events until it ends or throws; of an event the model    *)
(* keeps what runSingle keeps. A worker is a child of the process and dies   *)
(* with it; one that a thrown stream leaves behind works on in the worktree  *)
(* of its attempt, of which only "dirty" matters then. A pause after a       *)
(* session that was never projected is no await: the process may be killed   *)
(* there all the same.                                                       *)
EXTENDS Verdict, FiniteSets

CONSTANTS
    Commit,         \* what a commit is to the gates: see module Verdict
    Tree,           \* states a worker may bring its worktree to
    Report,         \* reports a worker may return: the claim and its lines
    Judgement,      \* reports a judge may return
    Ran,            \* what the acceptance checks may do
    Unresolved,     \* a claimed SHA that is no commit
    attemptLimit,
    MaxFaults       \* bound on deaths, prune passes and failed writes to session
                    \* store and telemetry, together

ASSUME AttemptAssumption ==
    /\ baseline \in Commit
    /\ Tree \subseteq [head : Commit, onBranch : BOOLEAN, clean : BOOLEAN]
    /\ \A r \in Report : r.lines \subseteq Requirement \X Status
    /\ attemptLimit \in 1..3
    /\ MaxFaults \in Nat

VARIABLES
    dstate, attempts,
    reason,     \* the attempt whose outcome delegations.reason tells, 0: NULL
    told,       \* the evidence in the worker's prompt, and the attempts it is from
    pc,         \* where the cycle is suspended
    run,        \* runs.state by attempt
    session,    \* the session row of the attempt in the session store
    projected,  \* sessionCreated
    ledger,     \* attempts on the ledger
    gaps,       \* outbox rows that record a failed write, by attempt
    died,       \* attempts during which the process died
    stream,     \* runSingle: the child, the timer and what the events said
    left,       \* by attempt, the child that a thrown stream has left behind
    tree,       \* the worktree of the current attempt
    report,     \* outcome.report
    failures,   \* the mechanical verdict while the judge works
    evidence,   \* newest evidence row of each kind
    worktrees,  \* git's registry
    dirty,      \* those with uncommitted or untracked files
    prune,      \* the prune pass under way
    up,
    passes      \* deaths and prune passes so far

delegation == <<dstate, attempts, reason, told>>
records == <<run, session, projected, ledger, gaps>>
verification == <<report, failures, evidence>>
disk == <<worktrees, dirty>>
process == <<up, passes, died, left>>
vars == <<delegation, pc, records, stream, tree, verification, disk, prune, process>>

Attempts == 1..attemptLimit
NoStream == [child |-> "none", timedOut |-> FALSE, known |-> FALSE, payload |-> "invalid"]
NoPass == [stage |-> "idle", keep |-> {}, todo |-> {}]
NoReport == [claim |-> Unresolved, lines |-> {}]
NoEvidence == [report |-> [n |-> 0], mechanical |-> [n |-> 0], judge |-> [n |-> 0]]
work(k) == <<"work", k>>        \* named by the session id
verify(k) == <<"verify", k>>    \* pg-verify-<id>-a<k>
At == attempts

TypeOK ==
    /\ dstate \in {"queued", "running", "verifying", "accepted", "merged", "blocked", "cancelled"}
    /\ attempts \in 0..attemptLimit /\ reason \in 0..attemptLimit
    /\ told \subseteq {"reason", "mechanical", "judge"} \X Attempts
    /\ pc \in {"none", "creating", "naming", "projecting", "working", "registering", "ending",
               "confirming", "checkout", "gates", "judging", "cleanup"}
    /\ run \in [Attempts -> {"none", "running", "succeeded", "failed", "timeout", "unknown"}]
    /\ session \in [Attempts -> {"none", "running", "ended"}]
    /\ projected \in BOOLEAN
    /\ ledger \subseteq Attempts /\ died \subseteq Attempts
    /\ gaps \subseteq {"create", "provider", "telemetry", "end"} \X Attempts
    /\ stream \in [child : {"none", "running", "stopping"}, timedOut : BOOLEAN,
                   known : BOOLEAN, payload : {"invalid", "valid", "error"}]
    /\ left \in [Attempts -> {"none", "running", "stopping"}]
    /\ tree \in Tree /\ report \in Report \cup {NoReport}
    /\ worktrees \subseteq {"work", "verify"} \X Attempts /\ dirty \subseteq worktrees
    /\ prune.stage \in {"idle", "listing", "walking", "removing"}
    /\ up \in BOOLEAN /\ passes \in 0..MaxFaults

Init ==
    /\ dstate = "queued" /\ attempts = 0 /\ reason = 0 /\ told = {}
    /\ pc = "none"
    /\ run = [k \in Attempts |-> "none"] /\ session = [k \in Attempts |-> "none"]
    /\ projected = FALSE /\ ledger = {} /\ gaps = {} /\ died = {}
    /\ stream = NoStream /\ left = [k \in Attempts |-> "none"]
    /\ tree = [head |-> baseline, onBranch |-> TRUE, clean |-> TRUE]
    /\ report = NoReport /\ failures = {} /\ evidence = NoEvidence
    /\ worktrees = {} /\ dirty = {}
    /\ prune = NoPass
    /\ up = TRUE /\ passes = 0

(* settleFailure: back to the queue, or blocked at the cap.                  *)
SettleFailure ==
    /\ dstate' = IF attempts >= attemptLimit THEN "blocked" ELSE "queued"
    /\ reason' = attempts
    /\ pc' = "none"
    /\ UNCHANGED <<attempts, told>>

Room(rows) == Cardinality(rows) + passes < MaxFaults

(* enqueueOutbox for a failed write, if the bound leaves room for it.        *)
Gap(kind, rows) == Room(rows) /\ gaps' = rows \cup {<<kind, At>>}

-----------------------------------------------------------------------------
(* runCycle and executeCycle up to the first await.                          *)

(* distilledFailure, for a row whose reason is r.                            *)
DistilledFailure(r) ==
    LET tells(kind, says) == IF says THEN {<<kind, evidence[kind].n>>} ELSE {}
    IN  (IF r # 0 THEN {<<"reason", r>>} ELSE {})
        \cup tells("mechanical", evidence.mechanical.n # 0
                                 /\ evidence.mechanical.failures # {})
        \cup tells("judge", evidence.judge.n # 0 /\ \E f \in evidence.judge.report.findings :
                                                      f.severity \in {"BLOCKER", "MAJOR"})

(* The transition to running is written without a reason, which clears it.   *)
RunCycle ==
    /\ up /\ pc = "none" /\ dstate = "queued"
    /\ \/ /\ attempts >= attemptLimit
          /\ dstate' = "blocked" /\ reason' = attempts
          /\ UNCHANGED <<attempts, told, pc>>
       \/ /\ attempts < attemptLimit
          /\ dstate' = "running" /\ reason' = 0
          /\ attempts' = attempts + 1
          /\ told' = DistilledFailure(reason')
          /\ pc' = "creating"
    /\ UNCHANGED <<records, stream, tree, verification, disk, prune, process>>

-----------------------------------------------------------------------------
(* executeAttempt.                                                           *)

CreateWorktree ==
    /\ pc = "creating"
    /\ worktrees' = worktrees \cup {work(At)}
    /\ tree' = [head |-> baseline, onBranch |-> TRUE, clean |-> TRUE]
    /\ pc' = "naming"   \* ps, for the start time of the process
    /\ UNCHANGED <<delegation, records, stream, verification, dirty, prune, process>>

InfraFailure ==
    /\ pc = "creating"
    /\ SettleFailure
    /\ UNCHANGED <<records, stream, tree, verification, disk, prune, process>>

CreateRun ==
    /\ pc = "naming"
    /\ run' = [run EXCEPT ![At] = "running"]
    /\ projected' = FALSE
    /\ pc' = "projecting"
    /\ UNCHANGED <<delegation, session, ledger, gaps, stream, tree, verification, disk, prune,
                   process>>

(* Sessions.create; a failure may be one of the answer only. Either way the  *)
(* worker starts, and with it the timer.                                     *)
ProjectSession ==
    /\ pc = "projecting"
    /\ \/ /\ session' = [session EXCEPT ![At] = "running"]
          /\ projected' = TRUE /\ UNCHANGED gaps
       \/ /\ Gap("create", gaps)
          /\ \E s \in {"none", "running"} : session' = [session EXCEPT ![At] = s]
          /\ UNCHANGED projected
    /\ stream' = [NoStream EXCEPT !.child = "running"]
    /\ pc' = "working"
    /\ UNCHANGED <<delegation, run, ledger, tree, verification, disk, prune, process>>

Says(s) ==
    /\ stream.child # "none"
    /\ stream' = s
    /\ UNCHANGED <<delegation, pc, records, tree, verification, disk, prune, process>>

(* The events that decide how the run ends. The last result event, or        *)
(* failing that the texts, hold what will pass validation or what will not;  *)
(* an error, in a result event or of its own, stays.                         *)
InitEvent == Says([stream EXCEPT !.known = TRUE])
ResultEvent ==
    \E p \in {"valid", "invalid"} :
        Says([stream EXCEPT !.payload = IF @ = "error" THEN @ ELSE p])
ErrorEvent == Says([stream EXCEPT !.payload = "error"])

(* Mutant: the deadline settles the run by itself.                           *)
DeadlineSettles ==
    /\ stream.child = "running"
    /\ stream' = [stream EXCEPT !.timedOut = TRUE, !.child = "stopping"]
    /\ run' = [run EXCEPT ![At] = "timeout"]
    /\ UNCHANGED <<delegation, pc, session, projected, ledger, gaps, tree, verification, disk,
                   prune, process>>

(* The timer: abort, and stop the runner; the child is still there.          *)
Deadline ==
    /\ stream.child = "running"
    /\ Says([stream EXCEPT !.timedOut = TRUE, !.child = "stopping"])

(* The worker works: what it commits or leaves uncommitted.                  *)
WorkerWorks ==
    /\ stream.child # "none" /\ work(At) \in worktrees
    /\ tree' \in Tree
    /\ dirty' = IF tree'.clean THEN dirty \ {work(At)} ELSE dirty \cup {work(At)}
    /\ UNCHANGED <<delegation, pc, records, stream, verification, worktrees, prune, process>>

Succeeded == ~stream.timedOut /\ stream.payload = "valid"

(* What follows the stream without an await: telemetry, the ledger and the   *)
(* end of the run. A report that one schema takes and the other does not     *)
(* fails the run.                                                            *)
Record(rows) ==
    /\ gaps' = rows \/ Gap("telemetry", rows)
    /\ ledger' = ledger \cup {At}
    /\ \E o \in IF stream.timedOut THEN {"timeout"}
                ELSE IF Succeeded THEN {"succeeded", "failed"} ELSE {"failed"} :
         run' = [run EXCEPT ![At] = o]
    /\ IF run'[At] = "succeeded" THEN report' \in Report ELSE report' = NoReport
    /\ stream' = NoStream
    /\ pc' = "ending"

(* The stream ends, and the timer is cleared.                                *)
StreamEnds ==
    /\ pc = "working"
    /\ \/ /\ ~stream.known
          /\ Record(gaps)
       \/ /\ stream.known
          /\ stream' = [stream EXCEPT !.child = "none"]
          /\ pc' = "registering"
          /\ UNCHANGED <<run, ledger, gaps, report>>
    /\ UNCHANGED <<delegation, session, projected, tree, failures, evidence, disk, prune, process>>

(* It throws: no usage and no ledger row, even after the deadline. The       *)
(* runner is told to stop, but nobody waits for that: the attempt is over,   *)
(* and the child may still be there.                                         *)
StreamThrowsLeaving(children) ==
    /\ pc = "working"
    /\ run' = [run EXCEPT ![At] = "failed"]
    /\ report' = NoReport
    /\ stream' = NoStream
    /\ \E c \in children : left' = [left EXCEPT ![At] = c]
    /\ pc' = "ending"
    /\ UNCHANGED <<delegation, session, projected, ledger, gaps, tree, failures, evidence, disk,
                   prune, up, passes, died>>

(* Mutant: only the timer stops the runner, and it has just been cleared.    *)
StreamThrowsUnstopped == StreamThrowsLeaving({"none", "running"})

StreamThrows == StreamThrowsLeaving({"none", "stopping"})

(* The child that was left behind works on until it has stopped.             *)
LeftBehindWorks(k) ==
    /\ left[k] # "none" /\ work(k) \in worktrees
    /\ dirty' \in {dirty \cup {work(k)}, dirty \ {work(k)}}
    /\ UNCHANGED <<delegation, pc, records, stream, tree, verification, worktrees, prune, process>>

LeftBehindEnds(k) ==
    /\ left[k] # "none"
    /\ left' = [left EXCEPT ![k] = "none"]
    /\ UNCHANGED <<delegation, pc, records, stream, tree, verification, disk, prune, up, passes,
                   died>>

(* ProviderSessions.create, for failed runs too.                             *)
RegisterProviderSession ==
    /\ pc = "registering"
    /\ \/ Record(gaps)
       \/ Room(gaps) /\ Record(gaps \cup {<<"provider", At>>})
    /\ UNCHANGED <<delegation, session, projected, tree, failures, evidence, disk, prune, process>>

(* Back in executeCycle: verify, or settle.                                  *)
Return ==
    \/ /\ run[At] = "succeeded"
       /\ dstate' = "verifying" /\ reason' = 0 /\ pc' = "confirming"
       /\ UNCHANGED <<attempts, told>>
    \/ run[At] # "succeeded" /\ SettleFailure

(* Mutant: the session of a failed attempt is not ended.                     *)
EndSucceededSession ==
    /\ pc = "ending"
    /\ session' = [session EXCEPT ![At] = IF projected /\ run[At] = "succeeded"
                                          THEN "ended" ELSE @]
    /\ Return
    /\ UNCHANGED <<run, projected, ledger, gaps, stream, tree, verification, disk, prune, process>>

(* finally: Sessions.end, if this attempt created the row.                   *)
EndSession ==
    /\ pc = "ending"
    /\ \/ /\ projected
          /\ session' = [session EXCEPT ![At] = "ended"]
          /\ UNCHANGED gaps
       \/ /\ projected /\ Gap("end", gaps)
          /\ UNCHANGED session
       \/ ~projected /\ UNCHANGED <<session, gaps>>
    /\ Return
    /\ UNCHANGED <<run, projected, ledger, stream, tree, verification, disk, prune, process>>

-----------------------------------------------------------------------------
(* Verification. Nobody works in the worktree any more, so the four reads of *)
(* confirmArtifact are one step; a prune pass may have removed it.           *)

(* Mutant: the claim is taken for the evidence.                              *)
ClaimFailures == IF report.claim = Unresolved THEN {"unresolved"} ELSE {}

ConfirmFailures ==
    IF report.claim = Unresolved \/ work(At) \notin worktrees THEN {"unresolved"}
    ELSE ArtifactFailures(report.claim, tree)

ArtifactRefused ==
    /\ pc = "confirming" /\ ConfirmFailures # {}
    /\ evidence' = [evidence EXCEPT !.mechanical = [n |-> At, failures |-> ConfirmFailures]]
    /\ SettleFailure
    /\ UNCHANGED <<records, stream, tree, report, failures, disk, prune, process>>

ArtifactConfirmed ==
    /\ pc = "confirming" /\ ConfirmFailures = {}
    /\ evidence' = [evidence EXCEPT !.report =
                      [n |-> At, sha |-> report.claim, lines |-> report.lines]]
    /\ pc' = "checkout"
    /\ UNCHANGED <<delegation, records, stream, tree, report, failures, disk, prune, process>>

CheckOut ==
    /\ pc = "checkout"
    /\ worktrees' = worktrees \cup {verify(At)}
    /\ pc' = "gates"
    /\ UNCHANGED <<delegation, records, stream, tree, verification, dirty, prune, process>>

(* runMechanicalGates. The checks run in the checkout, where they may leave  *)
(* files; if it is gone, none of them can start.                             *)
RunGates ==
    /\ pc = "gates"
    /\ \/ /\ verify(At) \in worktrees
          /\ \E ran \in Ran : failures' = DiffFailures(report.claim) \cup FailedChecks(ran)
          /\ dirty' \in {dirty, dirty \cup {verify(At)}}
       \/ /\ verify(At) \notin worktrees
          /\ failures' = DiffFailures(report.claim) \cup Check
          /\ UNCHANGED dirty
    /\ pc' = "judging"
    /\ UNCHANGED <<delegation, records, stream, tree, report, evidence, worktrees, prune, process>>

(* runJudge: a report that passes validation, or none.                       *)
JudgeOutcome == {{}} \cup {{j} : j \in Judgement}

(* The judge is asked whatever the gates said; then the evidence is recorded *)
(* and the candidate accepted or the attempt settled.                        *)
Judge ==
    /\ pc = "judging"
    /\ \E judge \in JudgeOutcome :
         /\ evidence' =
              [evidence EXCEPT !.mechanical = [n |-> At, failures |-> failures],
                               !.judge = IF judge = {} THEN @
                                         ELSE [n |-> At, report |-> CHOOSE j \in judge : TRUE]]
         /\ \/ /\ Eligible(report.lines, failures, judge)
               /\ dstate' = "accepted" /\ reason' = At /\ pc' = "cleanup"
               /\ UNCHANGED <<attempts, told>>
            \/ ~Eligible(report.lines, failures, judge) /\ SettleFailure
    /\ failures' = {} /\ report' = NoReport
    /\ UNCHANGED <<records, stream, tree, disk, prune, process>>

(* A git call throws: nothing is settled.                                    *)
VerificationThrows ==
    /\ pc \in {"confirming", "checkout", "gates", "judging"}
    /\ pc' = "none"
    /\ UNCHANGED <<delegation, records, stream, tree, verification, disk, prune, process>>

(* Mutant: worktree remove --force.                                          *)
RemoveForced(w) == worktrees' = worktrees \ {w} /\ dirty' = dirty \ {w}

(* git worktree remove: never with --force, so git refuses a dirty one.      *)
Remove(w) ==
    /\ worktrees' = IF w \in dirty THEN worktrees ELSE worktrees \ {w}
    /\ UNCHANGED dirty

(* removeWorktreeSafe on the checkout; the worker's worktree stays.          *)
Cleanup ==
    /\ pc = "cleanup"
    /\ IF verify(At) \in worktrees \ dirty THEN Remove(verify(At)) ELSE UNCHANGED disk
    /\ pc' = "none"
    /\ UNCHANGED <<delegation, records, stream, tree, verification, prune, process>>

-----------------------------------------------------------------------------
(* pruneStartupWorktrees, on a boot or a resync. Another delegation may make *)
(* the repository active, so it comes to settled delegations as well.        *)

LiveWorktreeSessionIds ==
    IF dstate \in {"merged", "cancelled"} THEN {} ELSE {k \in Attempts : run[k] # "none"}

PruneStep(p) ==
    /\ prune' = p
    /\ UNCHANGED <<delegation, pc, records, stream, tree, verification, up, died, left>>

BeginPrune ==
    /\ up /\ prune.stage = "idle" /\ Room(gaps)
    /\ passes' = passes + 1
    /\ PruneStep([stage |-> "listing", keep |-> LiveWorktreeSessionIds, todo |-> {}])
    /\ UNCHANGED disk

ListWorktrees ==
    /\ prune.stage = "listing"
    /\ PruneStep([prune EXCEPT !.stage = "walking",
                               !.todo = worktrees \ {work(k) : k \in prune.keep}])
    /\ UNCHANGED <<disk, passes>>

(* git status on the next entry, then git worktree remove if it is clean.    *)
ReadStatus ==
    /\ prune.stage = "walking"
    /\ \/ prune.todo = {} /\ PruneStep(NoPass)
       \/ \E w \in prune.todo :
            PruneStep(IF w \in worktrees \ dirty
                      THEN [stage |-> "removing", keep |-> {w}, todo |-> prune.todo \ {w}]
                      ELSE [prune EXCEPT !.todo = @ \ {w}])
    /\ UNCHANGED <<disk, passes>>

RemoveWorktree ==
    /\ prune.stage = "removing"
    /\ \A w \in prune.keep : Remove(w)
    /\ PruneStep([prune EXCEPT !.stage = "walking", !.keep = {}])
    /\ UNCHANGED passes

-----------------------------------------------------------------------------
(* The merge processor publishes the candidate, or returns the delegation    *)
(* for a fresh attempt; the operator cancels.                                *)
Integrate ==
    /\ up /\ dstate = "accepted"
    /\ dstate' \in {"merged", "queued"} /\ reason' = attempts
    /\ UNCHANGED <<attempts, told, pc, records, stream, tree, verification, disk, prune, process>>

Cancel ==
    /\ up /\ dstate \in {"queued", "blocked"}
    /\ dstate' = "cancelled" /\ reason' = 0
    /\ UNCHANGED <<attempts, told, pc, records, stream, tree, verification, disk, prune, process>>

(* The process dies, and the workers with it; tables and worktrees stay.      *)
Crash ==
    /\ up /\ Room(gaps)
    /\ up' = FALSE /\ passes' = passes + 1
    /\ died' = IF pc = "none" THEN died ELSE died \cup {At}
    /\ pc' = "none" /\ stream' = NoStream /\ prune' = NoPass
    /\ left' = [k \in Attempts |-> "none"]
    /\ report' = NoReport /\ failures' = {}
    /\ UNCHANGED <<delegation, records, tree, evidence, disk>>

(* reconcileOnStartup: open runs are unknown, and so is what they cost.      *)
Restart ==
    /\ ~up
    /\ up' = TRUE
    /\ LET open == {k \in Attempts : run[k] = "running"} IN
         /\ run' = [k \in Attempts |-> IF k \in open THEN "unknown" ELSE run[k]]
         /\ ledger' = ledger \cup open
         /\ IF open # {} /\ dstate \in {"running", "verifying"}
            THEN SettleFailure ELSE UNCHANGED <<delegation, pc>>
    /\ UNCHANGED <<session, projected, gaps, stream, tree, verification, disk, prune, passes,
                   died, left>>

AttemptStep ==
    \/ RunCycle \/ CreateWorktree \/ InfraFailure \/ CreateRun \/ ProjectSession
    \/ InitEvent \/ ResultEvent \/ ErrorEvent \/ Deadline \/ WorkerWorks
    \/ StreamEnds \/ StreamThrows \/ RegisterProviderSession \/ EndSession

VerifyStep ==
    \/ ArtifactRefused \/ ArtifactConfirmed \/ CheckOut \/ RunGates \/ Judge
    \/ VerificationThrows \/ Cleanup

LeftBehindStep == \E k \in Attempts : LeftBehindWorks(k) \/ LeftBehindEnds(k)

Next ==
    \/ AttemptStep \/ LeftBehindStep \/ VerifyStep
    \/ BeginPrune \/ ListWorktrees \/ ReadStatus \/ RemoveWorktree
    \/ Integrate \/ Cancel \/ Crash \/ Restart

(* The timer fires, and a runner that was told to stop ends its stream, or,  *)
(* if that has thrown, its child: the contract that runSingle relies on.     *)
Fairness ==
    /\ WF_vars(Deadline)
    /\ WF_vars(stream.child = "stopping" /\ (StreamEnds \/ StreamThrows))
    /\ \A k \in Attempts : WF_vars(left[k] = "stopping" /\ LeftBehindEnds(k))

Spec == Init /\ [][Next]_vars /\ Fairness

-----------------------------------------------------------------------------
(* Properties.                                                               *)

(* What is accepted is one commit, of this attempt, that the worker left as  *)
(* the clean tip of its branch, that changes files, all of them in scope and *)
(* none of them protected, on which every check passed, and for which worker *)
(* and judge answer; no piece of the evidence is of an earlier attempt.      *)
AcceptedIsProven ==
    dstate \in {"accepted", "merged"} =>
        LET c == evidence.report.sha
        IN  /\ run[At] = "succeeded"
            /\ {evidence[kind].n : kind \in {"report", "mechanical", "judge"}} = {At}
            /\ tree = [head |-> c, onBranch |-> TRUE, clean |-> TRUE]
            /\ c.descends /\ Changed(c) # {} /\ ~c.oversized
            /\ Changed(c) \subseteq fileScope \ protectedFiles
            /\ evidence.mechanical.failures = {}
            /\ \A r \in mandatory : <<r, "IMPLEMENTED">> \in evidence.report.lines
            /\ evidence.judge.report.verdict = "ACCEPT"
            /\ \A l \in evidence.judge.report.lines : l[1] \in mandatory => l[2] = "IMPLEMENTED"

(* The children of the attempts: the one that runSingle waits for, and those *)
(* that thrown streams have left behind.                                     *)
Child(k) == (k = At /\ stream.child # "none") \/ left[k] # "none"

(* "So no child outlives the attempt unaccounted for" (runSingle): a child   *)
(* is that of the attempt the cycle waits for, whose run is open, whatever   *)
(* the timer did; or its run is recorded as failed and it has been told to   *)
(* stop. So nobody works on what is being verified.                          *)
ChildAccounted ==
    \A k \in Attempts : Child(k) =>
        \/ k = At /\ run[k] = "running" /\ pc = "working" /\ dstate = "running"
        \/ run[k] = "failed" /\ left[k] = "stopping"

(* "The row must not look alive after the attempt" (executeAttempt): a       *)
(* session that looks alive belongs to the attempt under way, or the outbox  *)
(* says why, or the process died with it and the reaper's pid test applies.  *)
SessionAccounted ==
    \A k \in Attempts : session[k] = "running" =>
        \/ k = At /\ pc \in {"working", "registering", "ending"}
        \/ <<"create", k>> \in gaps \/ <<"end", k>> \in gaps
        \/ k \in died

(* "Never forced" (pruneOrphanedWorktrees): no step, of a prune pass that    *)
(* looked a moment ago or of a cleanup, removes uncommitted work.            *)
DirtyKept == [][\A w \in worktrees \ worktrees' : w \notin dirty]_vars

(* A worker does not outlive its deadline for good, nor, if its stream       *)
(* throws before that and clears the timer, its attempt.                     *)
WorkerEnds == \A k \in Attempts : Child(k) ~> ~Child(k)

(* "The distilled failure summary for the NEXT fresh attempt": a worker that *)
(* starts after a failed attempt is told something of how that one ended.    *)
RetryIsTold ==
    pc = "working" /\ At > 1 => \E fact \in told : fact[2] = At - 1

=============================================================================
