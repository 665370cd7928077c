--------------------------- MODULE AttemptProofs ---------------------------
(* Proofs about module Attempt, for any brief, commits, reports and number   *)
(* of faults; first, what the decisions of src/verifier.ts (module Verdict)   *)
(* are worth, for every brief, commit and report.                            *)
EXTENDS Attempt, TLAPS

-----------------------------------------------------------------------------
(* What git says of a path: it is the one path of an entry of the delta, or  *)
(* one of the two of a rename.                                               *)
LEMMA DeltaCovers ==
    ASSUME NEW commit, NEW p \in Changed(commit)
    PROVE  \E c \in EnumerateDelta(commit) : p \in {c.path, c.oldPath}
<1>1. CASE \E r \in Renames(commit) : p = r[1] \/ p = r[2]
  <2>1. PICK r \in Renames(commit) : p = r[1] \/ p = r[2]
    BY <1>1
  <2>2. [path |-> r[2], oldPath |-> r[1]] \in EnumerateDelta(commit)
    BY DEF EnumerateDelta
  <2> QED BY <2>1, <2>2
<1>2. CASE ~\E r \in Renames(commit) : p = r[1] \/ p = r[2]
  <2>1. [path |-> p, oldPath |-> p] \in EnumerateDelta(commit)
    BY <1>2 DEF EnumerateDelta
  <2> QED BY <2>1
<1> QED BY <1>1, <1>2

(* A commit that the diff gates of runMechanicalGates let through changes    *)
(* something, and everything it changes, by renaming too, is in the scope    *)
(* and not protected.                                                        *)
THEOREM GateCoversEveryChange ==
    ASSUME NEW commit, DiffFailures(commit) = {}
    PROVE  /\ Changed(commit) # {}
           /\ Changed(commit) \subseteq fileScope \ protectedFiles
           /\ ~commit.oversized
<1>1. EnumerateDelta(commit) # {} /\ OutOfScope(EnumerateDelta(commit)) = {}
      /\ Tampered(commit) = {} /\ ~commit.oversized
  <2>1. /\ ~("empty" \in DiffFailures(commit)) /\ ~("scope" \in DiffFailures(commit))
        /\ ~("protected" \in DiffFailures(commit)) /\ ~("truncated" \in DiffFailures(commit))
    OBVIOUS
  <2> QED BY <2>1 DEF DiffFailures
<1>2. Changed(commit) # {}
  BY <1>1 DEF EnumerateDelta, Renames
<1>3. ASSUME NEW p \in Changed(commit) PROVE p \in fileScope
  <2>1. PICK c \in EnumerateDelta(commit) : p \in {c.path, c.oldPath}
    BY DeltaCovers
  <2> QED BY <1>1, <2>1 DEF OutOfScope
<1>4. ASSUME NEW p \in Changed(commit) PROVE p \notin protectedFiles
  BY <1>1 DEF Tampered, Changed, protectedFileHashes
<1> QED BY <1>1, <1>2, <1>3, <1>4

(* A candidate is eligible only on a report that calls every mandatory       *)
(* requirement implemented and none of them anything else, without a failed  *)
(* gate, and if a judge answered ACCEPT without contradicting either.        *)
THEOREM EligibleIsComplete ==
    ASSUME NEW lines, NEW mechanicalFailures, NEW judge,
           lines \subseteq Requirement \X Status,
           Eligible(lines, mechanicalFailures, judge)
    PROVE  /\ mechanicalFailures = {}
           /\ \A r \in mandatory :
                /\ <<r, "IMPLEMENTED">> \in lines
                /\ \A l \in lines : l[1] = r => l[2] = "IMPLEMENTED"
           /\ \E j \in judge :
                /\ j.verdict = "ACCEPT"
                /\ \A l \in j.lines : l[1] \in mandatory => l[2] = "IMPLEMENTED"
<1>1. mechanicalFailures = {} /\ Unmet(lines) = {} /\ Unreported(lines) = {} /\ JudgeAccepts(judge)
  BY DEF Eligible
<1>2. ASSUME NEW r \in mandatory
      PROVE  /\ <<r, "IMPLEMENTED">> \in lines
             /\ \A l \in lines : l[1] = r => l[2] = "IMPLEMENTED"
  <2>1. \A l \in lines : l[1] = r => l[2] = "IMPLEMENTED"
    BY <1>1 DEF Unmet
  <2>2. PICK l \in lines : l[1] = r
    BY <1>1 DEF Unreported
  <2>3. l = <<r, "IMPLEMENTED">>
    BY <2>1, <2>2
  <2> QED BY <2>1, <2>2, <2>3
<1>3. \E j \in judge : /\ j.verdict = "ACCEPT"
                       /\ \A l \in j.lines : l[1] \in mandatory => l[2] = "IMPLEMENTED"
  BY <1>1 DEF JudgeAccepts, Unmet
<1> QED BY <1>1, <1>2, <1>3

(* A check that must run tests and says that it ran none never passes; nor,  *)
(* the pattern being unanchored, does one that ran any multiple of ten.      *)
THEOREM TensNeverPass ==
    ASSUME NEW check \in expectTests, NEW ran, NEW n \in Nat, ran.output = 10 * n
    PROVE  ~Passes(check, ran)
<1>1. (10 * n) % 10 = 0
  OBVIOUS
<1>2. ran.output # Silent
  BY VerdictAssumption
<1> QED BY <1>1, <1>2 DEF Passes, LooksLikeZeroTests

-----------------------------------------------------------------------------
(* The attempt.                                                              *)

Working == {"creating", "naming", "projecting", "working", "registering", "ending"}
Verifying == {"confirming", "checkout", "gates", "judging"}

(* What the proofs need of the types.                                        *)
Streams == [child : {"none", "running", "stopping"}, timedOut : BOOLEAN,
            known : BOOLEAN, payload : {"invalid", "valid", "error"}]

Shape ==
    /\ attempts \in Nat /\ projected \in BOOLEAN /\ up \in BOOLEAN
    /\ run \in [Attempts -> {"none", "running", "succeeded", "failed", "timeout", "unknown"}]
    /\ session \in [Attempts -> {"none", "running", "ended"}]
    /\ stream \in Streams
    /\ left \in [Attempts -> {"none", "running", "stopping"}]
    /\ tree \in [head : Commit, onBranch : BOOLEAN, clean : BOOLEAN]
    /\ DOMAIN evidence = {"report", "mechanical", "judge"}

(* A suspended cycle owns the delegation, its run and, while the runner is   *)
(* there, the child: nobody else moves them.                                 *)
CycleOwns ==
    /\ ~up => pc = "none"
    /\ pc \in Working => dstate = "running" /\ At \in Attempts
    /\ pc \in {"projecting", "working", "registering"} => run[At] = "running"
    /\ pc \in Verifying => dstate = "verifying" /\ At \in Attempts /\ run[At] = "succeeded"
    /\ stream.child # "none" => pc = "working"

(* A child that was left behind is one of a failed attempt, no later than    *)
(* the one at hand; the run of an attempt to come does not yet exist.        *)
LeftBehind ==
    \A k \in Attempts : left[k] # "none" =>
        /\ left[k] = "stopping" /\ run[k] = "failed"
        /\ k <= attempts
        /\ k = attempts => pc \notin {"creating", "naming"}

(* A session that this attempt projected is known to be so, or the outbox    *)
(* knows that the answer was lost: the finally of executeAttempt needs that.  *)
SessionsKnown ==
    /\ SessionAccounted
    /\ pc \in {"working", "registering", "ending"} /\ session[At] = "running" =>
         projected \/ <<"create", At>> \in gaps

(* The evidence under collection is about the commit that will be accepted.  *)
EvidenceOfAttempt ==
    /\ pc \in Verifying \/ (pc = "ending" /\ run[At] = "succeeded") => report \in Report
    /\ pc \in {"checkout", "gates", "judging"} =>
         /\ evidence.report = [n |-> At, sha |-> report.claim, lines |-> report.lines]
         /\ ArtifactFailures(report.claim, tree) = {}
    /\ pc = "judging" => DiffFailures(report.claim) \subseteq failures
    /\ dstate \in {"accepted", "merged"} => At \in Attempts
    /\ AcceptedIsProven

(* A pass that is about to remove a worktree has chosen one.                 *)
PruneHasChosen ==
    /\ DOMAIN prune = {"stage", "keep", "todo"}
    /\ prune.stage = "removing" => prune.keep # {}

IInv == Shape /\ CycleOwns /\ LeftBehind /\ SessionsKnown /\ EvidenceOfAttempt /\ PruneHasChosen

-----------------------------------------------------------------------------
LEMMA InitHolds == Init => IInv
<1> SUFFICES ASSUME Init PROVE IInv
  OBVIOUS
<1>1. attempts = 0 /\ pc = "none" /\ dstate = "queued" /\ up = TRUE /\ stream = NoStream
  BY DEF Init
<1>2. Shape
  BY AttemptAssumption DEF Init, Shape, Streams, Attempts, NoStream, NoEvidence
<1>3. CycleOwns
  BY <1>1 DEF CycleOwns, Working, Verifying, NoStream
<1>4. SessionsKnown
  BY DEF Init, SessionsKnown, SessionAccounted, Attempts
<1>5. EvidenceOfAttempt
  BY <1>1 DEF EvidenceOfAttempt, Verifying, AcceptedIsProven
<1>6. PruneHasChosen
  BY DEF Init, PruneHasChosen, NoPass
<1>7. LeftBehind
  BY DEF Init, LeftBehind
<1> QED BY <1>2, <1>3, <1>4, <1>5, <1>6, <1>7 DEF IInv

(* The two cases of Gap and of Record that every user of them needs.         *)
LEMMA RecordEnds ==
    ASSUME NEW rows, Record(rows), IInv, At \in Attempts
    PROVE  /\ rows \subseteq gaps'
           /\ pc' = "ending" /\ stream' = NoStream
           /\ run' \in [Attempts -> {"none", "running", "succeeded", "failed", "timeout", "unknown"}]
           /\ \A k \in Attempts \ {At} : run'[k] = run[k]
           /\ run'[At] = "succeeded" => report' \in Report
<1>1. rows \subseteq gaps'
  BY DEF Record, Gap
<1>2. PICK o \in {"timeout", "succeeded", "failed"} : run' = [run EXCEPT ![At] = o]
  BY DEF Record
<1> QED BY <1>1, <1>2 DEF Record, IInv, Shape

(* What the events, the timer and the end leave of the stream.               *)
LEMMA StreamUpdates ==
    ASSUME NEW s \in Streams
    PROVE  /\ NoStream \in Streams /\ NoStream.child = "none"
           /\ [NoStream EXCEPT !.child = "running"] \in Streams
           /\ [s EXCEPT !.known = TRUE] \in Streams
           /\ \A p \in {"invalid", "valid", "error"} : [s EXCEPT !.payload = p] \in Streams
           /\ [s EXCEPT !.timedOut = TRUE, !.child = "stopping"] \in Streams
           /\ [s EXCEPT !.child = "none"] \in Streams
           /\ [s EXCEPT !.child = "none"].child = "none"
<1>1. NoStream \in Streams /\ NoStream.child = "none"
  BY DEF NoStream, Streams
<1>2. [NoStream EXCEPT !.child = "running"] \in Streams
  BY DEF NoStream, Streams
<1>3. [s EXCEPT !.known = TRUE] \in Streams
  BY DEF Streams
<1>4. ASSUME NEW p \in {"invalid", "valid", "error"} PROVE [s EXCEPT !.payload = p] \in Streams
  BY DEF Streams
<1>5. [s EXCEPT !.timedOut = TRUE, !.child = "stopping"] \in Streams
  BY DEF Streams
<1>6. [s EXCEPT !.child = "none"] \in Streams /\ [s EXCEPT !.child = "none"].child = "none"
  BY DEF Streams
<1> QED BY <1>1, <1>2, <1>3, <1>4, <1>5, <1>6

LEMMA ShapeHolds == IInv /\ [Next]_vars => Shape'
<1> SUFFICES ASSUME IInv, [Next]_vars PROVE Shape'
  OBVIOUS
<1> USE DEF IInv, Shape
<1>1. CASE RunCycle
  BY <1>1, AttemptAssumption DEF RunCycle, records, verification, process
<1>2. CASE CreateWorktree
  BY <1>2, AttemptAssumption DEF CreateWorktree, delegation, records, verification, process
<1>3. CASE InfraFailure
  BY <1>3 DEF InfraFailure, SettleFailure, records, verification, process
<1>4. CASE CreateRun
  BY <1>4 DEF CreateRun, delegation, verification, process
<1>5. CASE ProjectSession
  <2>1. stream' \in Streams
    BY <1>5 DEF ProjectSession, NoStream, Streams
  <2>2. session' \in [Attempts -> {"none", "running", "ended"}]
    BY <1>5 DEF ProjectSession
  <2>3. projected' \in BOOLEAN
    BY <1>5 DEF ProjectSession
  <2> QED BY <1>5, <2>1, <2>2, <2>3 DEF ProjectSession, delegation, verification, process
<1>6. CASE InitEvent \/ ResultEvent \/ ErrorEvent \/ Deadline
  <2>1. stream \in Streams
    OBVIOUS
  <2>2. stream' \in Streams
    <3>1. CASE InitEvent
      BY <2>1, <3>1 DEF InitEvent, Says, Streams
    <3>2. CASE ResultEvent
      BY <2>1, <3>2 DEF ResultEvent, Says, Streams
    <3>3. CASE ErrorEvent
      BY <2>1, <3>3 DEF ErrorEvent, Says, Streams
    <3>4. CASE Deadline
      BY <2>1, <3>4 DEF Deadline, Says, Streams
    <3> QED BY <1>6, <3>1, <3>2, <3>3, <3>4
  <2> QED BY <1>6, <2>2 DEF InitEvent, ResultEvent, ErrorEvent, Deadline, Says, delegation,
             records, verification, process
<1>7. CASE WorkerWorks
  BY <1>7, AttemptAssumption DEF WorkerWorks, delegation, records, verification, process
<1>8. CASE StreamEnds
  <2>1. CASE stream.known
    BY <1>8, <2>1, StreamUpdates DEF StreamEnds, delegation, process
  <2>2. CASE ~stream.known
    <3>1. Record(gaps) /\ At \in Attempts
      BY <1>8, <2>2 DEF StreamEnds, CycleOwns, Working
    <3> QED BY <1>8, <3>1, RecordEnds, StreamUpdates DEF StreamEnds, delegation, process
  <2> QED BY <2>1, <2>2
<1>9. CASE StreamThrows
  <2>1. left' \in [Attempts -> {"none", "running", "stopping"}]
    BY <1>9 DEF StreamThrows, StreamThrowsLeaving
  <2>2. run' \in [Attempts -> {"none", "running", "succeeded", "failed", "timeout", "unknown"}]
    BY <1>9 DEF StreamThrows, StreamThrowsLeaving
  <2> QED BY <1>9, <2>1, <2>2, StreamUpdates DEF StreamThrows, StreamThrowsLeaving, delegation
<1>10. CASE RegisterProviderSession
  <2>1. At \in Attempts /\ \E rows : Record(rows)
    BY <1>10 DEF RegisterProviderSession, CycleOwns, Working
  <2> QED BY <1>10, <2>1, RecordEnds, StreamUpdates DEF RegisterProviderSession,
             delegation, process
<1>11. CASE EndSession
  BY <1>11 DEF EndSession, Return, SettleFailure, verification, process
<1>12. CASE ArtifactRefused \/ ArtifactConfirmed
  BY <1>12 DEF ArtifactRefused, ArtifactConfirmed, SettleFailure, delegation, records, process
<1>13. CASE CheckOut \/ RunGates \/ VerificationThrows \/ Cleanup
  BY <1>13 DEF CheckOut, RunGates, VerificationThrows, Cleanup, delegation, records,
               verification, process
<1>14. CASE Judge
  BY <1>14 DEF Judge, SettleFailure, records, process
<1>15. CASE BeginPrune \/ ListWorktrees \/ ReadStatus \/ RemoveWorktree
  BY <1>15 DEF BeginPrune, ListWorktrees, ReadStatus, RemoveWorktree, PruneStep, delegation,
               records, verification
<1>16. CASE Integrate \/ Cancel
  BY <1>16 DEF Integrate, Cancel, records, verification, process
<1>17. CASE Crash
  BY <1>17, StreamUpdates DEF Crash, delegation, records
<1>18. CASE Restart
  BY <1>18 DEF Restart, SettleFailure, delegation, verification
<1>19. CASE LeftBehindStep
  BY <1>19 DEF LeftBehindStep, LeftBehindWorks, LeftBehindEnds, delegation, records,
               verification, process
<1>20. CASE UNCHANGED vars
  BY <1>20 DEF vars, delegation, records, verification, process
<1> QED BY <1>1, <1>2, <1>3, <1>4, <1>5, <1>6, <1>7, <1>8, <1>9, <1>10, <1>11, <1>12, <1>13,
           <1>14, <1>15, <1>16, <1>17, <1>18, <1>19, <1>20 DEF Next, AttemptStep, VerifyStep

LEMMA CycleHolds == IInv /\ [Next]_vars => CycleOwns'
<1> SUFFICES ASSUME IInv, [Next]_vars PROVE CycleOwns'
  OBVIOUS
<1> USE DEF IInv, CycleOwns, Working, Verifying, At
<1>1. CASE RunCycle
  <2>1. attempts' \in Attempts \/ pc' = pc
    BY <1>1, AttemptAssumption DEF RunCycle, Attempts, Shape
  <2> QED BY <1>1, <2>1 DEF RunCycle, records, verification, process
<1>2. CASE CreateWorktree
  BY <1>2 DEF CreateWorktree, delegation, records, verification, process
<1>3. CASE InfraFailure
  BY <1>3 DEF InfraFailure, SettleFailure, records, verification, process
<1>4. CASE CreateRun
  BY <1>4 DEF CreateRun, delegation, verification, process, Shape
<1>5. CASE ProjectSession
  BY <1>5 DEF ProjectSession, delegation, verification, process
<1>6. CASE InitEvent \/ ResultEvent \/ ErrorEvent \/ Deadline
  BY <1>6 DEF InitEvent, ResultEvent, ErrorEvent, Deadline, Says, delegation, records,
              verification, process
<1>7. CASE WorkerWorks
  BY <1>7 DEF WorkerWorks, delegation, records, verification, process
<1>8. CASE StreamEnds
  <2>1. CASE stream.known
    <3>1. stream'.child = "none"
      BY <1>8, <2>1, StreamUpdates DEF StreamEnds, Shape
    <3> QED BY <1>8, <2>1, <3>1 DEF StreamEnds, delegation, process
  <2>2. CASE ~stream.known
    <3>1. Record(gaps)
      BY <1>8, <2>2 DEF StreamEnds
    <3> QED BY <1>8, <3>1, RecordEnds, StreamUpdates DEF StreamEnds, delegation, process, Shape
  <2> QED BY <2>1, <2>2
<1>9. CASE StreamThrows
  BY <1>9, StreamUpdates DEF StreamThrows, StreamThrowsLeaving, delegation, process, Shape
<1>10. CASE RegisterProviderSession
  <2>1. \E rows : Record(rows)
    BY <1>10 DEF RegisterProviderSession
  <2> QED BY <1>10, <2>1, RecordEnds, StreamUpdates DEF RegisterProviderSession,
             delegation, process, Shape
<1>11. CASE EndSession
  BY <1>11 DEF EndSession, Return, SettleFailure, verification, process
<1>12. CASE ArtifactRefused \/ ArtifactConfirmed
  BY <1>12 DEF ArtifactRefused, ArtifactConfirmed, SettleFailure, delegation, records, process
<1>13. CASE CheckOut \/ RunGates \/ VerificationThrows \/ Cleanup
  BY <1>13 DEF CheckOut, RunGates, VerificationThrows, Cleanup, delegation, records,
               verification, process
<1>14. CASE Judge
  BY <1>14 DEF Judge, SettleFailure, records, process
<1>15. CASE BeginPrune \/ ListWorktrees \/ ReadStatus \/ RemoveWorktree
  BY <1>15 DEF BeginPrune, ListWorktrees, ReadStatus, RemoveWorktree, PruneStep, delegation,
               records, verification
<1>16. CASE Integrate \/ Cancel
  BY <1>16 DEF Integrate, Cancel, records, verification, process
<1>17. CASE Crash
  BY <1>17, StreamUpdates DEF Crash, delegation, records, Shape
<1>18. CASE Restart
  BY <1>18 DEF Restart, SettleFailure, delegation, verification
<1>19. CASE LeftBehindStep
  BY <1>19 DEF LeftBehindStep, LeftBehindWorks, LeftBehindEnds, delegation, records,
               verification, process
<1>20. CASE UNCHANGED vars
  BY <1>20 DEF vars, delegation, records, verification, process
<1> QED BY <1>1, <1>2, <1>3, <1>4, <1>5, <1>6, <1>7, <1>8, <1>9, <1>10, <1>11, <1>12, <1>13,
           <1>14, <1>15, <1>16, <1>17, <1>18, <1>19, <1>20 DEF Next, AttemptStep, VerifyStep

(* The children left behind: only a step of the cycle that owns the run of   *)
(* an attempt rewrites it, and by then the child of that attempt is another. *)
LEMMA LeftHolds == IInv /\ [Next]_vars => LeftBehind'
<1> SUFFICES ASSUME IInv, [Next]_vars PROVE LeftBehind'
  OBVIOUS
<1> USE DEF IInv, LeftBehind, At
<1>1. CASE RunCycle
  BY <1>1 DEF RunCycle, records, process, Shape, Attempts
<1>2. CASE CreateWorktree \/ InfraFailure
  BY <1>2 DEF CreateWorktree, InfraFailure, SettleFailure, delegation, records, process
<1>3. CASE CreateRun
  BY <1>3 DEF CreateRun, delegation, process, Shape
<1>4. CASE ProjectSession \/ WorkerWorks
  BY <1>4 DEF ProjectSession, WorkerWorks, delegation, records, process
<1>5. CASE InitEvent \/ ResultEvent \/ ErrorEvent \/ Deadline
  BY <1>5 DEF InitEvent, ResultEvent, ErrorEvent, Deadline, Says, delegation, records, process
<1>6. CASE StreamEnds \/ RegisterProviderSession
  <2>1. At \in Attempts /\ run[At] = "running" /\ left' = left /\ attempts' = attempts
    BY <1>6 DEF StreamEnds, RegisterProviderSession, CycleOwns, Working, process, delegation
  <2>2. left[At] = "none"
    BY <2>1
  <2>3. pc' \in {"registering", "ending"} /\ \A k \in Attempts \ {At} : run'[k] = run[k]
    BY <1>6, <2>1, RecordEnds DEF StreamEnds, RegisterProviderSession
  <2> QED BY <2>1, <2>2, <2>3
<1>7. CASE StreamThrows
  BY <1>7 DEF StreamThrows, StreamThrowsLeaving, delegation, Shape, CycleOwns, Working
<1>8. CASE EndSession
  BY <1>8 DEF EndSession, Return, SettleFailure, process
<1>9. CASE VerifyStep
  BY <1>9 DEF VerifyStep, ArtifactRefused, ArtifactConfirmed, CheckOut, RunGates, Judge,
     VerificationThrows, Cleanup, SettleFailure, delegation, records, process
<1>10. CASE BeginPrune \/ ListWorktrees \/ ReadStatus \/ RemoveWorktree
  BY <1>10 DEF BeginPrune, ListWorktrees, ReadStatus, RemoveWorktree, PruneStep, delegation,
               records
<1>11. CASE Integrate \/ Cancel
  BY <1>11 DEF Integrate, Cancel, records, process
<1>12. CASE Crash
  BY <1>12 DEF Crash
<1>13. CASE Restart
  BY <1>13 DEF Restart, SettleFailure, delegation, Shape, CycleOwns
<1>14. CASE LeftBehindStep
  BY <1>14 DEF LeftBehindStep, LeftBehindWorks, LeftBehindEnds, delegation, records, process,
               Shape
<1>15. CASE UNCHANGED vars
  BY <1>15 DEF vars, delegation, records, process
<1> QED BY <1>1, <1>2, <1>3, <1>4, <1>5, <1>6, <1>7, <1>8, <1>9, <1>10, <1>11, <1>12, <1>13,
           <1>14, <1>15 DEF Next, AttemptStep

LEMMA SessionsHold == IInv /\ [Next]_vars => SessionsKnown'
<1> SUFFICES ASSUME IInv, [Next]_vars PROVE SessionsKnown'
  OBVIOUS
<1> USE DEF IInv, SessionsKnown, SessionAccounted, At
<1>1. CASE RunCycle
  BY <1>1 DEF RunCycle, records, verification, process
<1>2. CASE CreateWorktree \/ InfraFailure \/ CreateRun
  BY <1>2 DEF CreateWorktree, InfraFailure, CreateRun, SettleFailure, delegation, records,
              verification, process
<1>3. CASE ProjectSession
  <2>1. session \in [Attempts -> {"none", "running", "ended"}]
    BY DEF Shape
  <2> QED BY <1>3, <2>1 DEF ProjectSession, Gap, delegation, verification, process
<1>4. CASE InitEvent \/ ResultEvent \/ ErrorEvent \/ Deadline
  BY <1>4 DEF InitEvent, ResultEvent, ErrorEvent, Deadline, Says, delegation, records,
              verification, process
<1>5. CASE WorkerWorks
  BY <1>5 DEF WorkerWorks, delegation, records, verification, process
<1>6. CASE StreamEnds
  <2>1. CASE stream.known
    BY <1>6, <2>1 DEF StreamEnds, delegation, process
  <2>2. CASE ~stream.known
    <3>1. Record(gaps) /\ At \in Attempts
      BY <1>6, <2>2 DEF StreamEnds, CycleOwns, Working
    <3>2. gaps \subseteq gaps' /\ pc' = "ending"
      BY <3>1, RecordEnds
    <3> QED BY <1>6, <3>2 DEF StreamEnds, delegation, process
  <2> QED BY <2>1, <2>2
<1>7. CASE StreamThrows
  BY <1>7 DEF StreamThrows, StreamThrowsLeaving, delegation, process
<1>8. CASE RegisterProviderSession
  <2>1. At \in Attempts
    BY <1>8 DEF RegisterProviderSession, CycleOwns, Working
  <2>2. gaps \subseteq gaps' /\ pc' = "ending"
    BY <1>8, <2>1, RecordEnds DEF RegisterProviderSession
  <2> QED BY <1>8, <2>2 DEF RegisterProviderSession, delegation, process
<1>9. CASE EndSession
  <2>1. session \in [Attempts -> {"none", "running", "ended"}]
    BY DEF Shape
  <2> QED BY <1>9, <2>1 DEF EndSession, Gap, Return, SettleFailure, verification, process
<1>10. CASE ArtifactRefused \/ ArtifactConfirmed
  BY <1>10 DEF ArtifactRefused, ArtifactConfirmed, SettleFailure, delegation, records, process
<1>11. CASE CheckOut \/ RunGates \/ VerificationThrows \/ Cleanup
  BY <1>11 DEF CheckOut, RunGates, VerificationThrows, Cleanup, delegation, records,
               verification, process
<1>12. CASE Judge
  BY <1>12 DEF Judge, SettleFailure, records, process
<1>13. CASE BeginPrune \/ ListWorktrees \/ ReadStatus \/ RemoveWorktree
  BY <1>13 DEF BeginPrune, ListWorktrees, ReadStatus, RemoveWorktree, PruneStep, delegation,
               records, verification
<1>14. CASE Integrate \/ Cancel
  BY <1>14 DEF Integrate, Cancel, records, verification, process
<1>15. CASE Crash
  BY <1>15 DEF Crash, delegation, records
<1>16. CASE Restart
  <2>1. pc = "none" /\ pc' = "none" /\ attempts' = attempts
    BY <1>16 DEF Restart, SettleFailure, delegation, CycleOwns
  <2> QED BY <1>16, <2>1 DEF Restart, verification
<1>17. CASE LeftBehindStep
  BY <1>17 DEF LeftBehindStep, LeftBehindWorks, LeftBehindEnds, delegation, records, process
<1>18. CASE UNCHANGED vars
  BY <1>18 DEF vars, delegation, records, verification, process
<1> QED BY <1>1, <1>2, <1>3, <1>4, <1>5, <1>6, <1>7, <1>8, <1>9, <1>10, <1>11, <1>12, <1>13,
           <1>14, <1>15, <1>16, <1>17, <1>18 DEF Next, AttemptStep, VerifyStep

LEMMA ChoiceHolds == IInv /\ [Next]_vars => PruneHasChosen'
<1> SUFFICES ASSUME IInv, [Next]_vars PROVE PruneHasChosen'
  OBVIOUS
<1>1. CASE BeginPrune \/ ListWorktrees \/ ReadStatus \/ RemoveWorktree
  <2>1. CASE BeginPrune
    BY <2>1 DEF BeginPrune, PruneStep, PruneHasChosen
  <2>2. CASE ListWorktrees
    BY <2>2 DEF ListWorktrees, PruneStep, PruneHasChosen, IInv
  <2>3. CASE ReadStatus
    BY <2>3 DEF ReadStatus, PruneStep, PruneHasChosen, IInv, NoPass
  <2>4. CASE RemoveWorktree
    BY <2>4 DEF RemoveWorktree, PruneStep, PruneHasChosen, IInv
  <2> QED BY <1>1, <2>1, <2>2, <2>3, <2>4
<1>2. CASE Crash
  BY <1>2 DEF Crash, PruneHasChosen, NoPass
<1>3. CASE UNCHANGED prune
  BY <1>3 DEF IInv, PruneHasChosen
<1>4. CASE AttemptStep
  BY <1>3, <1>4 DEF AttemptStep, RunCycle, CreateWorktree, InfraFailure, CreateRun,
     ProjectSession, InitEvent, ResultEvent, ErrorEvent, Deadline, Says, WorkerWorks,
     StreamEnds, StreamThrows, StreamThrowsLeaving, RegisterProviderSession, EndSession
<1>5. CASE VerifyStep
  BY <1>3, <1>5 DEF VerifyStep, ArtifactRefused, ArtifactConfirmed, CheckOut, RunGates, Judge,
     VerificationThrows, Cleanup
<1>6. CASE Integrate \/ Cancel \/ Restart \/ LeftBehindStep \/ UNCHANGED vars
  BY <1>3, <1>6 DEF Integrate, Cancel, Restart, LeftBehindStep, LeftBehindWorks,
     LeftBehindEnds, vars
<1> QED BY <1>1, <1>2, <1>4, <1>5, <1>6 DEF Next

(* The verification of an attempt, step by step.                             *)
LEMMA EvidenceHolds == IInv /\ [Next]_vars => EvidenceOfAttempt'
<1> SUFFICES ASSUME IInv, [Next]_vars PROVE EvidenceOfAttempt'
  OBVIOUS
<1>a. /\ DOMAIN evidence = {"report", "mechanical", "judge"}
      /\ tree \in [head : Commit, onBranch : BOOLEAN, clean : BOOLEAN]
      /\ run \in [Attempts -> {"none", "running", "succeeded", "failed", "timeout", "unknown"}]
  BY DEF IInv, Shape
<1> USE DEF At, Working, Verifying

(* Outside of verification the cycle and the worker touch nothing that an    *)
(* accepted delegation stands on.                                            *)
<1>1. CASE AttemptStep
  <2>1. dstate \in {"queued", "running"} /\ pc \notin Verifying
    BY <1>1 DEF AttemptStep, RunCycle, CreateWorktree, InfraFailure, CreateRun,
       ProjectSession, InitEvent, ResultEvent, ErrorEvent, Deadline, Says, WorkerWorks,
       StreamEnds, StreamThrows, StreamThrowsLeaving, RegisterProviderSession, EndSession, IInv,
       CycleOwns
  <2>2. dstate' \notin {"accepted", "merged"}
    BY <1>1, <2>1 DEF AttemptStep, RunCycle, CreateWorktree, InfraFailure, CreateRun,
       ProjectSession, InitEvent, ResultEvent, ErrorEvent, Deadline, Says, WorkerWorks,
       StreamEnds, StreamThrows, StreamThrowsLeaving, RegisterProviderSession, EndSession, Return,
       SettleFailure, delegation
  <2>3. CASE StreamEnds \/ StreamThrows \/ RegisterProviderSession
    <3>1. At \in Attempts
      BY <2>3 DEF StreamEnds, StreamThrows, StreamThrowsLeaving, RegisterProviderSession, IInv,
         CycleOwns
    <3>2. attempts' = attempts /\ pc' \in {"registering", "ending"}
      BY <2>3, <3>1, RecordEnds DEF StreamEnds, StreamThrows, StreamThrowsLeaving,
         RegisterProviderSession, delegation
    <3>3. pc' = "ending" /\ run'[attempts] = "succeeded" => report' \in Report
      BY <1>a, <2>3, <3>1, RecordEnds DEF StreamEnds, StreamThrows, StreamThrowsLeaving,
         RegisterProviderSession
    <3> QED BY <2>2, <3>2, <3>3 DEF EvidenceOfAttempt, AcceptedIsProven
  <2>4. CASE EndSession
    <3>1. pc' = "confirming" => report' \in Report
      BY <2>4 DEF EndSession, Return, SettleFailure, verification, IInv, EvidenceOfAttempt
    <3>2. pc' \in {"confirming", "none"}
      BY <2>4 DEF EndSession, Return, SettleFailure
    <3> QED BY <2>2, <3>1, <3>2 DEF EvidenceOfAttempt, AcceptedIsProven
  <2>5. CASE ~(StreamEnds \/ StreamThrows \/ RegisterProviderSession \/ EndSession)
    <3>1. \/ pc' \notin Verifying \cup {"ending"}
          \/ pc' = pc /\ UNCHANGED <<attempts, run, report>>
      <4>1. CASE RunCycle
        BY <4>1 DEF RunCycle, records, verification
      <4>2. CASE CreateWorktree \/ InfraFailure \/ CreateRun \/ ProjectSession
        BY <4>2 DEF CreateWorktree, InfraFailure, CreateRun, ProjectSession, SettleFailure
      <4>3. CASE InitEvent \/ ResultEvent \/ ErrorEvent \/ Deadline \/ WorkerWorks
        BY <4>3 DEF InitEvent, ResultEvent, ErrorEvent, Deadline, Says, WorkerWorks,
           delegation, records, verification
      <4> QED BY <1>1, <2>5, <4>1, <4>2, <4>3 DEF AttemptStep
    <3> QED BY <2>1, <2>2, <3>1 DEF EvidenceOfAttempt, AcceptedIsProven, IInv
  <2> QED BY <2>3, <2>4, <2>5

<1>2. CASE ArtifactRefused
  <2>1. dstate' \in {"queued", "blocked"} /\ pc' = "none"
    BY <1>2 DEF ArtifactRefused, SettleFailure
  <2> QED BY <2>1 DEF EvidenceOfAttempt, AcceptedIsProven
<1>3. CASE ArtifactConfirmed
  <2>1. ArtifactFailures(report.claim, tree) = {}
    BY <1>3 DEF ArtifactConfirmed, ConfirmFailures
  <2>2. evidence'.report = [n |-> attempts, sha |-> report.claim, lines |-> report.lines]
    BY <1>a, <1>3 DEF ArtifactConfirmed
  <2>3. dstate = "verifying"
    BY <1>3 DEF ArtifactConfirmed, IInv, CycleOwns
  <2>4. dstate' = dstate /\ attempts' = attempts /\ pc' = "checkout"
        /\ UNCHANGED <<tree, report>>
    BY <1>3 DEF ArtifactConfirmed, delegation
  <2>5. report \in Report
    BY <1>3 DEF ArtifactConfirmed, IInv, EvidenceOfAttempt
  <2>6. AcceptedIsProven'
    BY <2>3, <2>4 DEF AcceptedIsProven
  <2>7. ArtifactFailures(report.claim, tree)' = {}
    BY <2>1, <2>4 DEF ArtifactFailures
  <2> QED BY <2>2, <2>3, <2>4, <2>5, <2>6, <2>7 DEF EvidenceOfAttempt
<1>4. CASE CheckOut
  BY <1>4 DEF CheckOut, delegation, verification, IInv, EvidenceOfAttempt, AcceptedIsProven,
              CycleOwns
<1>5. CASE RunGates
  <2>1. DiffFailures(report.claim) \subseteq failures'
    BY <1>5 DEF RunGates
  <2>2. dstate = "verifying"
    BY <1>5 DEF RunGates, IInv, CycleOwns
  <2>3. dstate' = dstate /\ attempts' = attempts /\ pc' = "judging"
        /\ UNCHANGED <<tree, report, evidence>>
    BY <1>5 DEF RunGates, delegation
  <2>4. /\ report \in Report /\ ArtifactFailures(report.claim, tree) = {}
        /\ evidence.report = [n |-> attempts, sha |-> report.claim, lines |-> report.lines]
    BY <1>5 DEF RunGates, IInv, EvidenceOfAttempt
  <2>5. AcceptedIsProven'
    BY <2>2, <2>3 DEF AcceptedIsProven
  <2>6. ArtifactFailures(report.claim, tree)' = {} /\ (DiffFailures(report.claim) \subseteq failures)'
    BY <2>1, <2>3, <2>4 DEF ArtifactFailures, DiffFailures, EnumerateDelta, OutOfScope, Tampered
  <2> QED BY <2>2, <2>3, <2>4, <2>5, <2>6 DEF EvidenceOfAttempt

(* The step that accepts.                                                    *)
<1>6. CASE Judge
  <2>1. PICK judge \in JudgeOutcome :
          /\ evidence' =
               [evidence EXCEPT !.mechanical = [n |-> At, failures |-> failures],
                                !.judge = IF judge = {} THEN @
                                          ELSE [n |-> At, report |-> CHOOSE j \in judge : TRUE]]
          /\ \/ /\ Eligible(report.lines, failures, judge)
                /\ dstate' = "accepted" /\ reason' = At /\ pc' = "cleanup"
                /\ UNCHANGED <<attempts, told>>
             \/ ~Eligible(report.lines, failures, judge) /\ SettleFailure
    BY <1>6 DEF Judge
  <2>2. CASE SettleFailure
    BY <2>2 DEF SettleFailure, EvidenceOfAttempt, AcceptedIsProven
  <2>3. CASE /\ Eligible(report.lines, failures, judge)
             /\ dstate' = "accepted" /\ pc' = "cleanup" /\ attempts' = attempts
    <3> DEFINE c == report.claim
    <3>1. /\ report \in Report /\ At \in Attempts /\ run[At] = "succeeded"
          /\ evidence.report = [n |-> At, sha |-> c, lines |-> report.lines]
          /\ ArtifactFailures(c, tree) = {} /\ DiffFailures(c) \subseteq failures
      BY <1>6 DEF Judge, IInv, EvidenceOfAttempt, CycleOwns
    <3>2. /\ failures = {}
          /\ \A r \in mandatory : <<r, "IMPLEMENTED">> \in report.lines
          /\ \E j \in judge : /\ j.verdict = "ACCEPT"
                             /\ \A l \in j.lines : l[1] \in mandatory => l[2] = "IMPLEMENTED"
      <4>1. report.lines \subseteq Requirement \X Status
        BY <3>1, AttemptAssumption
      <4> QED BY <2>3, <4>1, EligibleIsComplete
    <3>3. PICK j : judge = {j}
      BY <3>2 DEF JudgeOutcome
    <3>4. (CHOOSE i \in judge : TRUE) = j
      BY <3>3
    <3>5. /\ evidence'.report = evidence.report
          /\ evidence'.mechanical = [n |-> At, failures |-> failures]
          /\ evidence'.judge = [n |-> At, report |-> j]
      BY <1>a, <2>1, <3>3, <3>4
    <3>6. tree = [head |-> c, onBranch |-> TRUE, clean |-> TRUE] /\ c.descends
      <4>1. /\ "not HEAD" \notin ArtifactFailures(c, tree)
            /\ "wrong branch" \notin ArtifactFailures(c, tree)
            /\ "not a descendant" \notin ArtifactFailures(c, tree)
            /\ "not clean" \notin ArtifactFailures(c, tree)
        BY <3>1
      <4>2. tree.head = c /\ tree.onBranch /\ c.descends /\ tree.clean
        BY <4>1 DEF ArtifactFailures
      <4> QED BY <1>a, <4>2
    <3>7. Changed(c) # {} /\ Changed(c) \subseteq fileScope \ protectedFiles /\ ~c.oversized
      BY <3>1, <3>2, GateCoversEveryChange
    <3>8. UNCHANGED <<tree, run>> /\ attempts' = attempts
      BY <1>6, <2>3 DEF Judge, records
    <3>9. AcceptedIsProven'
      <4>1. {evidence'[kind].n : kind \in {"report", "mechanical", "judge"}} = {At}
        BY <3>1, <3>5
      <4>2. evidence'.report.sha = c /\ evidence'.report.lines = report.lines
        BY <3>1, <3>5
      <4>3. evidence'.mechanical.failures = {} /\ evidence'.judge.report = j
        BY <3>2, <3>5
      <4> HIDE DEF c
      <4> QED BY <3>1, <3>2, <3>3, <3>6, <3>7, <3>8, <4>1, <4>2, <4>3
             DEF AcceptedIsProven, Changed, HashAt
    <3> QED BY <2>3, <3>1, <3>9 DEF EvidenceOfAttempt
  <2> QED BY <2>1, <2>2, <2>3
<1>7. CASE VerificationThrows \/ Cleanup
  BY <1>7 DEF VerificationThrows, Cleanup, delegation, records, verification, IInv,
              EvidenceOfAttempt, AcceptedIsProven

<1>8. CASE BeginPrune \/ ListWorktrees \/ ReadStatus \/ RemoveWorktree
  BY <1>8 DEF BeginPrune, ListWorktrees, ReadStatus, RemoveWorktree, PruneStep, delegation,
              records, verification, IInv, EvidenceOfAttempt, AcceptedIsProven
<1>9. CASE Integrate \/ Cancel
  BY <1>9 DEF Integrate, Cancel, records, verification, IInv, EvidenceOfAttempt, AcceptedIsProven
<1>10. CASE Crash
  BY <1>10 DEF Crash, delegation, records, IInv, EvidenceOfAttempt, AcceptedIsProven
<1>11. CASE Restart
  <2>1. pc = "none" /\ pc' = "none" /\ attempts' = attempts
    BY <1>11 DEF Restart, SettleFailure, delegation, IInv, CycleOwns
  <2>2. dstate' \in {"accepted", "merged"} => dstate' = dstate
    BY <1>11 DEF Restart, SettleFailure, delegation
  <2>3. \A k \in Attempts : run[k] = "succeeded" => run'[k] = "succeeded"
    BY <1>a, <1>11 DEF Restart
  <2> QED BY <1>11, <2>1, <2>2, <2>3 DEF Restart, verification, IInv, EvidenceOfAttempt,
         AcceptedIsProven
<1>12. CASE LeftBehindStep \/ UNCHANGED vars
  BY <1>12 DEF LeftBehindStep, LeftBehindWorks, LeftBehindEnds, vars, delegation, records,
               verification, IInv, EvidenceOfAttempt, AcceptedIsProven
<1> QED BY <1>1, <1>2, <1>3, <1>4, <1>5, <1>6, <1>7, <1>8, <1>9, <1>10, <1>11, <1>12
       DEF Next, VerifyStep

-----------------------------------------------------------------------------
(* The inductive invariant: what a cycle owns while it is suspended, what it *)
(* knows of its session, and what the evidence under collection is about.    *)
THEOREM Invariance == Spec => []IInv
<1>1. IInv /\ [Next]_vars => IInv'
  BY ShapeHolds, CycleHolds, LeftHolds, SessionsHold, EvidenceHolds, ChoiceHolds DEF IInv
<1> QED BY InitHolds, <1>1, PTL DEF Spec

(* What is accepted and may be merged is the commit that this attempt left   *)
(* as the tip of its branch and that passed every gate, on evidence of this  *)
(* attempt only (confirmArtifact to computeEligibility), whatever prunes,    *)
(* crashes and earlier attempts there were.                                  *)
THEOREM AcceptedEvidence == Spec => []AcceptedIsProven
<1>1. IInv => AcceptedIsProven
  BY DEF IInv, EvidenceOfAttempt
<1> QED BY Invariance, <1>1, PTL

(* However often streams throw, deadlines pass, passes prune and the process *)
(* dies: every child of an attempt is the one the cycle waits for, or has    *)
(* been told to stop under a run that is recorded as failed; and so none is  *)
(* left that could still write where a candidate is being verified           *)
(* (runSingle's timer and finally).                                          *)
THEOREM ChildrenAreAccounted ==
    Spec => [](ChildAccounted /\ (pc \in Verifying => ~Child(At)))
<1>1. IInv => ChildAccounted /\ (pc \in Verifying => ~Child(At))
  <2> SUFFICES ASSUME IInv PROVE ChildAccounted /\ (pc \in Verifying => ~Child(At))
    OBVIOUS
  <2>1. ChildAccounted
    BY DEF IInv, CycleOwns, LeftBehind, ChildAccounted, Child, Working, At
  <2>2. pc \in Verifying => ~Child(At)
    BY DEF IInv, CycleOwns, LeftBehind, Child, Verifying
  <2> QED BY <2>1, <2>2
<1> QED BY Invariance, <1>1, PTL

(* A session that looks alive belongs to the attempt under way, or its being *)
(* left open is accounted for (executeAttempt's finally).                    *)
THEOREM SessionsAccountedFor == Spec => []SessionAccounted
<1>1. IInv => SessionAccounted
  BY DEF IInv, SessionsKnown
<1> QED BY Invariance, <1>1, PTL

(* No prune pass and no cleanup removes uncommitted work, however long ago   *)
(* it looked at the worktree (removeWorktreeSafe, pruneOrphanedWorktrees).   *)
THEOREM NeverForced == Spec => DirtyKept
<1>1. IInv /\ [Next]_vars => [\A w \in worktrees \ worktrees' : w \notin dirty]_vars
  <2> SUFFICES ASSUME IInv, [Next]_vars, NEW w \in worktrees \ worktrees'
               PROVE  w \notin dirty
    OBVIOUS
  <2>1. CASE RemoveWorktree
    <3>1. PICK v \in prune.keep : TRUE
      BY <2>1 DEF RemoveWorktree, IInv, PruneHasChosen
    <3>2. Remove(v)
      BY <2>1, <3>1 DEF RemoveWorktree
    <3> QED BY <3>2 DEF Remove
  <2>2. CASE Cleanup
    BY <2>2 DEF Cleanup, Remove, disk
  <2>3. CASE ~(RemoveWorktree \/ Cleanup)
    <3>1. worktrees \subseteq worktrees'
      <4>1. CASE AttemptStep
        BY <4>1 DEF AttemptStep, RunCycle, CreateWorktree, InfraFailure, CreateRun,
           ProjectSession, InitEvent, ResultEvent, ErrorEvent, Deadline, Says, WorkerWorks,
           StreamEnds, StreamThrows, StreamThrowsLeaving, RegisterProviderSession, EndSession, disk
      <4>2. CASE VerifyStep
        BY <2>3, <4>2 DEF VerifyStep, ArtifactRefused, ArtifactConfirmed, CheckOut, RunGates,
           Judge, VerificationThrows, disk
      <4>3. CASE BeginPrune \/ ListWorktrees \/ ReadStatus
        BY <4>3 DEF BeginPrune, ListWorktrees, ReadStatus, disk
      <4>4. CASE Integrate \/ Cancel \/ Crash \/ Restart \/ LeftBehindStep \/ UNCHANGED vars
        BY <4>4 DEF Integrate, Cancel, Crash, Restart, LeftBehindStep, LeftBehindWorks,
           LeftBehindEnds, vars, disk
      <4> QED BY <2>3, <4>1, <4>2, <4>3, <4>4 DEF Next
    <3> QED BY <3>1
  <2> QED BY <2>1, <2>2, <2>3
<1> QED BY Invariance, <1>1, PTL DEF Spec, DirtyKept

=============================================================================
