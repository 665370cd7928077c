------------------------------ MODULE Verdict ------------------------------
(* The decisions of src/verifier.ts as pure functions of evidence: is the    *)
(* claimed commit what the worktree holds (confirmArtifact), what do the     *)
(* deterministic gates say of it (runMechanicalGates), and is it eligible    *)
(* (computeEligibility). Module Attempt collects the evidence, AttemptProofs *)
(* says what the decisions are worth.                                        *)
(*                                                                           *)
(* Abstractions. A path is in scope or not: what the globs match is a set. A *)
(* commit is its files, a hash for each path it has, and what else the gates *)
(* ask of it: does it descend from the baseline, is its diff too large, does *)
(* the diff show a tamper signal. git finds renames of equal content only.   *)
(* The report of a worker or a judge is the set of its (requirement, status) *)
(* lines: an array may repeat or contradict itself. The output of a check is *)
(* the number of tests it says passed, or nothing.                           *)
EXTENDS Integers

CONSTANTS
    Requirement, mandatory,     \* brief.requirements
    Path, fileScope,            \* what the scope globs match
    protectedFiles,
    baseline,                   \* the commit at dispatch
    Check, expectTests,         \* brief.acceptanceChecks, those with expectTests
    Silent                      \* the output of a runner that gives no count

ASSUME VerdictAssumption ==
    /\ mandatory \subseteq Requirement
    /\ fileScope \subseteq Path /\ protectedFiles \subseteq Path
    /\ DOMAIN baseline.files \subseteq Path /\ baseline.descends
    /\ expectTests \subseteq Check
    /\ Silent \notin Nat

Status == {"IMPLEMENTED", "PARTIAL", "MISSING", "UNKNOWN", "CANNOT_VERIFY"}

(* hashFileAtCommit: a missing file hashes to "absent". (So does one that a  *)
(* failing `git show` does not show: here git answers.)                      *)
HashAt(commit, p) == IF p \in DOMAIN commit.files THEN commit.files[p] ELSE "absent"

(* dispatch freezes the hashes with the brief.                               *)
protectedFileHashes == [p \in protectedFiles |-> HashAt(baseline, p)]

-----------------------------------------------------------------------------
(* confirmArtifact, once the claim resolves to a commit.                     *)
ArtifactFailures(commit, tree) ==
    {f \in {"not HEAD", "wrong branch", "not a descendant", "not clean"} :
        \/ f = "not HEAD" /\ tree.head # commit
        \/ f = "wrong branch" /\ ~tree.onBranch
        \/ f = "not a descendant" /\ ~commit.descends
        \/ f = "not clean" /\ ~tree.clean}

-----------------------------------------------------------------------------
(* runMechanicalGates.                                                       *)

Changed(commit) == {p \in Path : HashAt(commit, p) # HashAt(baseline, p)}

Renames(commit) ==
    {r \in Changed(commit) \X Changed(commit) :
        /\ HashAt(commit, r[1]) = "absent" /\ HashAt(baseline, r[2]) = "absent"
        /\ HashAt(commit, r[2]) = HashAt(baseline, r[1])}

(* enumerateDelta, baseline to candidate: a rename is one entry of two paths.*)
EnumerateDelta(commit) ==
    {[path |-> r[2], oldPath |-> r[1]] : r \in Renames(commit)}
    \cup {[path |-> p, oldPath |-> p] : p \in
            {q \in Changed(commit) : \A r \in Renames(commit) : q # r[1] /\ q # r[2]}}

(* outOfScope: a rename must have both of its paths in scope.                *)
OutOfScope(delta) == {c \in delta : ~({c.path, c.oldPath} \subseteq fileScope)}

Tampered(commit) ==
    {p \in protectedFiles : HashAt(commit, p) # protectedFileHashes[p]}

DiffFailures(commit) ==
    {f \in {"empty", "scope", "protected", "truncated", "signal"} :
        \/ f = "empty" /\ EnumerateDelta(commit) = {}
        \/ f = "scope" /\ OutOfScope(EnumerateDelta(commit)) # {}
        \/ f = "protected" /\ Tampered(commit) # {}
        \/ f = "truncated" /\ commit.oversized
        \/ f = "signal" /\ commit.signal}

(* looksLikeZeroTests: "0 passed" is looked for without an anchor, so it is  *)
(* found in "10 passed" too, and in no silent output.                        *)
LooksLikeZeroTests(output) == output # Silent /\ output % 10 = 0

(* runCheck: neither another exit code, nor the timeout, nor zero tests.     *)
Passes(check, ran) ==
    /\ ran.exit = "zero"
    /\ ~(check \in expectTests /\ LooksLikeZeroTests(ran.output))

FailedChecks(ran) == {c \in Check : ~Passes(c, ran[c])}

-----------------------------------------------------------------------------
(* computeEligibility. What the judge says of the mandatory requirements     *)
(* counts; what it leaves out does not.                                      *)
Unmet(lines) == {r \in mandatory : \E l \in lines : l[1] = r /\ l[2] # "IMPLEMENTED"}
Unreported(lines) == {r \in mandatory : \A l \in lines : l[1] # r}

Blocking(finding) ==
    finding.severity = "BLOCKER" /\ finding.confidence \in {"confirmed", "likely"}

(* judge: {} when it produced no valid report, {its report} otherwise.       *)
JudgeAccepts(judge) ==
    \E j \in judge :
        /\ j.verdict = "ACCEPT" /\ Unmet(j.lines) = {}
        /\ ~\E f \in j.findings : Blocking(f)

Eligible(lines, mechanicalFailures, judge) ==
    /\ mechanicalFailures = {}
    /\ Unmet(lines) = {} /\ Unreported(lines) = {}
    /\ JudgeAccepts(judge)

=============================================================================
