SPECIFICATION Spec
CONSTANTS
    Requirement = {"r1", "r2"}
    mandatory = {"r1"}
    Path = {"src", "new", "test"}
    fileScope = {"src", "new"}
    protectedFiles = {"test"}
    Check = {"unit"}
    expectTests = {"unit"}
    Silent = Silent
    Commit <- MCCommit
    baseline <- Start
    Tree <- MCTree
    Report <- MCReport
    Judgement <- MCJudgement
    Ran <- MCRan
    Unresolved = Unresolved
    attemptLimit = 2
    MaxFaults = 1
INVARIANTS RetryIsTold

CHECK_DEADLOCK FALSE
