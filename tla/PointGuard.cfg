CONSTANTS
    d1 = d1
    t1 = t1
    Delegation = {d1}
    attemptLimit <- MCattemptLimit
    MaxCrashes = 2
    maxWorkers = 1
    Pid = {p1, p2}
    NoPid = NoPid
    PidReuse = TRUE
    Target = {t1}
    targetOf <- MCtargetOf
    Foreign = Foreign
    MaxForeign = 2
    maxCasRetries = 2
    GitMayFail = TRUE
    LiveSweep = TRUE
SPECIFICATION Spec
SYMMETRY MCSymmetry
INVARIANTS MergedIsLatestCandidate
PROPERTIES ImplementsScheduler ImplementsMergeQueue ImplementsPublication
