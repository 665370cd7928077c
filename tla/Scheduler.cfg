CONSTANTS
    d1 = d1
    d2 = d2
    Delegation = {d1, d2}
    attemptLimit <- MCattemptLimit
    MaxCrashes = 2
    maxWorkers = 1
    Pid = {p1, p2}
    NoPid = NoPid
    PidReuse = FALSE
    LiveSweep = TRUE
SPECIFICATION Spec
INVARIANTS TypeOK ActiveCycleOwnsState RunningRunIsLive NoReplacementBesideWorker WorkerSlots AcceptedWasVerified
PROPERTIES LifecycleEdges RunsStayTerminal SlotReleased
