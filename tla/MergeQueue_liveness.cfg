CONSTANTS
    d1 = d1
    d2 = d2
    t1 = t1
    Delegation = {d1, d2}
    attemptLimit <- MConce
    MaxCrashes = 1
    Target = {t1}
    targetOf <- MCtargetOf
    Foreign = Foreign
    MaxForeign = 0
    maxCasRetries = 1
    GitMayFail = TRUE
    LiveSweep = TRUE
SPECIFICATION Spec
PROPERTIES TargetSlotFreed
