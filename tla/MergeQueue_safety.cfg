CONSTANTS
    d1 = d1
    d2 = d2
    t1 = t1
    Delegation = {d1, d2}
    attemptLimit <- MCattemptLimit
    MaxCrashes = 1
    Target = {t1}
    targetOf <- MCtargetOf
    Foreign = Foreign
    MaxForeign = 1
    maxCasRetries = 2
    GitMayFail = FALSE
    LiveSweep = TRUE
SPECIFICATION Safety
INVARIANTS NoLostUpdate PublishedWasVerified LandedIsRecorded RecordedHasLanded
PROPERTIES PublishedIsFinal ImplementsPublication
