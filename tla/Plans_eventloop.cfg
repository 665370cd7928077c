SPECIFICATION Spec
CONSTANTS
    Step <- TwoSteps
    dependsOn <- Join
    Delegation <- TwoDelegations
    Submission = {first}
    Boot = Boot
    NoOne = NoOne
    maxWorkers = 1
    attemptLimit = 2
    MaxPasses = 0
PROPERTIES EventLoopTurns
CHECK_DEADLOCK FALSE
