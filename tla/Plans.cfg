SPECIFICATION Spec
CONSTANTS
    Step <- ThreeSteps
    dependsOn <- Join
    Delegation <- ThreeDelegations
    Submission = {first}
    Boot = Boot
    NoOne = NoOne
    maxWorkers = 4
    attemptLimit = 2
    MaxPasses = 1
INVARIANTS BuiltOnDependencies DoneIsMerged
PROPERTIES OneOwnerForGood StepsSettle ComesUp
CHECK_DEADLOCK FALSE
