CONSTANTS
    PushLimit = 2
    ReplayLimit = 5
    MaxEvents = 5
    MaxDrops = 2
SPECIFICATION Spec
INVARIANTS ShownInOrder
PROPERTIES CatchesUp
CHECK_DEADLOCK FALSE
