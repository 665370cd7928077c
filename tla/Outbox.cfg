CONSTANTS
    f1 = f1
    f2 = f2
    Flush = {f1, f2}
    BatchLimit = 2
    MaxEvents = 2
    MaxVisibility = 1
    MaxFailures = 2
SPECIFICATION Spec
INVARIANTS DeliveredWasAccepted
PROPERTIES EventsDelivered
CHECK_DEADLOCK FALSE
