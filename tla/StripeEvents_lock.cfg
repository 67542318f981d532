SPECIFICATION FairSpec
CONSTANTS
    e1 = e1
    d1 = d1
    d2 = d2
    Event = {e1}
    Delivery = {d1, d2}
    Stale = 2
    MaxTime = 6
    MaxDeliveries = 4
    MaxFaults = 3
INVARIANTS
    HandledAlone
    AppliedOnce
    AckedWasHandled
PROPERTY EventHandled
CHECK_DEADLOCK FALSE
