CONSTANTS
    NSlots = 2
    Wrap = 3
    RingLen = 3
    MaxBatch = 1
    LiveSlots = {0, 1}
    Runs = 2
    Horizon = 7
SPECIFICATION Spec
CHECK_DEADLOCK FALSE
INVARIANTS
    SharedTimebase
    PickupCaughtUp
PROPERTIES
    IntervalsExact
