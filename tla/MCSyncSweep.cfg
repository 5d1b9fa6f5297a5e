SPECIFICATION FairSpec
CONSTANTS
    Angle <- TwoTeeth
    Wheel = 18
    Period <- Faster
    Ramping = FALSE
    Settle = 3
    Want = 2
    NoFireRevs = 1
    SpareRevs = 1
    MaxLag = 2
    Lead = 3
    Faults = 0
    Turns = 60
INVARIANT SettledButTwo
PROPERTY SweepEnds
CHECK_DEADLOCK FALSE
