SPECIFICATION Spec
CONSTANTS
    Angle <- Shifted
    Wheel = 18
    Period <- UpAndDown
    Ramping = TRUE
    Settle = 1
    Want = 1
    NoFireRevs = 1
    SpareRevs = 1
    MaxLag = 2
    Lead = 3
    Faults = 1
    Turns = 5
INVARIANTS
    AnglesTrue
    Healed
CHECK_DEADLOCK FALSE
