CONSTANTS
    Modes = {"Stepped", "Ramp", "Hold"}
    RowsPerRun = 1
    RingCap = 1
    BufCap = 1
    MaxRuns = 2
SPECIFICATION Spec
PROPERTIES
    RunEnds
    StopEndsHold
