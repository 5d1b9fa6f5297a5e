CONSTANTS
    Modes = {"Ramp"}
    RowsPerRun = 1
    RingCap = 1
    BufCap = 1
    MaxRuns = 2
SPECIFICATION Spec
INVARIANTS
    NeverWhileCapturing
