CONSTANTS
    Modes = {"Stepped", "Ramp", "Hold"}
    RowsPerRun = 3
    RingCap = 2
    BufCap = 2
    MaxRuns = 2
SPECIFICATION Spec
INVARIANTS
    FileIsRun
    FlashIdle
    XipHeld
    FatViewFresh
    WriterLock
    AttentionPending
PROPERTIES
    StartPressNeverStops
