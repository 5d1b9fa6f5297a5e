SPECIFICATION Spec
CONSTANTS
    CylCount = 1
    E = 2
    PkCap = 3
    PendCap = 2
    BatchCap = 2
    Pause = 1
    Settle = 0
    Want = 1
    Gap = 2
    Lag = 1
    Stale <- OneAndNone
    Start = 1
    Most <- ThreeAndOne
    Horizon = 10
INVARIANTS RowTrue DwellTrue QueueMoves TachPaired
PROPERTY NothingLost
CHECK_DEADLOCK FALSE
