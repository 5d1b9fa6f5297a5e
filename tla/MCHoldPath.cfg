SPECIFICATION PathSpec
CONSTANTS
    N = 4
    W = 3
    Values = {v1, v2}
    Blank = blank
INVARIANT NoDataRace
PROPERTIES
    IsFifo
    IsLastRows
    IsHoldStream
