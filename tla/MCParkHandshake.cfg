CONSTANTS
    Period = 7
    ParkWait = 1
    PollMax = 3
    ReadTime = 2
    Guard = 2
    Backstop = 4
    EntryMax = 1
    Lag = 1
    MaxGap = 5
SPECIFICATION Spec
INVARIANTS XipSafe EdgeOnTime NoStaleAck
PROPERTY ParkEnds
