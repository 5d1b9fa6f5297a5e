SPECIFICATION FairSpec
CONSTANTS
    Files <- All
    Room = 37
    MaxKeys = 10
    Width = 32
    Scale = 4
    Exact = 8
    Ulps <- Doublings
    NaN = NaN
    Infinity = 1024
    Bad = Bad
    DefaultHold = 6
    Leading <- Leads
    Trailing <- Trails
    Wheel = 12
    TicksPerMin = 100
    MinTicks = 1
    Floor = 3
    Passes = {0, 1, 2}
    WallCap = 12
    Targets = {0, 2, 7}
    Retargets = 2
CHECK_DEADLOCK FALSE
INVARIANTS
    GridSwept
    IntervalsEmittable
    ConfigIsFile
PROPERTIES
    HoldNoOvershoot
    HoldSettles
    SchedulesEnd
