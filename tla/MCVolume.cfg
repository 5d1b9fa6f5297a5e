SPECIFICATION Spec
CONSTANTS
    Size = 12
    K = 2
    Contents <- AnyContents
    Blank = blank
    Mbr = 0
    Vbr = 2
    Fat = 4
    Dir = 6
    Data <- DataSectors
    Config = config
    Version = version
    LastName = 2
    Firmware = {v1, v2}
    Default = default
    Edits = {edit}
    Measured <- RunRows
    t1 = t1
    t2 = t2
    t3 = t3
    t4 = t4
    Record = record
    Absent = absent
    Empty = empty
    MaxEvents = 4
CHECK_DEADLOCK FALSE
INVARIANTS
    FilesKept
    NoCrossLinks
    VersionNeverStale
PROPERTIES
    IsSectorStore
    NeverOverwritten
