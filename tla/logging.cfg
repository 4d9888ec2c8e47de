SPECIFICATION LoggingSpec
CONSTANTS
    p1 = p1
    p2 = p2
    Capacity = 2
    Span = 8
    Start = 6
    MaxBatch = 3
    MaxPushes = 6
INVARIANTS
    CellsOwned
    NoStrandedRecord
    CountsCover
    FlushMeansDone
    WireInOrder
    CountsExact
PROPERTIES
    ImplementsFifo
    MpscImplementsFifo
    LoggingSettles
CHECK_DEADLOCK FALSE
