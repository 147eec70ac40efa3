SPECIFICATION FairSpec
CONSTANTS
    w1 = w1
    w2 = w2
    Workers = {w1, w2}
    Kinds <- EveryKind
    Chunks = 3
    MaxPauses = 3
INVARIANTS
    TypeOK
    OneReader
    DeletedInTime
    NoWakeUpLost
PROPERTIES
    ImplementsStream
    ResponseEnds
    HandlerDeleted
CHECK_DEADLOCK FALSE
