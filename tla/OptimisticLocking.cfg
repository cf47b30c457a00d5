SPECIFICATION FairSpec
CONSTANTS
    a = a
    b = b
    c = c
    Threads <- ThreeThreads
    NoThread = NoThread
    IntMin = 0
    InitKeys <- Keys2
    Keys = {1, 2, 3}
    Workload <- Mixed
    MaxNodes = 5
    MaxCalls = 3
    MutexInitCanFail = TRUE
INVARIANTS
    TypeOK
    SortedLinks
    LocksInFrame
PROPERTIES
    NextWrittenUnderLock
    OneKindReturns
CHECK_DEADLOCK FALSE
