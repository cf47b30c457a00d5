SPECIFICATION FairSpec
CONSTANTS
    a = a
    b = b
    c = c
    Threads <- ThreeThreads
    NoThread = NoThread
    IntMin = 0
    InitKeys <- Keys2
    Keys = {1, 2}
    Workload <- Anything3
    MaxNodes = 4
    MaxCalls = 3
    MutexInitCanFail = TRUE
INVARIANTS
    TypeOK
    SortedLinks
    LockOrder
    LocksInFrame
    UnlocksItsOwn
PROPERTIES
    NextWrittenUnderLock
    EveryCallReturns
CHECK_DEADLOCK FALSE
