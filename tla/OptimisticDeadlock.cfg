SPECIFICATION FairSpec
CONSTANTS
    a = a
    b = b
    c = c
    Threads <- TwoThreads
    NoThread = NoThread
    IntMin = 0
    InitKeys <- Keys2
    Keys = {1, 2}
    Workload <- Anything2
    MaxNodes = 4
    MaxCalls = 2
    MutexInitCanFail = FALSE
PROPERTIES
    EveryCallReturns
CHECK_DEADLOCK FALSE
