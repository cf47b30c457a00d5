SPECIFICATION LinSpec
CONSTANTS
    a = a
    b = b
    Threads <- TwoThreads
    NoThread = NoThread
    IntMin = 0
    InitKeys <- Keys2
    Keys = {1, 2}
    Workload <- Anything
    MaxNodes = 4
    MaxCalls = 3
    MutexInitCanFail = FALSE
PROPERTIES
    Linearizable
