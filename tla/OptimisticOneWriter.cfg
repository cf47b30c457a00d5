SPECIFICATION LinSpec
CONSTANTS
    a = a
    b = b
    c = c
    Threads <- ThreeThreads
    NoThread = NoThread
    IntMin = 0
    InitKeys <- Keys2
    Keys = {1, 2, 3}
    Workload <- OneWriter
    MaxNodes = 6
    MaxCalls = 4
    MutexInitCanFail = FALSE
PROPERTIES
    Linearizable
