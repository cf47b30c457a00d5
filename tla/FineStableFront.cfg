SPECIFICATION LinSpec
CONSTANTS
    a = a
    b = b
    Threads <- TwoThreads
    NoThread = NoThread
    IntMin = 0
    InitKeys <- Keys1
    Keys = {2, 3}
    Workload <- Anything
    MaxNodes = 5
    MaxCalls = 4
    MutexInitCanFail = FALSE
INVARIANTS
    NoLostNode
PROPERTIES
    Linearizable
