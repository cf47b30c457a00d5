SPECIFICATION Spec
CONSTANTS
    a = a
    b = b
    c = c
    Threads <- TwoThreads
    NoThread = NoThread
    IntMin = 0
    InitKeys <- Keys2
    Keys = {1, 3}
    Workload <- Adders
    MaxNodes = 3
    MaxCalls = 2
    MutexInitCanFail = FALSE
INVARIANTS
    ValidatedAdjacency
