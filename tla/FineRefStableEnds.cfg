SPECIFICATION RefSpec
CONSTANTS
    a = a
    b = b
    Threads <- TwoThreads
    NoThread = NoThread
    IntMin = 0
    InitKeys <- Keys14
    Keys = {2, 3}
    Workload <- Anything
    MaxNodes = 6
    MaxCalls = 4
    MutexInitCanFail = FALSE
INVARIANTS
    KeepsItsHold
PROPERTIES
    Linearizable
