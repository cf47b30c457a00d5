SPECIFICATION RefSpec
CONSTANTS
    a = a
    b = b
    Threads <- TwoThreads
    NoThread = NoThread
    IntMin = 0
    InitKeys <- Keys1
    Keys = {2}
    Workload <- Anything
    MaxNodes = 6
    MaxCalls = 4
    MutexInitCanFail = FALSE
INVARIANTS
    KeepsItsHold
