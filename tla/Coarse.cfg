SPECIFICATION LinFairSpec
CONSTANTS
    a = a
    b = b
    c = c
    Threads <- ThreeThreads
    NoThread = NoThread
    IntMin = 0
    InitKeys <- Keys2
    Keys = {1, 2, 3}
    Workload <- Anything3
    MaxNodes = 4
    MaxCalls = 3
INVARIANTS
    TypeOK
    OwnerInside
    Adjacent
PROPERTIES
    Linearizable
    EveryCallReturns
