SPECIFICATION LinSpec
CONSTANTS
    a = a
    b = b
    c = c
    Threads <- TwoThreads
    NoThread = NoThread
    IntMin = 0
    InitKeys <- Keys2
    Keys = {0, 2}
    Workload <- Anything2
    MaxNodes = 6
    MaxCalls = 2
PROPERTIES
    Linearizable
