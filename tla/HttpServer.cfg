SPECIFICATION FairSpec
CONSTANTS
    v = v
    w = w
    c0 = c0
    c1 = c1
    c2 = c2
    Workers <- TwoWorkers
    Clients <- ThreeClients
    Main = Main
    NoOwner = NoOwner
    NoSocket = NoSocket
    MaxRequests = 2
    Request <- Requests
INVARIANTS
    TypeOK
    ConnectionOnce
    NoLostWakeup
    PoolAlive
PROPERTIES
    EachServed
    ShutdownEnds
CHECK_DEADLOCK FALSE
