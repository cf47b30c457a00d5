SPECIFICATION FairSpec
CONSTANTS
    v = v
    w = w
    c0 = c0
    c1 = c1
    Workers <- TwoWorkers
    Clients <- TwoClients
    NoSocket = NoSocket
    Command <- Commands
    CommandBytes = 2
    MaxSent <- OneSends
    MaxFailures = 1
    MaxReplies = 1
INVARIANTS
    TypeOK
    NoLostWakeup
    ShutdownWakesAll
    SocketOnce
PROPERTIES
    QueueServed
    WorkersEnd
CHECK_DEADLOCK FALSE
