SPECIFICATION Spec
CONSTANTS
    v = v
    w = w
    c0 = c0
    c1 = c1
    c2 = c2
    Workers <- TwoWorkers
    Clients <- ThreeClients
    Main = Main
    NoOwner = NoOwner
    NoSocket = NoSocket
    MaxRequests = 1
    Request <- Requests
INVARIANT
    EndsOnlyWhenDone
CHECK_DEADLOCK FALSE
