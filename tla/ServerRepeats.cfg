SPECIFICATION Spec
CONSTANTS
    v = v
    w = w
    c0 = c0
    c1 = c1
    Workers <- TwoWorkers
    Clients <- TwoClients
    NoSocket = NoSocket
    Command <- Commands
    CommandBytes = 2
    MaxSent <- BothSend
    MaxFailures = 1
    MaxReplies = 2
INVARIANT
    ExecutedWasRead
CHECK_DEADLOCK FALSE
