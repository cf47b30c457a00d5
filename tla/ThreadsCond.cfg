SPECIFICATION FairSpec
CONSTANTS
    u = u
    v = v
    w = w
    Consumers <- ThreeConsumers
    NoOwner = NoOwner
    Elements = 4
INVARIANTS
    FlagOK
    NobodyLeftAsleep
PROPERTIES
    ConsumersEnd
CHECK_DEADLOCK FALSE
