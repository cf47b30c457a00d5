SPECIFICATION Spec
CONSTANTS
    u = u
    v = v
    Processes <- TwoProcesses
    NoProcess = NoProcess
    BufLen = 3
    InitialLen = 1
    TopOfMemory = 6
    ReadLengths = {0, 2, 4}
    WriteLengths = {0, 1, 4}
    Rooms = {1, 4}
    MaxOpens = 2
    MaxCalls = 3
INVARIANTS
    TypeOK
    OpenCounted
PROPERTIES
    OneUserDevice
SYMMETRY Interchangeable
CHECK_DEADLOCK FALSE
