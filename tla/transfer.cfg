SPECIFICATION Spec
CONSTANTS
    Calls <- MCCalls
    Served <- MCServed
    Asked <- MCAsked
    Filters <- MCFilters
    Pid = 99
    Messages <- AllMessages
    Limit = 3
    SizeMax = 236
    MaxRecv = 2
    MinBuf = 40
    Chunk = 50
    Capacity = 160
    MaxSend = 2
INVARIANTS
    TypeOK
    InBuffer
    HandedOverWasSent
    RoundTrip
    ShortFilterArrives
    PrintsSame
    ShownArgs
    ShownSite
PROPERTIES
    FitsArrives
    RecvReturns
    ImplementsChannel
CHECK_DEADLOCK FALSE
