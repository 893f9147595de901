SPECIFICATION Spec
CONSTANTS
    Calls = {}
    Served = {}
    Asked = {}
    Filters <- LongFilter
    Pid = 99
    Messages <- AllMessages
    Limit = 3
    SizeMax = 236
    MaxRecv = 2
    MinBuf = 40
    Chunk = 50
    Capacity = 160
    MaxSend = 2
INVARIANTS
    FilterArrives
CHECK_DEADLOCK FALSE
