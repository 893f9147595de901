SPECIFICATION Spec
CONSTANTS
    Lines <- MCLines
    Owner <- MCOwner
    PidMax = 7
    IntWidth = 6
    LongMax = 127
    MaxFilter = 6
    Mappers = {tool, p1}
    tool = tool
    CtrlSize = 8
    MaxFiles = 3
    Limit = 3
    Stacks <- MCStacks
    Requests <- MCRequests
    Versions = {50400, 70100}
INVARIANTS
    TypeOK
    ParsedMeaning
    RejectedForCause
    OneControlFile
    ControlByteInside
    StatusTruthful
    Resumed
PROPERTIES
    CommandEnds
CHECK_DEADLOCK FALSE
