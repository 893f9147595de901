SPECIFICATION Spec
CONSTANTS
    ExcLen = 5
    MaxDepth = 5
    MaxClock = 4
INVARIANTS
    TypeOK
    ExcExact
    TableClean
