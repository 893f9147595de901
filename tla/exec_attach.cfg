SPECIFICATION Spec
CONSTANTS
    ExcLen = 5
    MaxDepth = 3
    MaxClock = 3
INVARIANTS
    ExcNonNegative
