SPECIFICATION FairSpec
CONSTANTS
    p1 = p1
    p2 = p2
    t1 = t1
    t2 = t2
    None = None
    Procs <- TwoProcs
    Tools <- OneTool
    Invocations <- AttachRuns
    MaxConn = 2
    SockBuf = 1
    MaxDepth = 1
    Times = 1
    MaxLimit = 1
    Risky <- NoRisk
INVARIANTS
    SessionIsTools
PROPERTIES
    TraceAttaches
CHECK_DEADLOCK FALSE
