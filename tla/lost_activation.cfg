SPECIFICATION FairSpec
CONSTANTS
    p1 = p1
    p2 = p2
    t1 = t1
    t2 = t2
    None = None
    Procs <- OneProc
    Tools <- TwoTools
    Invocations <- TwoRuns
    MaxConn = 3
    SockBuf = 1
    MaxDepth = 1
    Times = 2
    MaxLimit = 1
    Risky <- NoRisk
PROPERTIES
    TraceAttaches
CHECK_DEADLOCK FALSE
