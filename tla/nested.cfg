SPECIFICATION HSpec
CONSTANTS
    p1 = p1
    t1 = t1
    None = None
    Procs <- OneProc
    Tools <- OneTool
    Invocations <- TraceRuns
    MaxConn = 3
    SockBuf = 1
    MaxDepth = 3
    Times = 2
    MaxLimit = 1
    Risky <- NoRisk
PROPERTIES
    ExitMatchesEntry
CHECK_DEADLOCK FALSE
