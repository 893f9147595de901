------------------------------ MODULE MCSession -----------------------------
(* Small instances of PhpTrace for TLC. *)
EXTENDS PhpTrace, TLC

CONSTANTS p1, p2, t1, t2

OneProc == {p1}
TwoProcs == {p1, p2}
OneTool == {t1}
TwoTools == {t1, t2}

Run(cmd, S, f, n) ==
    [command |-> cmd, target |-> S, filter |-> f, limit |-> n]

\* Each sub-command; for trace each way a filter and a limit change its path.
AllRuns ==
    {Run("trace", Procs, "EMPTY", 1), Run("trace", Procs, "URL", -1),
     Run("trace", Procs, "FUNCTION_NAME", -1), Run("status", {p1}, "EMPTY", -1),
     Run("version", {}, "EMPTY", -1), Run("usage", {}, "EMPTY", -1)}

\* One tracer that may be followed, or interrupted, by another or by status.
TwoRuns == {Run("trace", Procs, "EMPTY", -1), Run("status", {p1}, "EMPTY", -1)}

\* Tracing with a command sent at once or not at all, and status, for which
\* the filter given means nothing.
AttachRuns ==
    {Run("trace", Procs, "URL", 1), Run("trace", {p1}, "FUNCTION_NAME", -1),
     Run("status", {p1}, "URL", -1)}

\* A tracer with a filter and one without.
FilterRuns == {Run("trace", Procs, "URL", -1), Run("trace", Procs, "EMPTY", -1)}

NoRisk == {}
\* An entry over 1MB; a first message for which there is no memory.
SomeRisk == {"FRAME_ENTRY", "DO_STATUS"}

\* The tools differ in nothing but their name.
ToolSymmetry == Permutations(Tools)
=============================================================================
