------------------------------ MODULE MCFrames ------------------------------
(* Small instances of FrameHistory for TLC. *)
EXTENDS FrameHistory

CONSTANTS p1, t1

OneProc == {p1}
OneTool == {t1}

\* Tracing everything, and tracing some functions only.
TraceRuns ==
    {[command |-> "trace", target |-> Procs, filter |-> f, limit |-> -1] :
        f \in {"EMPTY", "FUNCTION_NAME"}}

NoRisk == {}
=============================================================================
