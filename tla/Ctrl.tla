-------------------------------- MODULE Ctrl --------------------------------
(***************************************************************************)
(* The control file (common/trace_ctrl.{c,h}): one byte per pid, mapped    *)
(* shared by every PHP process and every phptrace tool.  Bit 0 of the byte *)
(* says "some tool wants this process"; no other bit is ever used, so the  *)
(* unlocked read-modify-writes of the code amount to plain stores.         *)
(***************************************************************************)
CONSTANT Procs              \* the PHP processes (pids) in the picture

VARIABLE ctrl               \* ctrl[p]: PT_CTRL_ACTIVE is set in p's byte

CtrlTypeOK == ctrl \in [Procs -> BOOLEAN]

\* pt_mmap_create zero-fills a file that did not exist.
CtrlInit == ctrl = [p \in Procs |-> FALSE]

\* pt_ctrl_is_active(ctrl, pid)
pt_ctrl_is_active(p) == ctrl[p]

\* pt_ctrl_set_active for one pid; pt_ctrl_set_all(PT_CTRL_ACTIVE) for all.
pt_ctrl_set_active(S) == ctrl' = [p \in Procs |-> p \in S \/ ctrl[p]]

\* pt_ctrl_set_inactive for one pid; pt_ctrl_clear_all for all.
pt_ctrl_set_inactive(S) == ctrl' = [p \in Procs |-> p \notin S /\ ctrl[p]]
=============================================================================
