------------------------------- MODULE PhpTrace -----------------------------
(***************************************************************************)
(* PHP processes with the trace extension, the runs of the phptrace tool,  *)
(* and what they share: the control file and the socket path.              *)
(***************************************************************************)
EXTENDS Extension, Tool

vars == <<ctrl, commVars, extVars, toolVars>>

Init == CtrlInit /\ CommInit /\ ExtInit /\ ToolInit

Php(p) == (ProcessStep(p) \/ ProcessEnd(p)) /\ UNCHANGED toolVars
PhpTool(t) == (ToolStep(t) \/ ToolUser(t)) /\ UNCHANGED extVars

Next ==
    \/ \E p \in Procs : Php(p)
    \/ \E t \in Tools : PhpTool(t)

Spec == Init /\ [][Next]_vars

(* A process that lives keeps serving requests that run PHP code; a tool   *)
(* that was started keeps running.  Nobody has to start, interrupt or kill *)
(* anything.                                                               *)
Fairness ==
    /\ \A p \in Procs : /\ WF_vars(ProcessStep(p) /\ UNCHANGED toolVars)
                        /\ SF_vars(Call(p) /\ UNCHANGED toolVars)
    /\ \A t \in Tools : WF_vars(ToolStep(t) /\ UNCHANGED extVars)

FairSpec == Spec /\ Fairness

-----------------------------------------------------------------------------
(* Safety *)

\* The type invariant; the safety invariants of the components are
\* FlagsNeedSocket (Extension), SwitchHasOwner and NoOrphanConnection (Tool).
TypeOK == CtrlTypeOK /\ CommTypeOK /\ ExtTypeOK /\ ToolTypeOK

-----------------------------------------------------------------------------
(* What a tool and a process agree on *)

\* t and p talk to each other and p traces the way t asked for.
Attached(t, p) ==
    /\ sock[p] # None
    /\ srv[sock[p]] = t
    /\ pft[p] = clictx[t].filter
    /\ dotrace[p] \/ pft[p] = "URL"

\* Once a process has read all that the tool it is connected to has sent, it
\* filters by the filter of that tool and by no other, a status (with which -f
\* may be given, and is not sent) by none, and it traces only if that tool is
\* a tracer: what handle_command was told by one tool is never applied to the
\* next one.
SessionIsTools ==
    \A p \in Procs, t \in Tools :
        /\ sock[p] # None /\ srv[sock[p]] = t /\ acc[sock[p]]
        /\ toPhp[sock[p]] = <<>> /\ pc[p] \in {"run", "idle"}
        /\ tpc[t] \in {"loop", "recv", "answer"}
        => /\ pft[p] = IF clictx[t].command = "trace" THEN clictx[t].filter
                      ELSE "EMPTY"
           /\ dotrace[p] => clictx[t].command = "trace"

-----------------------------------------------------------------------------
(* Liveness *)

\* When the last tool has ended, however it ended, every process that lives
\* comes to rest: control bit off, socket closed, tracing off.
Released ==
    \A p \in Procs :
        (\A t \in Tools : tpc[t] \in EndPCs \cup {"new"})
            ~> \/ pc[p] = "dead"
               \/ ~ctrl[p] /\ sock[p] = None /\ ~dotrace[p]
               \/ \E t \in Tools : tpc[t] \notin EndPCs \cup {"new"}

\* The tracer never hangs a PHP process: whatever the tools do, each hook
\* returns to the PHP code.
HookReturns ==
    \A p \in Procs : pc[p] \in HookPCs ~> pc[p] \notin HookPCs

\* A process that a tool traces attaches to the tool, with the filter asked
\* for, unless one of them ends.
TraceAttaches ==
    \A t \in Tools, p \in Procs :
        (tpc[t] = "loop" /\ p \in clictx[t].target)
            ~> \/ Attached(t, p)
               \/ tpc[t] \in {"deinit", "off", "close"} \cup EndPCs
               \/ pc[p] = "dead"
=============================================================================
