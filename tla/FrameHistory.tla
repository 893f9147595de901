---------------------------- MODULE FrameHistory ----------------------------
(***************************************************************************)
(* PhpTrace with a history variable: for each open frame, the tool that    *)
(* was sent its entry.  What is recorded is the message itself, not the    *)
(* flags that led to it.                                                   *)
(***************************************************************************)
EXTENDS PhpTrace

VARIABLE entered    \* entered[p][l]: the tool that was sent the entry of the
                    \* frame at level l, None if nobody was

hvars == <<vars, entered>>

\* The step puts m on the connection of p.
Puts(p, m) ==
    /\ sock[p] # None
    /\ toTool'[sock[p]] = Append(toTool[sock[p]], m)

HInit == Init /\ entered = [p \in Procs |-> [l \in 1..MaxDepth |-> None]]

HNext ==
    /\ Next
    /\ entered' = [p \in Procs |->
           IF level'[p] > level[p]
           THEN [entered[p] EXCEPT ![level'[p]] =
                    IF Puts(p, "FRAME_ENTRY") THEN srv[sock[p]] ELSE None]
           ELSE entered[p]]

HSpec == HInit /\ [][HNext]_hvars

\* The exit of a frame goes only to a tool that was sent its entry: the local
\* flag of pt_execute_core, taken before the call, and the global one, which
\* may have changed during it, together see to that, even if the tool attached
\* or left in the middle of the call.  (An exit sent into the backlog of a tool
\* that is about to end is read by nobody.)
ExitMatchesEntry ==
    [][\A p \in Procs :
          /\ level'[p] < level[p]
          /\ Puts(p, "FRAME_EXIT")
          /\ acc[sock[p]]
          => entered[p][level[p]] = srv[sock[p]]]_hvars
=============================================================================
