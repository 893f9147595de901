------------------------------ MODULE Extension -----------------------------
(***************************************************************************)
(* The PHP extension (extension/trace.c): one PHP process running requests *)
(* with the trace hooks installed.  A process is in one of these places:   *)
(*                                                                         *)
(*   idle       between two requests                                       *)
(*   run        executing PHP code, level frames deep                      *)
(*   connect, recv              inside handle_command                      *)
(*   err, retry, reset          inside handle_error                        *)
(*   rinit      in PHP_RINIT after the control check                       *)
(*   call       in pt_execute_core after the control check                 *)
(*   exit       in pt_execute_core after the original function returned    *)
(*   rshutdown  in PHP_RSHUTDOWN                                           *)
(*   dead       the process has ended                                      *)
(*                                                                         *)
(* dotrace is the TRACE_TO_TOOL bit of PTG(dotrace): the other two bits    *)
(* only choose to print locally.                                           *)
(***************************************************************************)
EXTENDS Comm

CONSTANT MaxDepth           \* BOUND: depth of the PHP call stack

ASSUME ExtensionAssumption == MaxDepth \in Nat \ {0}

VARIABLES
    pc,         \* pc[p]: where the process is
    ret,        \* ret[p]: the hook that handle_command/handle_error return to
    dotrace,    \* dotrace[p]: PTG(dotrace) & TRACE_TO_TOOL
    sock,       \* sock[p]: PTG(sock_fd), None for -1
    pft,        \* pft[p]: PTG(pft).type
    level,      \* level[p]: PTG(level)
    local       \* local[p][l]: the local dotrace of the frame at level l

extVars == <<pc, ret, dotrace, sock, pft, level, local>>

HandlerPCs == {"connect", "recv", "err", "retry", "reset"}
HookPCs == HandlerPCs \cup {"rinit", "call", "exit", "rshutdown"}

ExtTypeOK ==
    /\ pc \in [Procs -> HookPCs \cup {"idle", "run", "dead"}]
    /\ ret \in [Procs -> {"rinit", "call"}]
    /\ dotrace \in [Procs -> BOOLEAN]
    /\ sock \in [Procs -> Conns \cup {None}]
    /\ pft \in [Procs -> FilterTypes]
    /\ level \in [Procs -> 0..MaxDepth]
    /\ local \in [Procs -> [1..MaxDepth -> BOOLEAN]]

\* php_trace_init_globals and PHP_MINIT, with the ctrl file mapped.
ExtInit ==
    /\ pc = [p \in Procs |-> "idle"]
    /\ ret = [p \in Procs |-> "rinit"]
    /\ dotrace = [p \in Procs |-> FALSE]
    /\ sock = [p \in Procs |-> None]
    /\ pft = [p \in Procs |-> "EMPTY"]
    /\ level = [p \in Procs |-> 0]
    /\ local = [p \in Procs |-> [l \in 1..MaxDepth |-> FALSE]]

Goto(p, l) == pc' = [pc EXCEPT ![p] = l]

-----------------------------------------------------------------------------
(* handle_command *)

\* The call of handle_command from the hook h: open the socket first if it is
\* not open, then read messages.
EnterHandleCommand(p, h) ==
    /\ ret' = [ret EXCEPT ![p] = h]
    /\ Goto(p, IF sock[p] = None THEN "connect" ELSE "recv")

Connect(p) ==
    /\ pc[p] = "connect"
    /\ \E c \in Conns :
        /\ pt_comm_connect(p, c)
        /\ sock' = [sock EXCEPT ![p] = c]
    /\ Goto(p, "recv")
    /\ UNCHANGED <<ctrl, ret, dotrace, pft, level, local>>

\* handle_error is entered with sock_fd = -1: no retry, straight to the reset.
ConnectFailed(p) ==
    /\ pc[p] = "connect"
    /\ pt_comm_connect_failed(p)
    /\ Goto(p, "reset")
    /\ UNCHANGED <<ctrl, ret, dotrace, sock, pft, level, local>>

\* One turn of the message loop: m is next on p's socket.
Recv(p, m) ==
    /\ pc[p] = "recv"
    /\ toPhp[sock[p]] # <<>>
    /\ m = Head(toPhp[sock[p]])
    /\ toPhp' = [toPhp EXCEPT ![sock[p]] = Tail(@)]
    /\ UNCHANGED <<ctrl, path, listening, cli, srv, acc,
                   pc, ret, sock, level, local>>

DoTrace(p) ==
    /\ Recv(p, "DO_TRACE")
    /\ dotrace' = [dotrace EXCEPT ![p] = TRUE]
    /\ UNCHANGED <<pft, toTool>>

\* Mutant of DoFilter: the filter is unpacked but not stored.
DoFilterDropped(p) ==
    \E f \in FilterTypes :
        /\ Recv(p, f)
        /\ UNCHANGED <<pft, dotrace, toTool>>

DoFilter(p) ==
    \E f \in FilterTypes :
        /\ Recv(p, f)
        /\ pft' = [pft EXCEPT ![p] = f]
        /\ UNCHANGED <<dotrace, toTool>>

\* The status is built and sent from within the loop.
DoStatus(p) ==
    /\ Recv(p, "DO_STATUS")
    /\ CanSend(sock[p])
    /\ toTool' = Sent(sock[p], "STATUS")
    /\ UNCHANGED <<dotrace, pft>>

\* Mutant of RecvEmpty: without MSG_DONTWAIT there is no PT_MSG_EMPTY.
RecvBlocks(p) == p \notin Procs /\ UNCHANGED <<ctrl, commVars, extVars>>

\* PT_MSG_EMPTY: back to the hook.
RecvEmpty(p) ==
    /\ pc[p] = "recv"
    /\ toPhp[sock[p]] = <<>>
    /\ srv[sock[p]] # None
    /\ Goto(p, ret[p])
    /\ UNCHANGED <<ctrl, commVars, ret, dotrace, sock, pft, level, local>>

\* PT_MSG_PEERDOWN, PT_MSG_ERR_SOCK, PT_MSG_ERR_BUF, PT_MSG_INVALID.  Whatever
\* was left to read of the connection is never read: the retry forgets it.
RecvError(p) ==
    /\ pc[p] = "recv"
    /\ \/ ServerGone(sock[p])
       \/ toPhp[sock[p]] # <<>> /\ Head(toPhp[sock[p]]) \in Risky
    /\ Goto(p, "err")
    /\ UNCHANGED <<ctrl, commVars, ret, dotrace, sock, pft, level, local>>

-----------------------------------------------------------------------------
(* handle_error *)

\* "retry once if ctrl bit still ON"
HandleError(p) ==
    /\ pc[p] = "err"
    /\ Goto(p, IF sock[p] # None /\ pt_ctrl_is_active(p) THEN "retry"
               ELSE "reset")
    /\ UNCHANGED <<ctrl, commVars, ret, dotrace, sock, pft, level, local>>

\* The retry overwrites sock_fd: the old descriptor stays open, and the
\* TRACE_TO_TOOL bit and the filter stay as they were.
Retry(p) ==
    /\ pc[p] = "retry"
    /\ \E c \in Conns :
        /\ pt_comm_connect(p, c)
        /\ sock' = [sock EXCEPT ![p] = c]
    /\ Goto(p, ret[p])
    /\ UNCHANGED <<ctrl, ret, dotrace, pft, level, local>>

RetryFailed(p) ==
    /\ pc[p] = "retry"
    /\ pt_comm_connect_failed(p)
    /\ sock' = [sock EXCEPT ![p] = None]
    /\ Goto(p, "reset")
    /\ UNCHANGED <<ctrl, ret, dotrace, pft, level, local>>

\* Mutant of Reset: the filter outlives the session.
ResetKeepsFilter(p) ==
    /\ pc[p] = "reset"
    /\ dotrace' = [dotrace EXCEPT ![p] = FALSE]
    /\ pt_ctrl_set_inactive({p})
    /\ CloseClient({sock[p]})
    /\ sock' = [sock EXCEPT ![p] = None]
    /\ Goto(p, ret[p])
    /\ UNCHANGED <<path, listening, srv, acc, toTool, ret, pft, level, local>>

\* Flag off, control bit off, socket closed, filter destroyed.
Reset(p) ==
    /\ pc[p] = "reset"
    /\ dotrace' = [dotrace EXCEPT ![p] = FALSE]
    /\ pt_ctrl_set_inactive({p})
    /\ CloseClient({sock[p]})
    /\ sock' = [sock EXCEPT ![p] = None]
    /\ pft' = [pft EXCEPT ![p] = "EMPTY"]
    /\ Goto(p, ret[p])
    /\ UNCHANGED <<path, listening, srv, acc, toTool, ret, level, local>>

-----------------------------------------------------------------------------
(* The hooks *)

\* PHP_RINIT up to the control check.  An open socket is left alone when the
\* control bit is off.
RInit(p) ==
    /\ pc[p] = "idle"
    /\ level' = [level EXCEPT ![p] = 0]
    /\ \/ /\ pt_ctrl_is_active(p)
          /\ EnterHandleCommand(p, "rinit")
       \/ /\ ~pt_ctrl_is_active(p)
          /\ Goto(p, "rinit")
          /\ UNCHANGED ret
    /\ UNCHANGED <<ctrl, commVars, dotrace, sock, pft, local>>

\* The rest of PHP_RINIT: a URL filter decides for the whole request (match:
\* strstr found the content in the URI), then the request is announced.
RInitFinish(p, match) ==
    /\ pc[p] = "rinit"
    /\ LET flag == IF pft[p] = "URL" THEN match ELSE dotrace[p]
       IN  /\ dotrace' = [dotrace EXCEPT ![p] = flag]
           /\ IF flag THEN SendReport(sock[p], "REQ_ENTRY")
              ELSE UNCHANGED commVars
    /\ Goto(p, "run")
    /\ UNCHANGED <<ctrl, ret, sock, pft, level, local>>

\* Mutant of Call: a process that was switched off does not look at its socket.
CallKeepsSocket(p) ==
    /\ pc[p] = "run"
    /\ level[p] < MaxDepth
    /\ \/ /\ pt_ctrl_is_active(p)
          /\ EnterHandleCommand(p, "call")
       \/ /\ ~pt_ctrl_is_active(p)
          /\ ret' = [ret EXCEPT ![p] = "call"]
          /\ Goto(p, "call")
    /\ UNCHANGED <<ctrl, commVars, dotrace, sock, pft, level, local>>

\* pt_execute_core up to the control check: the process calls a function (or
\* starts the script itself).
Call(p) ==
    /\ pc[p] = "run"
    /\ level[p] < MaxDepth
    /\ \/ /\ pt_ctrl_is_active(p)
          /\ EnterHandleCommand(p, "call")
       \/ /\ ~pt_ctrl_is_active(p)
          /\ ret' = [ret EXCEPT ![p] = "call"]
          /\ Goto(p, IF sock[p] # None THEN "err" ELSE "call")
    /\ UNCHANGED <<ctrl, commVars, dotrace, sock, pft, level, local>>

\* The flags of a frame under the filter (match: the name contains the content).
filter_frame(p, match) ==
    dotrace[p] /\ (pft[p] \in {"FUNCTION_NAME", "CLASS_NAME"} => match)

\* The rest of pt_execute_core up to the original function: filter_frame, the
\* level, and the entry frame.
Enter(p, match) ==
    /\ pc[p] = "call"
    /\ LET flag == filter_frame(p, match)
       IN  /\ local' = [local EXCEPT ![p][level[p] + 1] = flag]
           /\ IF flag THEN SendReport(sock[p], "FRAME_ENTRY")
              ELSE UNCHANGED commVars
    /\ level' = [level EXCEPT ![p] = @ + 1]
    /\ Goto(p, "run")
    /\ UNCHANGED <<ctrl, ret, dotrace, sock, pft>>

\* The original function returns or bails out.
Leave(p) ==
    /\ pc[p] = "run"
    /\ level[p] > 0
    /\ Goto(p, "exit")
    /\ UNCHANGED <<ctrl, commVars, ret, dotrace, sock, pft, level, local>>

\* Mutant of ExitFrame: only the global flag is looked at.
ExitFrameGlobal(p) ==
    /\ pc[p] = "exit"
    /\ IF dotrace[p] THEN SendReport(sock[p], "FRAME_EXIT")
       ELSE UNCHANGED commVars
    /\ local' = [local EXCEPT ![p][level[p]] = FALSE]
    /\ level' = [level EXCEPT ![p] = @ - 1]
    /\ Goto(p, "run")
    /\ UNCHANGED <<ctrl, ret, dotrace, sock, pft>>

\* The exit frame goes out only if both the local and the global flag hold.
ExitFrame(p) ==
    /\ pc[p] = "exit"
    /\ IF local[p][level[p]] /\ dotrace[p]
       THEN SendReport(sock[p], "FRAME_EXIT")
       ELSE UNCHANGED commVars
    /\ local' = [local EXCEPT ![p][level[p]] = FALSE]
    /\ level' = [level EXCEPT ![p] = @ - 1]
    /\ Goto(p, "run")
    /\ UNCHANGED <<ctrl, ret, dotrace, sock, pft>>

\* The request ends; PHP_RSHUTDOWN reports it.
EndRequest(p) ==
    /\ pc[p] = "run"
    /\ level[p] = 0
    /\ Goto(p, "rshutdown")
    /\ UNCHANGED <<ctrl, commVars, ret, dotrace, sock, pft, level, local>>

RShutdown(p) ==
    /\ pc[p] = "rshutdown"
    /\ IF dotrace[p] THEN SendReport(sock[p], "REQ_EXIT")
       ELSE UNCHANGED commVars
    /\ Goto(p, "idle")
    /\ UNCHANGED <<ctrl, ret, dotrace, sock, pft, level, local>>

-----------------------------------------------------------------------------
(* The end of the process *)

\* PHP_MSHUTDOWN and exit, or a kill at any point.  The control byte of the
\* pid is left as it is.
MShutdown(p) ==
    /\ pc[p] = "idle"
    /\ ExitClient(p)
    /\ Goto(p, "dead")
    /\ sock' = [sock EXCEPT ![p] = None]
    /\ pft' = [pft EXCEPT ![p] = "EMPTY"]
    /\ dotrace' = [dotrace EXCEPT ![p] = FALSE]
    /\ UNCHANGED <<ctrl, ret, level, local>>

KillProcess(p) ==
    /\ pc[p] \notin {"idle", "dead"}
    /\ ExitClient(p)
    /\ Goto(p, "dead")
    /\ sock' = [sock EXCEPT ![p] = None]
    /\ pft' = [pft EXCEPT ![p] = "EMPTY"]
    /\ dotrace' = [dotrace EXCEPT ![p] = FALSE]
    /\ level' = [level EXCEPT ![p] = 0]
    /\ local' = [local EXCEPT ![p] = [l \in 1..MaxDepth |-> FALSE]]
    /\ UNCHANGED <<ctrl, ret>>

\* What the process does by itself once it serves requests.
ProcessStep(p) ==
    \/ Connect(p) \/ ConnectFailed(p)
    \/ DoTrace(p) \/ DoFilter(p) \/ DoStatus(p)
    \/ RecvEmpty(p) \/ RecvError(p)
    \/ HandleError(p) \/ Retry(p) \/ RetryFailed(p) \/ Reset(p)
    \/ RInit(p) \/ \E match \in BOOLEAN : RInitFinish(p, match)
    \/ Call(p) \/ \E match \in BOOLEAN : Enter(p, match)
    \/ Leave(p) \/ ExitFrame(p)
    \/ EndRequest(p) \/ RShutdown(p)

ProcessEnd(p) == MShutdown(p) \/ KillProcess(p)

-----------------------------------------------------------------------------
(* Safety *)

\* A process that has trace data to send, or a filter installed, has a socket,
\* and it holds the client end of the socket it has: no frame_send or
\* request_send goes to a closed or foreign descriptor, whatever tools come,
\* go and die.  (In "reset" the failed retry has just overwritten sock_fd.)
FlagsOK(p) ==
    /\ sock[p] # None => cli[sock[p]] = p
    /\ (dotrace[p] \/ pft[p] # "EMPTY") /\ pc[p] # "reset" => sock[p] # None

FlagsNeedSocket == \A p \in Procs : FlagsOK(p)

\* Where the code is tells what it may rely on: messages are read from an open
\* socket, a frame that ends is open, a frame to be opened has room.
ShapeOK(p) ==
    /\ pc[p] = "recv" => sock[p] # None
    /\ pc[p] = "exit" => level[p] > 0
    /\ pc[p] = "call" \/ (pc[p] \in HandlerPCs /\ ret[p] = "call")
          => level[p] < MaxDepth

HookShape == \A p \in Procs : ShapeOK(p)
=============================================================================
