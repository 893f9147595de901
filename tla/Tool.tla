-------------------------------- MODULE Tool --------------------------------
(***************************************************************************)
(* The phptrace command line (src/cli.c, src/trace.c, src/status.c): one   *)
(* run of it per member of Tools.  A run is in one of these places:        *)
(*                                                                         *)
(*   new, bind      before and after the unlink() of pt_comm_listen        *)
(*   usage          in usage(), which calls exit()                         *)
(*   on             about to switch the control bytes on                   *)
(*   loop           at the top of the loop of trace_ext                    *)
(*   filter, trace  in pt_send_msg, the filter / DO_TRACE to be sent       *)
(*   recv           in the receive round over the descriptors in ready     *)
(*   wait, ask, answer  in status_ext: for a client, sending, for a reply  *)
(*   deinit, off    closing the connections, switching the bytes off       *)
(*   close          closing the listener in main                           *)
(*   done, killed, sigpipe   ended: exit, killed, by SIGPIPE in a send     *)
(***************************************************************************)
EXTENDS Comm

CONSTANTS
    Invocations,    \* the command lines considered, see Invocation below
    Times,          \* messages taken from one client per round (code: 10)
    MaxLimit        \* BOUND: largest value of -l

\* A command line after parse_args: the sub-command, the pids addressed, the
\* filter type and the limit (-1: unlimited, which is also what -l 0 means).
Invocation ==
    [command : {"trace", "status", "version", "usage"},
     target : SUBSET Procs, filter : FilterTypes, limit : -1..MaxLimit]

ASSUME ToolAssumption ==
    /\ Invocations \subseteq Invocation
    /\ \A i \in Invocations : i.limit # 0
    /\ Times \in Nat \ {0}
    /\ MaxLimit \in Nat

VARIABLES
    tpc,        \* tpc[t]: where the run is
    clictx,     \* clictx[t]: its command line; limit counts down
    cur,        \* cur[t]: the client being sent to or asked
    ready,      \* ready[t]: readable descriptors still to serve this round
    quota       \* quota[t]: messages left for the first of them

toolVars == <<tpc, clictx, cur, ready, quota>>

OnPCs == {"loop", "filter", "trace", "recv", "wait", "ask", "answer",
          "deinit", "off"}
ServePCs == OnPCs \ {"off", "wait"}
ListenPCs == OnPCs \cup {"usage", "on", "close"}
EndPCs == {"done", "killed", "sigpipe"}

ToolTypeOK ==
    /\ tpc \in [Tools -> ListenPCs \cup EndPCs \cup {"new", "bind"}]
    /\ clictx \in [Tools -> Invocation]
    /\ cur \in [Tools -> Conns \cup {None}]
    /\ ready \in [Tools -> SUBSET Conns]
    /\ quota \in [Tools -> 0..Times]

ToolInit ==
    /\ tpc = [t \in Tools |-> "new"]
    /\ clictx \in [Tools -> Invocations]
    /\ cur = [t \in Tools |-> None]
    /\ ready = [t \in Tools |-> {}]
    /\ quota = [t \in Tools |-> 0]

ToolGoto(t, l) == tpc' = [tpc EXCEPT ![t] = l]

-----------------------------------------------------------------------------
(* main: start, sub-command, end *)

\* main up to the unlink() in pt_comm_listen.
Start(t) ==
    /\ tpc[t] = "new"
    /\ unlink
    /\ ToolGoto(t, "bind")
    /\ UNCHANGED <<ctrl, listening, cli, srv, acc, toPhp, toTool,
                   clictx, cur, ready, quota>>

\* The rest of pt_comm_listen, then the switch over the sub-commands.
Listen(t) ==
    /\ tpc[t] = "bind"
    /\ pt_comm_listen(t)
    /\ ToolGoto(t, CASE clictx[t].command \in {"trace", "status"} -> "on"
                     [] clictx[t].command = "version" -> "close"
                     [] OTHER -> "usage")
    /\ UNCHANGED <<ctrl, clictx, cur, ready, quota>>

\* Another run bound the name since the unlink(): main gives up.
ListenFailed(t) ==
    /\ tpc[t] = "bind"
    /\ path # None
    /\ ToolGoto(t, "done")
    /\ UNCHANGED <<ctrl, commVars, clictx, cur, ready, quota>>

\* The state of a run that has ended.
Ended(t, l) ==
    /\ ToolGoto(t, l)
    /\ ExitServer(t)
    /\ cur' = [cur EXCEPT ![t] = None]
    /\ ready' = [ready EXCEPT ![t] = {}]
    /\ quota' = [quota EXCEPT ![t] = 0]
    /\ UNCHANGED clictx

\* usage() exits: the socket file stays.
Usage(t) ==
    /\ tpc[t] = "usage"
    /\ Ended(t, "done")
    /\ UNCHANGED <<ctrl, path>>

\* pt_comm_close(sfd, listen_addr): the name is removed, whoever bound it.
Close(t) ==
    /\ tpc[t] = "close"
    /\ unlink
    /\ Ended(t, "done")
    /\ UNCHANGED ctrl

\* Control switch on: pt_trace_main, status_ext.
SwitchOn(t) ==
    /\ tpc[t] = "on"
    /\ pt_ctrl_set_active(clictx[t].target)
    /\ ToolGoto(t, IF clictx[t].command = "trace" THEN "loop" ELSE "wait")
    /\ UNCHANGED <<commVars, clictx, cur, ready, quota>>

\* Mutant of Deinit: the connections stay open.
DeinitLeavesOpen(t) ==
    /\ tpc[t] = "deinit"
    /\ ToolGoto(t, "off")
    /\ cur' = [cur EXCEPT ![t] = None]
    /\ ready' = [ready EXCEPT ![t] = {}]
    /\ quota' = [quota EXCEPT ![t] = 0]
    /\ UNCHANGED <<ctrl, commVars, clictx>>

\* deinit of trace_ext and status_ext: close the accepted connections.
Deinit(t) ==
    /\ tpc[t] = "deinit"
    /\ CloseServer(Accepted(t))
    /\ ToolGoto(t, "off")
    /\ cur' = [cur EXCEPT ![t] = None]
    /\ ready' = [ready EXCEPT ![t] = {}]
    /\ quota' = [quota EXCEPT ![t] = 0]
    /\ UNCHANGED <<ctrl, path, listening, cli, toPhp, clictx>>

\* Control switch off: pt_trace_main, status_ext.
SwitchOff(t) ==
    /\ tpc[t] = "off"
    /\ pt_ctrl_set_inactive(clictx[t].target)
    /\ ToolGoto(t, "close")
    /\ UNCHANGED <<commVars, clictx, cur, ready, quota>>

-----------------------------------------------------------------------------
(* trace_ext *)

\* Mutant of Interrupt: the handler's way out skips the switch off.
InterruptSkipsOff(t) ==
    /\ tpc[t] = "loop"
    /\ ToolGoto(t, "close")
    /\ UNCHANGED <<ctrl, commVars, clictx, cur, ready, quota>>

\* SIGINT or SIGTERM arrived; it is looked at only here.
Interrupt(t) ==
    /\ tpc[t] = "loop"
    /\ ToolGoto(t, "deinit")
    /\ UNCHANGED <<ctrl, commVars, clictx, cur, ready, quota>>

\* "accept first", then pt_send_msg.
Accept(t) ==
    /\ tpc[t] = "loop"
    /\ \E c \in Conns :
        /\ pt_comm_accept(t, c)
        /\ cur' = [cur EXCEPT ![t] = c]
    /\ ToolGoto(t, IF clictx[t].filter # "EMPTY" THEN "filter" ELSE "trace")
    /\ UNCHANGED <<ctrl, clictx, ready, quota>>

\* Mutant of SendFilter: DO_TRACE follows no filter at all.
SendFilterOnly(t) ==
    /\ tpc[t] = "filter"
    /\ SendCommand(cur[t], clictx[t].filter)
    /\ ToolGoto(t, "loop")
    /\ cur' = [cur EXCEPT ![t] = None]
    /\ UNCHANGED <<ctrl, clictx, ready, quota>>

\* pt_send_msg: first the filter, if there is one; a URL filter stands for
\* DO_TRACE as well, the process decides at its next request.
SendFilter(t) ==
    /\ tpc[t] = "filter"
    /\ SendCommand(cur[t], clictx[t].filter)
    /\ IF clictx[t].filter # "URL"
       THEN ToolGoto(t, "trace") /\ UNCHANGED cur
       ELSE ToolGoto(t, "loop") /\ cur' = [cur EXCEPT ![t] = None]
    /\ UNCHANGED <<ctrl, clictx, ready, quota>>

SendTrace(t) ==
    /\ tpc[t] = "trace"
    /\ SendCommand(cur[t], "DO_TRACE")
    /\ ToolGoto(t, "loop")
    /\ cur' = [cur EXCEPT ![t] = None]
    /\ UNCHANGED <<ctrl, clictx, ready, quota>>

\* A send to a client that has closed its end raises SIGPIPE, which the tool
\* neither handles nor ignores.
SigPipe(t) ==
    /\ tpc[t] \in {"filter", "trace", "ask"}
    /\ cli[cur[t]] = None
    /\ Ended(t, "sigpipe")
    /\ UNCHANGED <<ctrl, path>>

\* No client waits: select() reports the readable descriptors.
Select(t) ==
    /\ tpc[t] = "loop"
    /\ Pending(t) = {}
    /\ \E c \in Accepted(t) : Readable(c)
    /\ ready' = [ready EXCEPT ![t] = {c \in Accepted(t) : Readable(c)}]
    /\ quota' = [quota EXCEPT ![t] = Times]
    /\ ToolGoto(t, "recv")
    /\ UNCHANGED <<ctrl, commVars, clictx, cur>>

\* trace_single_process is done with c: on to the next descriptor.
NextClient(t, c) ==
    /\ ready' = [ready EXCEPT ![t] = @ \ {c}]
    /\ IF ready[t] = {c}
       THEN ToolGoto(t, "loop") /\ quota' = [quota EXCEPT ![t] = 0]
       ELSE UNCHANGED tpc /\ quota' = [quota EXCEPT ![t] = Times]

\* The descriptor served is the lowest of the round.
Serving(t, c) ==
    /\ tpc[t] = "recv"
    /\ c \in ready[t]
    /\ \A d \in ready[t] : c <= d

\* Mutant of Counted: an unlimited run counts down too.
CountedUnlimited(t, m) ==
    m = IF clictx[t].filter = "URL" THEN "REQ_EXIT" ELSE "FRAME_EXIT"

\* PT_DECR_LIMIT: requests are counted under a URL filter, frames otherwise;
\* only the exit reports count.
Counted(t, m) ==
    /\ clictx[t].limit # -1
    /\ m = IF clictx[t].filter = "URL" THEN "REQ_EXIT" ELSE "FRAME_EXIT"

\* One message of trace_single_process.
Display(t, c) ==
    /\ Serving(t, c)
    /\ toTool[c] # <<>>
    /\ toTool' = [toTool EXCEPT ![c] = Tail(@)]
    /\ LET left == IF Counted(t, Head(toTool[c]))
                   THEN clictx[t].limit - 1 ELSE clictx[t].limit
       IN  /\ clictx' = [clictx EXCEPT ![t].limit = left]
           /\ IF left = 0       \* PT_STOP_MATCH
              THEN /\ ToolGoto(t, "deinit")
                   /\ UNCHANGED <<ready, quota>>
              ELSE IF quota[t] = 1
              THEN NextClient(t, c)
              ELSE /\ quota' = [quota EXCEPT ![t] = @ - 1]
                   /\ UNCHANGED <<tpc, ready>>
    /\ UNCHANGED <<ctrl, path, listening, cli, srv, acc, toPhp, cur>>

\* PT_MSG_EMPTY
Drained(t, c) ==
    /\ Serving(t, c)
    /\ toTool[c] = <<>>
    /\ cli[c] # None
    /\ NextClient(t, c)
    /\ UNCHANGED <<ctrl, commVars, clictx, cur>>

\* PT_MSG_PEERDOWN, or an error although the peer is there: "process detached".
Detach(t, c) ==
    /\ Serving(t, c)
    /\ ClientGone(c) \/ (toTool[c] # <<>> /\ Head(toTool[c]) \in Risky)
    /\ CloseServer({c})
    /\ NextClient(t, c)
    /\ UNCHANGED <<ctrl, path, listening, cli, toPhp, clictx, cur>>

-----------------------------------------------------------------------------
(* status_ext *)

StatusAccept(t) ==
    /\ tpc[t] = "wait"
    /\ \E c \in Conns :
        /\ pt_comm_accept(t, c)
        /\ cur' = [cur EXCEPT ![t] = c]
    /\ ToolGoto(t, "ask")
    /\ UNCHANGED <<ctrl, clictx, ready, quota>>

StatusAsk(t) ==
    /\ tpc[t] = "ask"
    /\ SendCommand(cur[t], "DO_STATUS")
    /\ ToolGoto(t, "answer")
    /\ UNCHANGED <<ctrl, clictx, cur, ready, quota>>

\* One message is read, whatever it is; anything but STATUS is an error.
StatusAnswer(t) ==
    /\ tpc[t] = "answer"
    /\ Readable(cur[t])
    /\ toTool' = [toTool EXCEPT ![cur[t]] = IF @ = <<>> THEN @ ELSE Tail(@)]
    /\ ToolGoto(t, "deinit")
    /\ UNCHANGED <<ctrl, path, listening, cli, srv, acc, toPhp,
                   clictx, cur, ready, quota>>

\* Two seconds pass, or a signal interrupts the select().
StatusTimeout(t) ==
    /\ \/ tpc[t] = "wait" /\ Pending(t) = {}
       \/ tpc[t] = "answer" /\ ~Readable(cur[t])
    /\ ToolGoto(t, "deinit")
    /\ UNCHANGED <<ctrl, commVars, clictx, cur, ready, quota>>

-----------------------------------------------------------------------------
(* Composition *)

\* SIGKILL, or a crash, at any point.
KillTool(t) ==
    /\ tpc[t] \in ListenPCs \cup {"bind"}
    /\ Ended(t, "killed")
    /\ UNCHANGED <<ctrl, path>>

\* What a run that has started does by itself.
ToolStep(t) ==
    \/ Listen(t) \/ ListenFailed(t) \/ Usage(t) \/ Close(t)
    \/ SwitchOn(t) \/ Deinit(t) \/ SwitchOff(t)
    \/ Accept(t) \/ SendFilter(t) \/ SendTrace(t) \/ SigPipe(t)
    \/ Select(t)
    \/ \E c \in Conns : Display(t, c) \/ Drained(t, c) \/ Detach(t, c)
    \/ StatusAccept(t) \/ StatusAsk(t) \/ StatusAnswer(t)
    \/ StatusTimeout(t)

\* What the user does to it.
ToolUser(t) == Start(t) \/ Interrupt(t) \/ KillTool(t)

-----------------------------------------------------------------------------
(* Safety *)

\* A control byte is on only for as long as some tool that addressed the pid
\* is between its switch on and its switch off, or died in between: a tool
\* that ends properly leaves no process switched on behind it.
SwitchHasOwner ==
    \A p \in Procs : ctrl[p] =>
        \E t \in Tools : /\ p \in clictx[t].target
                         /\ tpc[t] \in OnPCs \cup {"killed", "sigpipe"}

\* A tool that has ended, in whatever way, holds neither end of anything: a
\* process blocked on it is released.  A tool that is running holds accepted
\* connections only while it serves them.
ConnOK(c) ==
    srv[c] # None =>
        /\ srv[c] \in listening
        /\ tpc[srv[c]] \in ListenPCs
        /\ acc[c] => tpc[srv[c]] \in ServePCs

NoOrphanConnection == \A c \in Conns : ConnOK(c)

\* Where the code is tells what it may rely on: a listener is open exactly
\* between pt_comm_listen and the end, a round has messages left to take, a
\* client is addressed while it is sent to, a filter is sent only if there is
\* one; a closed server end is not an accepted one.
ToolOK(t) ==
    /\ tpc[t] \in ListenPCs <=> t \in listening
    /\ tpc[t] = "recv" => quota[t] > 0
    /\ tpc[t] \in {"filter", "trace", "ask", "answer"} => cur[t] # None
    /\ tpc[t] = "filter" => clictx[t].filter # "EMPTY"

ToolShape ==
    /\ \A t \in Tools : ToolOK(t)
    /\ \A c \in Conns : acc[c] => srv[c] # None
=============================================================================
