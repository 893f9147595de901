------------------------------- MODULE Launch -------------------------------
(***************************************************************************)
(* One run of the tool from argv to exit (src/cli.c, main): the command    *)
(* line, the control file, the socket, the command, the clean up; beside   *)
(* PHP processes that map the control file, start, fail and end, and the   *)
(* one whose status is asked for.  What `trace` does between its start and *)
(* its end is module Tool.                                                 *)
(***************************************************************************)
EXTENDS Cli, CtrlFile, Status

CONSTANT tool               \* the mapper that is the tool

ASSUME LaunchAssumption == tool \in Mappers /\ CtrlSize = PidMax + 1

VARIABLE lpc    \* "parse", "ctrl", "listen", "trace", "status", "close",
                \* "exited", "killed"

vars == <<cliVars, fileVars, statusVars, lpc>>

TypeOK ==
    /\ CliTypeOK /\ FileTypeOK /\ StatusTypeOK
    /\ lpc \in {"parse", "ctrl", "listen", "trace", "status", "close",
                "exited", "killed"}

Init == CliInit /\ FileInit /\ StatusInit /\ lpc = "parse"

-----------------------------------------------------------------------------
\* The end of the process takes the mapping and the tracing with it.
Exit(how) ==
    /\ lpc' = how
    /\ ToolGone
    /\ spc' = IF how = "killed" THEN "killed" ELSE spc
    /\ IF mpc[tool] = "out" THEN UNCHANGED fileVars ELSE Unmap(tool)
    /\ UNCHANGED <<cliVars, ret, readVars, histVars>>

ParseStep ==
    /\ lpc = "parse"
    /\ ParseArgs
    /\ UNCHANGED <<fileVars, statusVars, lpc>>

ParseEnded ==
    /\ lpc = "parse"
    /\ ppc = "parsed"
    /\ lpc' = "ctrl"
    /\ UNCHANGED <<cliVars, fileVars, statusVars>>

\* exit() in parse_args.
ParseExits == lpc = "parse" /\ ppc \in {"rejected", "usage", "segv"} /\ Exit("exited")

CreateCtrl ==
    /\ lpc = "ctrl"
    /\ CreateStep(tool)
    /\ lpc' = IF mpc'[tool] = "mapped" THEN "listen" ELSE lpc
    /\ UNCHANGED <<cliVars, statusVars>>

CreateCtrlFailed == lpc = "ctrl" /\ mpc[tool] = "failed" /\ Exit("exited")

\* pt_comm_listen has succeeded: on to the command.
Listen ==
    /\ lpc = "listen"
    /\ clictx.command \in {"trace", "status", "version"}
    /\ CASE clictx.command = "trace" ->
              lpc' = "trace" /\ UNCHANGED statusVars
         [] clictx.command = "status" ->
              lpc' = "status" /\ StatusMain(clictx.ptrace)
         [] OTHER -> lpc' = "close" /\ UNCHANGED statusVars
    /\ UNCHANGED <<cliVars, fileVars>>

\* pt_comm_listen fails, or there is no command and usage() exits.
ListenExits == lpc = "listen" /\ Exit("exited")

StatusRuns ==
    /\ lpc = "status"
    /\ IF spc = "end"
       THEN lpc' = "close" /\ UNCHANGED statusVars
       ELSE StatusStep /\ UNCHANGED lpc
    /\ UNCHANGED <<cliVars, fileVars>>

\* The limit is reached, or an interrupt.
TraceEnds ==
    /\ lpc = "trace"
    /\ lpc' = "close"
    /\ UNCHANGED <<cliVars, fileVars, statusVars>>

\* pt_comm_close, pt_ctrl_close, pt_filter_dtr, return.
Close == lpc = "close" /\ Exit("exited")

KillTool == lpc \notin {"exited", "killed"} /\ Exit("killed")

\* What others do while neither this run's file operations nor its use of the
\* bytes are near commutes with its steps, and is left out.
MapperStep(p) ==
    /\ p # tool
    /\ lpc \in {"ctrl", "listen"}
    /\ FileStep(p)
    /\ UNCHANGED <<cliVars, statusVars, lpc>>

\* Likewise, the process starts to matter when its status is asked for; a stop
\* may come after the tool has gone.
PhpStep ==
    /\ lpc = "status" \/ php.how = "stopping"
    /\ PhpRuns \/ PhpStops \/ PhpDies
    /\ UNCHANGED <<cliVars, fileVars, lpc>>

ToolStep ==
    \/ ParseStep \/ ParseEnded \/ ParseExits
    \/ CreateCtrl \/ CreateCtrlFailed
    \/ Listen \/ ListenExits
    \/ StatusRuns \/ Close

Next ==
    \/ ToolStep \/ TraceEnds \/ KillTool
    \/ \E p \in Mappers : MapperStep(p)
    \/ PhpStep

\* The tool goes on while it lives; nothing is assumed about anybody else.
Spec == Init /\ [][Next]_vars /\ WF_vars(ToolStep)

-----------------------------------------------------------------------------
\* When a command starts with a pid, the byte it sets and clears lies in the
\* mapping (cli.c:231, trace_ctrl.h:26).
ControlByteInside ==
    /\ lpc = "trace" \/ (lpc = "status" /\ spc \in {"main", "recv", "cut"})
    /\ clictx.pid \notin {PT_PID_INVALID, PT_PID_ALL}
    => clictx.pid \in 0..(seg[tool] - 1)

\* Where the tool can stay for ever: waiting for the rest of a message that a
\* process which lives does not send (trace_comm.c:170), and counting the frames
\* of a process that has died in its hands (ptrace.c:129).
Stuck ==
    \/ spc = "cut" /\ php.how # "gone"
    \/ spc = "depth" /\ php.how = "gone"

\* Every run other than a trace comes to its end, or gets stuck in one of the
\* two places of Stuck and stays there: no option, no failure of a call, no
\* moment at which the PHP process stops or dies makes the tool hang elsewhere.
\* (A version older than every preset is excepted: the walk goes through
\* whatever is found at offsets that do not fit.)
CommandEnds ==
    \/ <>(lpc \in {"trace", "exited", "killed"})
    \/ <>[]Stuck
    \/ <>~Covered
=============================================================================
