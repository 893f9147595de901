------------------------------- MODULE Status -------------------------------
(***************************************************************************)
(* `phptrace status` (src/status.c): over the extension, or by ptrace      *)
(* (src/ptrace.c), which reads the stack out of the memory of a stopped    *)
(* process at the offsets of a preset.                                     *)
(*                                                                         *)
(* The PHP process is its stack (as in module Report), what it is serving, *)
(* and how it runs: "run", "stopping" (a SIGSTOP is pending), "traced"     *)
(* (stopped for the tool), "stopped" (stopped for nobody) or "gone".  A    *)
(* pointer into the stack is the index of a frame; NULL is 0, and BAD the  *)
(* -1 that a failing PTRACE_PEEKDATA returns.                              *)
(***************************************************************************)
EXTENDS Report

CONSTANTS Stacks,       \* the stacks the PHP process goes through
          Requests,     \* what it may be serving
          Versions      \* the PHP versions in the picture (PHP_VERSION_ID)

ASSUME StacksAssumption == \A s \in Stacks : s \in Seq(ToSet(s))

VARIABLES
    php,        \* [how, stack, sg, version, mine]: version is 0 until the tool
                \* has it, mine says that the tool traces the process
    spc,        \* place in pt_status_main and status_ptrace
    ret,        \* what pt_status_main will return
    cur,        \* addr_current_ex
    root,       \* addr_root_ex
    count,      \* i, later status->frame_count
    frames,     \* status->frames
    req,        \* status->request
    frozen,     \* history: what the process was doing when it was stopped
    peeked,     \* history: a peek has succeeded
    shown       \* "nothing", "ext", "ptrace", "interrupted"

statusVars == <<php, spc, ret, cur, root, count, frames, req, frozen, peeked, shown>>

NIL == 0
BAD == -1
NoRequest == <<>>

presets == <<70012, 50619, 50533>>

\* The process runs a version for which the table has a preset.
Covered == php.version = 0 \/ \E i \in DOMAIN presets : php.version >= presets[i]

StatusTypeOK ==
    /\ php.how \in {"run", "stopping", "traced", "stopped", "gone"}
    /\ php.stack \in Stacks \cup {<<>>} /\ php.sg \in Requests
    /\ php.version \in Versions \cup {0}
    /\ spc \in {"idle", "main", "recv", "cut", "info", "preset", "attach", "fetch",
                "request", "depth", "frames", "display", "detach", "end", "killed"}
    /\ ret \in {0, -1, -2}
    /\ count \in Nat /\ Len(frames) <= count
    /\ shown \in {"nothing", "ext", "ptrace", "interrupted"}

StatusInit ==
    /\ php \in [how : {"run"}, stack : {<<>>}, sg : Requests, version : {0},
                mine : {FALSE}]
    /\ spc = "idle" /\ ret = 0
    /\ cur = NIL /\ root = NIL /\ count = 0
    /\ frames = <<>> /\ req = NoRequest
    /\ frozen = <<>> /\ peeked = FALSE /\ shown = "nothing"

readVars == <<cur, root, count, frames, req>>
histVars == <<frozen, peeked, shown>>

-----------------------------------------------------------------------------
(* The PHP process, and the kernel *)

PhpRuns ==
    /\ php.how \in {"run", "stopping"}
    /\ \E s \in Stacks : php' = [php EXCEPT !.stack = s]
    /\ UNCHANGED <<spc, ret, readVars, histVars>>

\* The SIGSTOP of PTRACE_ATTACH arrives.
PhpStops ==
    /\ php.how = "stopping"
    /\ php' = [php EXCEPT !.how = IF php.mine THEN "traced" ELSE "stopped"]
    /\ frozen' = <<php.stack, php.sg>>
    /\ UNCHANGED <<spc, ret, readVars, peeked, shown>>

PhpDies ==
    /\ php.how # "gone"
    /\ php' = [php EXCEPT !.how = "gone", !.mine = FALSE]
    /\ UNCHANGED <<spc, ret, readVars, histVars>>

\* PTRACE_PEEKDATA and PTRACE_DETACH want a tracee that has stopped.
Peekable == php.how = "traced"

\* The tool is no more: its tracee is let go.  A SIGSTOP that is still pending
\* stops it for good; one that was about to be delivered may.
LetGo(how) ==
    CASE how = "traced" /\ php.mine -> {"run", "stopped"}
      [] OTHER -> {how}

ToolGone ==
    \E how \in LetGo(php.how) : php' = [php EXCEPT !.how = how, !.mine = FALSE]

-----------------------------------------------------------------------------
(* pt_status_main *)

\* With --ptrace the extension is not asked.
StatusMain(ptrace) ==
    /\ spc = "idle"
    /\ spc' = IF ptrace THEN "info" ELSE "main"
    /\ UNCHANGED <<php, ret, readVars, histVars>>

\* status_ext (module Tool) returns: after a failure or a timeout ptrace is
\* tried.
ExtReturns(r, s) ==
    /\ ret' = r /\ shown' = s
    /\ spc' = IF r = 0 THEN "end" ELSE "info"
    /\ UNCHANGED <<php, readVars, frozen, peeked>>

\* It returns from one of its two select() calls, which do not wait longer
\* than two seconds, or cannot send: 0 after an interrupt, -1 on an error and
\* -2 on a timeout.
StatusExt ==
    /\ spc = "main"
    /\ \/ ExtReturns(0, "interrupted")
       \/ \E r \in {-1, -2} : ExtReturns(r, "nothing")

\* pt_comm_recv_msg has the header of a message.  The rest of it, for which it
\* waits without a timeout, is on its way, or does not come: the process was
\* interrupted in send() (module Wire) or does not run.
ExtAnswer ==
    /\ spc = "main"
    /\ spc' \in {"recv", "cut"}
    /\ UNCHANGED <<php, ret, readVars, histVars>>

\* A status, or something else; the end of the process is PT_MSG_PEERDOWN.
\* (A signal does not end the wait: signal() restarts recv().)
ExtReceived ==
    \/ spc = "recv" /\ (ExtReturns(0, "ext") \/ ExtReturns(-1, "nothing"))
    \/ spc = "cut" /\ php.how = "gone" /\ ExtReturns(-1, "nothing")

-----------------------------------------------------------------------------
(* status_ptrace.  An interrupt only sets a flag that it never looks at. *)

Fails(place) ==
    /\ spc = place
    /\ spc' = "end" /\ ret' = -1
    /\ UNCHANGED <<php, readVars, histVars>>

\* get_php_info: the binary, its version and the addresses, by readlink, the
\* binary itself and gdb.
get_php_info ==
    /\ spc = "info"
    /\ php.how # "gone"
    /\ \E v \in Versions : php' = [php EXCEPT !.version = v]
    /\ spc' = "preset"
    /\ UNCHANGED <<ret, readVars, histVars>>

\* Not a PHP binary, no version, no address, no gdb.
get_php_info_failed == Fails("info")

\* The first entry that is not newer.  The loop runs up to sizeof(presets), in
\* bytes: for a version older than all of them it goes on behind the table and
\* finds an entry (here: none that fits), or NULL.
pt_ptrace_preset ==
    /\ spc = "preset"
    /\ spc' = "attach"
    /\ UNCHANGED <<php, ret, readVars, histVars>>

pt_ptrace_preset_failed == ~Covered /\ Fails("preset")

\* PTRACE_ATTACH returns at once; nobody waits for the stop.
pt_ptrace_attach ==
    /\ spc = "attach"
    /\ php.how = "run"
    /\ php' = [php EXCEPT !.how = "stopping", !.mine = TRUE]
    /\ spc' = "fetch"
    /\ UNCHANGED <<ret, readVars, histVars>>

pt_ptrace_attach_failed == Fails("attach")

\* What a peek at a pointer returns: with the offsets of a preset that does
\* not fit, anything.
Peek(value) ==
    CASE ~Peekable -> {BAD}
      [] Peekable /\ Covered -> {value}
      [] OTHER -> {BAD, NIL, value}

\* Mutant: a failing peek is not told from an address.
AfterFetchAny(addr) == IF addr = NIL THEN "detach" ELSE "request"

\* Mutant: a process that is not active is not detached.
AfterFetchLeaves(addr) ==
    CASE addr = BAD -> "detach" [] addr = NIL -> "end" [] OTHER -> "request"

\* "ptrace peek failed", "not active", or on to the status.
AfterFetch(addr) == IF addr \in {BAD, NIL} THEN "detach" ELSE "request"

pt_ptrace_fetch_current_ex ==
    /\ spc = "fetch"
    /\ \E addr \in Peek(IF php.stack = <<>> THEN NIL ELSE 1) :
         /\ root' = addr /\ cur' = addr
         /\ ret' = IF AfterFetch(addr) = "detach" THEN -1 ELSE 0
         /\ spc' = AfterFetch(addr)
    /\ peeked' = Peekable
    /\ UNCHANGED <<php, count, frames, req, frozen, shown>>

\* A peek that fails leaves what the buffer had, or -1.
Junk == <<-1>>

\* The strings of argv are read from where the pointers to them are.
pt_ptrace_build_request ==
    /\ spc = "request"
    /\ req' = IF Peekable /\ Covered
              THEN [request_build(php.sg, PT_FRAME_STACK)
                      EXCEPT !.argv = [i \in DOMAIN php.sg.argv |-> Junk]]
              ELSE NoRequest
    /\ spc' = "depth"
    /\ UNCHANGED <<php, ret, cur, root, count, frames, histVars>>

Prev(i) == IF i < Len(php.stack) THEN i + 1 ELSE NIL

\* "calculate stack depth": until NULL.  A peek that fails is not NULL, and so
\* are all that follow it.
StackDepth ==
    /\ spc = "depth"
    /\ cur # NIL
    /\ \E addr \in IF cur = BAD THEN {BAD} ELSE Peek(Prev(cur)) : cur' = addr
    /\ count' = IF cur = BAD THEN count ELSE count + 1
    /\ UNCHANGED <<php, spc, ret, root, frames, req, histVars>>

StackDepthKnown ==
    /\ spc = "depth"
    /\ cur = NIL
    /\ cur' = root
    /\ spc' = "frames"
    /\ UNCHANGED <<php, ret, root, count, frames, req, histVars>>

\* The caller is the frame below, without the exceptions of frame_build.  The
\* fields of a func that is NULL cannot be read.
pt_ptrace_build_frame(stack, i) ==
    LET ex == stack[i]
        caller == IF HasPrev(stack, i) THEN stack[i + 1] ELSE ex
        ev == IF caller.opline.set THEN caller.opline.ev ELSE "none"
        known == ex.func # NoFunc
        script == known /\ ex.func.name = NULL
    IN [type |-> PT_FRAME_STACK,
        functype |-> CASE script -> ScriptType(ev)
                       [] ~script /\ (~known \/ ex.func.scope # NULL) ->
                              IF ex.this THEN PT_FUNC_MEMBER ELSE PT_FUNC_STATIC
                       [] OTHER -> PT_FUNC_NORMAL,
        lineno |-> IF caller.opline.set THEN caller.opline.lineno ELSE 0,
        filename |-> IF caller.func.user THEN caller.func.filename ELSE NULL,
        class |-> CASE script -> NULL [] known /\ ~script -> ex.func.scope [] OTHER -> Junk,
        function |-> CASE script -> ScriptName(ev)
                       [] known /\ ~script -> ex.func.name
                       [] OTHER -> Junk,
        level |-> 1, args |-> <<>>]

BuildFrame ==
    /\ spc = "frames"
    /\ Len(frames) < count /\ cur # NIL
    /\ frames' = Append(frames, IF Peekable /\ Covered /\ cur # BAD
                                THEN pt_ptrace_build_frame(php.stack, cur) ELSE Junk)
    /\ \E addr \in IF cur = BAD THEN {BAD} ELSE Peek(Prev(cur)) : cur' = addr
    /\ UNCHANGED <<php, spc, ret, root, count, req, histVars>>

\* pt_ptrace_build_status returns 0 whatever happened.
StatusBuilt ==
    /\ spc = "frames"
    /\ Len(frames) = count \/ cur = NIL
    /\ spc' = "display"
    /\ UNCHANGED <<php, ret, readVars, histVars>>

DisplayStatus ==
    /\ spc = "display"
    /\ shown' = "ptrace" /\ ret' = 0
    /\ spc' = "detach"
    /\ UNCHANGED <<php, readVars, frozen, peeked>>

\* Mutant: a detach that fails is ignored.
DetachedIgnored(r) == r

\* A detach that fails makes the whole status fail.
Detached(r) == IF Peekable THEN r ELSE -1

pt_ptrace_detach ==
    /\ spc = "detach"
    /\ php' = IF Peekable THEN [php EXCEPT !.how = "run", !.mine = FALSE] ELSE php
    /\ ret' = Detached(ret)
    /\ spc' = "end"
    /\ UNCHANGED <<readVars, histVars>>

StatusStep ==
    \/ StatusExt \/ ExtAnswer \/ ExtReceived
    \/ get_php_info \/ get_php_info_failed
    \/ pt_ptrace_preset \/ pt_ptrace_preset_failed
    \/ pt_ptrace_attach \/ pt_ptrace_attach_failed
    \/ pt_ptrace_fetch_current_ex \/ pt_ptrace_build_request
    \/ StackDepth \/ StackDepthKnown \/ BuildFrame \/ StatusBuilt
    \/ DisplayStatus \/ pt_ptrace_detach

-----------------------------------------------------------------------------
\* Two requests agree in everything, the number of arguments included, but
\* not in what the arguments are.
SameButArgv(r, s) ==
    /\ [r EXCEPT !.argv = <<>>] = [s EXCEPT !.argv = <<>>]
    /\ DOMAIN r.argv = DOMAIN s.argv

\* A status that returns success was shown, or the user interrupted it; and
\* what ptrace has shown is the stack and the request of one moment, although
\* it took many reads of a process that runs, or dies, on its own
\* (status.c:134-187).  Two exceptions: the strings of argv, which are read from
\* where the pointers to them are (ptrace.c:194), and versions of PHP older
\* than every preset, whose memory is read at offsets that do not fit.
StatusTruthful ==
    spc = "end" /\ ret = 0 =>
        /\ shown # "nothing"
        /\ shown = "ptrace" /\ Covered =>
             /\ frames = [i \in DOMAIN frozen[1] |-> pt_ptrace_build_frame(frozen[1], i)]
             /\ SameButArgv(req, request_build(frozen[2], PT_FRAME_STACK))

\* On every way out of status_ptrace a process that was seen stopped is running
\* again (status.c:176).
Resumed ==
    spc = "end" /\ peeked => php.how \notin {"stopping", "traced", "stopped"}

\* A status that has ended on its own leaves no process stopped.
NotLeftStopped ==
    spc = "end" => php.how # "stopped"
=============================================================================
