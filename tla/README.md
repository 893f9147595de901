# phptrace: a TLA+ verification project

phptrace traces running PHP processes. A PHP extension (`extension/trace.c`)
hooks the start of requests and every function call; a command line tool
(`src/cli.c`, `src/trace.c`, `src/status.c`) asks processes to report what they
execute. The two sides share a control file with one byte per pid and talk over
a UNIX socket whose path is fixed.

The tool says "I want process *p*" by switching on *p*'s byte. The hooks of *p*
look at the byte; when it is on they connect to the path, read commands without
blocking (`DO_TRACE`, `DO_FILTER`, `DO_STATUS`) and then send frames, requests or
a status. Neither side holds a lock, either side can die at any point, and a
second tool can be started at any time: that is what this project is about.

## Inventory

| component | state | operations | talks to |
|---|---|---|---|
| control file (`common/trace_ctrl.*`, `trace_mmap.c`) | the file and its name, one byte per pid, a shared mapping in each process | create, size, map, unmap; set, clear, test; set and clear all | every process and tool |
| comm channel (`common/trace_comm.*`) | socket path, listeners, connections, static buffer | connect, listen, accept, send, receive, close | extension and tool |
| extension, session (`extension/trace.c`) | `sock_fd`, `dotrace`, `pft`, `level`, `pid` | RINIT, RSHUTDOWN, call hook, `handle_command`, `handle_error`, MSHUTDOWN | control file, comm channel |
| extension, timing | `exc_time_table`, the frames on the C stack | entry, exit | - |
| extension, reports | - | `frame_build`, `request_build`, `status_build`, `repr_zval` | Zend engine |
| tool, trace (`src/trace.c`) | client descriptors, `clictx.limit`, `interrupted` | accept, send commands, receive rounds, detach, stop | control file, comm channel |
| tool, status (`src/status.c`, `src/ptrace.c`) | one client | ask, wait, read; ptrace fallback | control file, comm channel, `/proc`, ptrace |
| tool, main (`src/cli.c`) | `clictx` | parse arguments, listen, dispatch, close | all of the tool |
| type codec, filter (`common/trace_type.*`, `trace_filter.*`) | - | pack, unpack, length, display | both sides |
| sds (`deps/sds`) | - | strings | vendored |

What is hard here: two tools overlap (both write the same control bytes and the
same socket path); a tool dies between switching bytes on and off; a process
reconnects while tools come and go; a sender blocks on a reader that has ended;
a table that lives for ever is kept right by each call alone;
a message arrives in pieces, and half of one may be all that was sent; a process
is read while it runs, stops or dies. The list
with source lines is under `hazards` in `PROJECT.json`.

What makes the parts correct:

* extension: it never sends to a descriptor it does not own, obeys the tool it is
  connected to and no other, never hangs the PHP process, and comes to rest when
  the tools are gone;
* tool: it switches off what it switched on, serves or closes every connection,
  gets the processes it asked for, reads the answer it waits for;
* comm channel: what is sent arrives whole, in order and once, or not at all;
* timing: exclusive time = inclusive time less that of the traced callees;
* codec: unpack inverts pack, and lengths agree with what is written;
* reports: the arguments, file and line that are shown are those of the call;
* command line: the options mean the same in every order, a wrong one is refused;
* control file: all processes see the same bytes, and a tool stays inside them;
* ptrace: what is shown is one moment of the process, which then runs on.

## Modules

    Ctrl <- Comm <- Extension -.
                 <- Tool ------+- PhpTrace <- MCSession     (TLC)
                               PhpTrace <- FrameHistory <- MCFrames  (TLC)
    Executor <- MCExecutor                                  (TLC)
    Memory, Channel <- Wire -.
    Memory <- TypeCodec <- Report -+- Transfer <- MCTransfer  (TLC)
                 Report <- Status -.
                            Cli ---+- Launch <- MCLaunch    (TLC)
                       CtrlFile ---'

    ExtensionProofs <- ToolProofs <- PhpTraceProofs, on FrameHistory  (TLAPS)
    WireProofs <- TransferProofs; CliProofs <- LaunchProofs           (TLAPS)
    ExecutorProofs                                                    (TLAPS)

The modules form four groups, each about one question: who talks to whom
(PhpTrace), how long a call took (Executor), whether what is shown is what
happened (Transfer), and what one run of the tool does from its arguments to its
exit (Launch). The first takes messages as whole and command lines as parsed; the
last two say when that is right.

**Ctrl** - `ctrl[p]` is bit 0 of the byte of pid `p`. No other bit is used, so the
unlocked read-modify-writes of the C macros are plain stores.

**Comm** - the socket path (`path`: the tool whose socket it names), the open
listeners, and a pool of connections: client end, server end, accepted or still in
the backlog, and a FIFO of whole messages each way. `unlink` and the rest of
`pt_comm_listen` are two steps, because a second tool can get between them. A
connect takes the lowest free descriptor; a failed one keeps it, as the code does.
Closing an end drops what that end had not read; what the peer sent before stays
readable. `Risky` is the set of messages whose receipt may fail on a live connection, as
`PT_MSG_INVALID`, `PT_MSG_ERR_BUF` or `PT_MSG_ERR_SOCK` (module Wire says when).

**Extension** - one process per member of `Procs`. `pc` names the place in the
code (see the head of the module). Each hook is split where other actors can
interfere: after the control check, at the connect, at each message, in
`handle_error` between the check, the retry and the reset, and at each send.
Strings are abstracted: a filter is its type, and whether it matches is chosen
freely at each request or call. `dotrace` is the `TRACE_TO_TOOL` bit. `RecvError` is every
receive that fails: the tool has gone, or the message is one of `Risky` (Comm).

**Tool** - one run of the command line per member of `Tools`; `clictx[t]` is its
parsed command line, chosen among `Invocations`. All of `main`, `pt_trace_main`,
`trace_ext`, `pt_send_msg`, `trace_single_process` and `status_ext`. An interrupt
is looked at only at the top of the loop, as in the code. A send to a client that
has gone is `SigPipe`: the tool installs no handler and passes no flag. (PHP's own
SAPIs ignore SIGPIPE, so on the other side such a send is just lost.)

**PhpTrace** - the composition, the fairness, and the properties that relate the
two sides.

**FrameHistory** - PhpTrace with one history variable, the tool that was sent the
entry of each open frame, to say which tool may be sent the exit.

**Executor** - the timing of frames, with the table, a clock and, as history
variables, the true time of the callees of each open frame (`kids`) and whether a
traced frame was ever entered below an untraced one (`orphan`).

**Channel** - what one direction of a connection promises: the messages handed
over are those sent, in order and once, up to a point at which the connection is
given up. Nothing is promised after a message was cut in the middle.

**Wire** - `trace_comm.c` byte by byte. Each side has its static buffer (`size` as
the code believes it, `cap` as it is: they differ after a failed allocation). A
message is two `send()` calls; the kernel takes the body in pieces and blocks when
the socket is full; a signal may end a blocked call, after the header too.
`pt_comm_recv_msg` is the header with its checks and one step per round of its
loop. A number of *w* bytes is its value and *w* - 1 fillers, so that bytes read at
the wrong place are not numbers; a length made of them is negative, too large or
small. `Wire` is shown to implement `Channel`: the queue is the list of messages
whose header went out, the channel is sound until a body is cut.

**Memory** - what a byte is, for both modules that handle them.

**TypeCodec** - length, pack, unpack and display of frame, request, status and
filter, as operators on records with the fields of the C structs. Display is the
parts that are printed, without layout and colours.

**Report** - what `frame_build`, `request_build`, `status_build` and `repr_zval`
make of the engine's stack, as built for PHP 7: function and class names, call
type, arguments with those beyond the declared ones, the call site. It also says what
the engine guarantees of a stack, a function and a value (`IsStack`, `IsFunc`, `IsValue`,
`IsServed`).

**Transfer** - `Report`, packed by `TypeCodec`, sent over `Wire`, unpacked from the
buffer as it then is and displayed; beside the filter message of the tool. Its
properties compare what the tool shows with the call itself.

**Cli** - `parse_args`, one step per option and one per sub-option of `-f`, with
`errno`, the width of `int` and `long`, `getsubopt`, and the string of the filter
that `sdscpy` may move. `Meaning` is the reference: what the whole line says, read
without a loop.

**CtrlFile** - `pt_mmap_create` and `pt_mmap_close` for any number of processes:
open, ftruncate, mmap and each failure are steps of their own.

**Status** - `pt_status_main` and `status_ptrace` with `ptrace.c`: the attach that
does not wait, each read of the walk over the stack, the detach. Of `status_ext`, whose
dealings with the process are in Tool, it has the ways to return: from a `select()`, which
does not wait longer than two seconds, and from the receive, which waits for the rest of a
message for as long as that takes. The kernel's side
of `ptrace` (when the stop comes, what an exit of the tracer does) is external.

**Launch** - `main`: `Cli`, then `CtrlFile` for the tool beside a PHP process that
maps it too, then the command (`trace` is left to Tool), then the clean up.

## Runs

| run | instance | checks | result |
|---|---|---|---|
| `session` | 1 process, 2 tools, 3 descriptors, every sub-command | `TypeOK`, `FlagsNeedSocket`, `SwitchHasOwner`, `NoOrphanConnection` | holds (1.9M states) |
| `attach` | 2 processes, 1 tool, 2 descriptors | `SessionIsTools`, `TraceAttaches` | holds |
| `handover` | 1 process, 2 tools | `Released`, `HookReturns` | holds |
| `exec` | table of 5, depth 5, 4 ticks | `TypeOK`, `ExcExact`, `TableClean` | holds |
| `nested` | 1 process, 3 levels of calls, 1 tracer | `ExitMatchesEntry` | holds |
| `transfer` | 2 messages of 13, over any number of connections | `TypeOK`, `InBuffer`, `HandedOverWasSent`, `RoundTrip`, `ShortFilterArrives`, `PrintsSame`, `ShownArgs`, `ShownSite`, `FitsArrives`, `RecvReturns`, `ImplementsChannel` | holds (0.4M states) |
| `cli` | some 800 command lines, a tool and a PHP process | `TypeOK`, `ParsedMeaning`, `RejectedForCause`, `OneControlFile`, `ControlByteInside`, `StatusTruthful`, `Resumed`, `CommandEnds` | holds (0.7M states) |
| `lost_activation` | as `handover` | `TraceAttaches` | violated |
| `stale_session` | a tracer with a filter and one without | `SessionIsTools` | violated |
| `exec_attach` | table of 5, depth 3 | `ExcNonNegative` | violated |
| `filter_size` | a filter content of 12 bytes | `FilterArrives` | violated |
| `left_stopped` | `status --ptrace` | `NotLeftStopped` | violated |

The passing runs show that the session protocol is sound with one tool at a time,
and which guarantees survive a second one: nobody hangs, nobody sends to a foreign
descriptor, and everything is released in the end, even when tools are killed.
`transfer` shows that the tool prints what happened, whatever pieces it arrives in;
`cli` that a line is refused only for what is wrong with it (or a left-over
`errno`), that a status by ptrace shows one moment of the process or fails, the strings of
`argv` excepted, and where the tool can hang. The runs that are violated are genuine
behaviours of the code, described under `findings` in `PROJECT.json`:

* `lost_activation`: `handle_error` switches the byte off although a new tracer
  switched it on since; the tracer waits for ever.
* `stale_session`: the retry in `handle_error` keeps the filter (and the flag) of
  the previous tool. For the same reason a process that a tracer has left may send a request
  or a frame to a status tool before it reads the question; `status_ext` reads that one
  message and reports an error.
* `exec_attach`: the residue of a traced callee of an untraced frame makes a later
  exclusive time negative.
* `filter_size`: the filter message is as long as the struct, so a content over 11
  bytes is cut and read past the end of the message.
* `left_stopped`: the attach is not waited for; reads and detach fail and the stop
  that comes later stays.

Some properties name an exception in their statement, because the code has it:
`ParsedMeaning` a content that `sdscpy` moved (`cli.c:259`), `RejectedForCause` a
left-over `errno` (`cli.c:231`, `275`), `OneControlFile` a failed create that
unlinked the shared name (`trace_mmap.c:93`), `StatusTruthful` the strings of `argv`
(`ptrace.c:194`) and versions of PHP older than every preset, `CommandEnds` a wait for the
rest of a message that a living process does not send (`trace_comm.c:170`), a count of the
frames of a process that is gone (`ptrace.c:129`), and those versions again, `InBuffer` a
failed allocation (`trace_comm.c:41`), `ShownArgs` the arguments of a user function that declares
none (`trace.c:734`), `PrintsSame` an empty text of a request, which arrives as NULL
(`trace_type.h:66`). What is left out by name is behaviour the code has; the run says that,
within its bounds, there is no other way to break the property. Also part of
the model, without a property of their own: `ptrace.c:194` reads the arguments of a script
from the array of pointers itself, and a status by ptrace shows what the bytes of the
addresses look like; a failed `connect()` and the retry leak
a descriptor, a command sent to a process that has died kills the tool by SIGPIPE,
and a tracer that takes over during a call is sent exits of frames whose entries
went to its predecessor. (The repository's README calls `-v` the "same as
version"; in the code it counts verbosity.)

In each module the operators marked "Mutant" are wrong versions of a definition
(a dropped guard, an off-by-one, a missing reset). They are not used by the
specification; replacing the definition by its mutant makes the property named in
`PROJECT.json` fail.

### Bounds, and why they are enough

Two tools are the smallest number in which one replaces another; a third adds no
new kind of neighbour, since a process talks to one tool and a tool meets others
only through the path and the bytes. Two processes are what it takes to keep a tool busy with
one while the other connects. `SockBuf = 1` makes every second send block;
`Times = 1` or `2` (10 in the code) makes a round end with messages left. `MaxConn`
lets a process hold a live, a leaked and a fresh descriptor, and running out of
them is covered (`pt_comm_connect_failed`). `MaxDepth = 1` in the session runs is a script with no
calls inside, called again and again: what nesting adds, a session that changes
while frames are open, is the subject of `nested`, with depth 3. For `Executor`, a table
no longer than the stack makes the last cells and the frames beyond them happen.

`transfer`: the smallest buffer is 40 bytes (4096), a piece 50, a body may take 2
reads (10), the largest message is 236 (1 MB), the socket holds 160. So there are messages that
fit the first buffer and messages that make it grow, bodies in one read, in two and
in too many, messages over the limit, and sends that block in the middle. The calls
are one of every shape that `frame_build` tells apart. Two messages are enough for
a shorter one to follow a longer one in the same buffer, and for a cut one to be
followed by another. `Limit = 3` (32) has strings at and beyond the limit.

`cli`: ints have 6 bits, longs 8, pids end at 7, so that numbers out of range of
each, and ones that are in range after the cast, are short. The lines are each
option by itself, each after six others, and all orders of three of those six, which
is what it takes for one option to meet the state left by two. One PHP process
besides the tool maps the file, up to 3 files are created under its name. The
versions are one with a preset and one older than all. `MapperStep` and `PhpStep`
are taken only while the tool uses the file or reads the process: at other
times they commute with its steps and no property looks at what they change.

`CHECK_DEADLOCK FALSE` in the session runs: when all processes have died and all
tools have ended, nothing is left to do; likewise in `transfer` after the last
message and in `cli` after the exit. `exec` checks for deadlock.

### Fairness

* `WF(ProcessStep)`: a process that lives goes on executing. A blocked send is a
  disabled step, so nothing is assumed about blocked processes.
* `SF(Call)`: a process that keeps serving requests calls a PHP function again and
  again (the script itself is a call, `pt_execute_core` runs for it). Without it a process could
  serve requests that execute no code; the check for a switched-off process is
  only in that hook.
* `WF(ToolStep)`: a started tool goes on; its `select()` calls have timeouts.

* `Wire`, `WF(Sending)`, `WF(Receiving)`: a `send()` with room and a `recv()` with
  something to return do return. Nobody has to send, nor to read the next message.
* `Launch`, `WF(ToolStep)`: the tool goes on. Nothing is assumed about the PHP
  process: the stop need not come. A receive whose rest does not come is a disabled step
  until the process is gone, so that it returns is not assumed.

Nothing is assumed about what users do: nobody has to start, interrupt or kill
anything (`ProcessEnd`, `ToolUser` are not fair), and a tool is never assumed to
be ended.

## Proofs

Checked by TLAPS for every value of the constants (any number of processes,
tools and descriptors, any table length and depth, any messages and sizes of
buffers, any command line and stack):

| theorem | module | states |
|---|---|---|
| `SystemType` | PhpTraceProofs | `Spec => []TypeOK` |
| `SendsGoToOwnSocket` | PhpTraceProofs | `Spec => []FlagsNeedSocket` |
| `SwitchedOffBehind` | PhpTraceProofs | `Spec => []SwitchHasOwner` |
| `ConnectionsAreServed` | PhpTraceProofs | `Spec => []NoOrphanConnection` |
| `SessionIsOwn` | PhpTraceProofs | `Spec /\ Alike => []SessionIsTools` |
| `ExitsFollowEntries` | PhpTraceProofs | `HSpec /\ SoleTool => ExitMatchesEntry`, an action property |
| `ExecutorType`, `ExclusiveTimeExact`, `TableCleanBetweenRequests` | ExecutorProofs | `TypeOK`, `ExcExact`, `TableClean` of `Executor` |
| `WireTypes` | WireProofs | `Spec => []TypeOK` |
| `BuffersHold` | WireProofs | `Spec => []InBuffer` |
| `InvalidIsTooLong` | WireProofs | `Spec => FitsArrives`, an action property |
| `WireIsChannel` | WireProofs | `Spec => ImplementsChannel`, the refinement of `Channel` |
| `NothingMadeUp` | TransferProofs | `Spec => []HandedOverWasSent` |
| `RoundTrips` | TransferProofs | `Spec => []RoundTrip` |
| `ShortFiltersArrive` | TransferProofs | `Spec => []ShortFilterArrives` |
| `PrintsTheSame` | TransferProofs | `Spec => []PrintsSame` |
| `ArgsAreShown` | TransferProofs | `Spec => []ShownArgs` |
| `SiteIsShown` | TransferProofs | `Spec => []ShownSite` |
| `ReportsArrive` | TransferProofs | `Spec => []OnlyReports`, if only reports and commands are sent |
| `LaunchTypes` | LaunchProofs | `Spec => []TypeOK` |
| `LineIsRead` | LaunchProofs | `Spec => []ParsedMeaning` |
| `LineIsJudged` | LaunchProofs | `Spec => []RejectedForCause` |
| `ByteInside` | LaunchProofs | `Spec => []ControlByteInside` |
| `StatusIsTruthful` | LaunchProofs | `Spec => []StatusTruthful` |
| `ProcessResumed` | LaunchProofs | `Spec => []Resumed` |
| `ControlFileShared` | LaunchProofs | `FileSpec => []OneControlFile` |

The assumptions, all evaluated by TLC in the runs:

* `CommAssumption` (positive bounds, `None` is no process, tool or descriptor, `Risky`
  are messages),
  `ExtensionAssumption`, `ExecutorAssumption`, `CtrlFileAssumption`;
* `ToolAssumption`: command lines are well formed and no limit is 0, which is what
  `parse_args` guarantees, since `-l 0` leaves the default (`CliTypeOK`);
* `WireAssumption`: sizes are positive, a header fits the smallest buffer, a message
  has a length and bytes;
* `PackedAssumption`: what is packed into a message is no longer than the size that was
  asked for, or fits the smallest buffer. Every message but the filter packs exactly its
  length; the filter asks for the size of a struct and packs a content of at most 254
  bytes (`cli.c` refuses one of `MAX_FILTER_LENGTH - 1` or more) into a buffer of 4096;
* `ReportAssumption`: some bytes of a string are shown; `CallsAssumption` and
  `RequestsAssumption`: stacks, values and requests are as the engine makes them. Nothing has
  an empty name, user code has a file, the parameters of a user function are among its
  variables, a frame that the engine makes up has neither function nor opline;
* `FiltersAssumption`: a filter has a type of one byte and a content that is not empty, which
  is what `parse_args` lets through;
* `CliAssumption`, `LinesAssumption`: the integers have a width, the largest pid fits an
  `int`, a process belongs to the user or to another, numbers are numbers;
* `LaunchAssumption`: the control file has one byte for each pid up to the largest;
* `StacksAssumption`: a PHP stack is a sequence.

*The session.* The inductive invariant is `IndInv == ExtInd /\ ToolInd`. `ExtInd`
adds to the types and `FlagsNeedSocket` the shape of the hooks (`HookShape`:
messages are read from an open socket, a frame that ends is open, a frame being
entered has room), without which the types are not inductive. `ToolInd` adds
`ToolShape` (a tool listens exactly between listen and end, a round has messages
left, a client that is sent to exists, a closed end is not an accepted one).
`OneProcess` and `OneTool` reduce a step to the actor that takes it; the key fact
on the process side is `SocketsDiffer`: two processes never have the same socket,
because each holds the client end of its own. `PhpTraceProofs` then shows that
neither side disturbs the other: tools never touch a client end, and a process
touches the server side only by entering the backlog of a listening tool and by
switching its byte off. `SwitchHasOwner` is kept by a switch-off because it clears
just the bytes the tool answers for.

*What a process is told.* `SessionIsTools` is false of tools that
differ (`stale_session`), so it is proved from `Alike`: at the start, all command
lines that trace or ask for a status have the same sub-command and filter; their pids
and limits, and runs of `version` or `usage` among them, may be any. A single tool is a
special case. `SessionInv` says that whatever a process was told, and whatever is on its
way to it, some tool asked for (`ToldOK`, `QueuedOK`), and that the filter of a tool that
has sent it is in force or still in the queue (`FilterOK`). A retry keeps this because
the new connection is not accepted yet.

*Entries and exits.* `ExitMatchesEntry` is proved from `SoleTool`: one tool, and no message
whose receipt fails (the tool would detach, and an entry sent into the closed end would be
lost).
`HistoryInv` says that a socket whose other end is closed means that the tool will serve
nobody any more, and so does an open traced frame whose entry went to nobody.

*The timing.* `ExcExact` is not inductive. `ExcInv` says that as long as no
traced frame was entered below an untraced one, each cell is the true cost of the callees
of the open frame above it and 0 elsewhere (`CellsExact`), only open traced frames
are charged (`OnlyTracedCharged`), callers of traced frames are traced
(`TracedNested`), and the callees fit in the time since the frame began
(`KidsFit`), which is why the result is not negative.

*The wire.* Two invariants. `BufferInv` holds on every connection, a broken one
too: types, and for each buffer that its capacity is the size it is believed to
have unless an allocation failed, which gives `InBuffer`. `StreamInv` holds while
nothing was cut: the bytes in the socket, those the sender has yet to pass to
`send()` and what the receiver has of the current body are, together, the messages
in `pending`. To say this of a queue of any length without induction, `Framed` names
for each message the offset at which it starts: neighbouring offsets differ by the
length of a message, the first is where the receiver reads, the last where the sender
writes. A send appends an offset, a complete receive drops the first (the rest
shifts), a piece that moves into the socket changes no offset. `Rounds` bounds the reads of one
body by what has been received: no read that leaves the body unfinished returned less
than a whole piece. With
`StreamInv` the header that is read is that of `Head(pending)`, so an `INVALID` is
one of the two kinds `FitsArrives` admits, and a message handed over is the first that was sent.
`WireIsChannel` is then one case per action: the start of a message is `Channel`'s
send, the last round its receive, giving up its close; the other steps stutter.

*From the call to the screen.* `TransferProofs` has three parts. First the codec,
without any state. Induction over lists is derived from the well-foundedness of the natural
numbers (`LeastNumber`, `Induction`, `BoundedInduction`); it shows that the recursive
functions of the codec exist and are unique. A list is
then described by offsets again: `IsLayout` says that each element starts where
the one before ends, `ListIs` that the packed list puts each element at its offset and is as
long as `Total` says, `ListRead` that unpacking walks along the same offsets. `FrameRead`,
`RequestRead` and `StatusRead` put the fields together: whatever stands in memory before and
behind (`Spells` is about the bytes of the value only), unpacking gives the value with
empty strings as NULL, and ends at its end. `FrameLaid`, `RequestLaid` and `StatusLaid`
say that the length that was announced is the length that was packed. Second the reports: a
frame that is built has no empty text (`WholeFrame`), so it arrives as it is; `SlotHolds`
says that the slot that `frame_build` reads holds the argument that was passed, also behind
the variables of a user function; `SiteFound` is the case analysis of the
two steps of `Caller`. Third the state: `InPlace` says that the message last handed over is
what the buffer begins with, until the next `recv()`. For `HandedOverWasSent` this is not
enough: `KnownInv` follows a message from `pt_comm_build_msg` through the
queue of `StreamInv` to the receiver.

*The command line.* `CliInv` says that after *i* options and *j* sub-options the
variables hold what the prefix that was read says, that `errno` is set only by a `kill()`
of a process of somebody else, and that nothing read so far was wrong.
The meaning of a prefix is a choice of the last place at which an option stands, so
that a step adds one place and no recursion is needed. At the end of the line the
prefix is the line: `ParsedMeaning` and `RejectedForCause`.

*The status.* `StatusInv` follows the walk: what was read belongs to the moment
in `frozen` as long as the tool holds the process; the depth that was counted and the
frames that were built are prefixes of that stack; and once the stop was seen the
process is stopped until the detach, or dead. The request is that of the same moment up to
the strings of `argv`, of which only the number is right (`SameButArgv`).

*The run of the tool.* `LaunchInv` puts these together with the place in `main`
(`Course`: which parts have run and which have not begun) and with `FileInv`.

*The control file.* `FileSpec` is any number of processes that create, fail, leave
and die in any order. `FileInv` adds to `OneControlFile` that whoever has a file
open or mapped has the named one unless a failure removed the name (`HoldsNamed`),
and that a file is sized before it is mapped and never shrinks
(`SizedBeforeMapped`). `Launch` takes only steps of `FileStep`, or none, on these variables.

Only model-checked are the liveness properties (`TraceAttaches`, `Released`, `HookReturns`,
`RecvReturns`, `CommandEnds`): they need fairness and `ENABLED`, which are out of the
prover's reach. Every invariant and every safety property of a step that a run finds to hold
is also a theorem.

## Not modelled

* The branches for PHP 5 in `extension/trace.c` and of the PHP 5 presets in `ptrace.c`.
* `fork()` of a PHP process that is being traced; threads (ZTS).
* Receives that fail on a live connection in every run: `session` has them, for a frame and
  for `DO_STATUS`; the other session runs have `Risky` empty, and the proofs take any `Risky`
  except where `SoleTool` is assumed.
* A failing `accept()`, descriptors beyond `FD_SETSIZE`, `select()` errors other than
  EINTR.
* Memory below the level of the records: the terminator that `ptrace_fetch_str`
  writes, `free` and leaks.
* `pt_mmap_open` and `pt_ctrl_open`, which nothing calls; the `trace_*` PHP functions
  of debug builds; ini entries: with another `trace.data_dir` the two sides, which
  here share one file and one path, do not meet.
* A URL filter in a process that serves no web request (`request_uri` is NULL);
  whether a filter matches is a free choice.
* A clock that is set back.
* Numbers that do not fit their 4 or 8 bytes on the wire (a line or a length of 2^32 and
  more); a byte does wrap.
* Text: colours, layout, log messages.

## Plan

1. *(done)* Ctrl, Comm, Extension, Tool, PhpTrace; Executor; their invariants,
   liveness, and proofs. FrameHistory: which tool sees the exit of a frame.
2. *(done)* Channel and Wire with the refinement; TypeCodec, Report, Transfer.
3. *(done)* Cli, CtrlFile, Status, Launch; ControlFileShared.
4. *(done)* Proofs of Wire (types, `InBuffer`, `FitsArrives`, the refinement of Channel),
   of Launch (types, the command line, `ControlByteInside`, `StatusTruthful`, `Resumed`)
   and of the session (`SessionIsTools`, `ExitMatchesEntry`).
5. *(done)* Proofs of Transfer: the codec, the reports, and what arrives.
6. Left: `fork()` of a traced process, which needs a second sender in Wire; a clock that is
   set back, which needs a statement of what the times are then worth.
