-------------------------------- MODULE Comm --------------------------------
(***************************************************************************)
(* The comm channel (common/trace_comm.c) over UNIX stream sockets, as far *)
(* as its two users can tell: one socket path in the file system, the      *)
(* listening tools, and connections with a client end (a PHP process), a   *)
(* server end (a tool) and one FIFO of whole messages per direction.       *)
(*                                                                         *)
(* A connection is named by a descriptor of the pool 1..MaxConn.  Data     *)
(* queued before the peer closed is still readable; end-of-file shows once *)
(* the queue is empty.                                                     *)
(***************************************************************************)
EXTENDS Ctrl, Integers, Sequences

CONSTANTS
    Tools,      \* the runs of the phptrace command line
    None,       \* no owner, no descriptor (-1), no file
    MaxConn,    \* BOUND: size of the descriptor pool (EMFILE beyond it)
    SockBuf,    \* BOUND: messages a socket holds before a sender blocks
    Risky       \* the messages whose receipt may fail although the peer is there:
                \* PT_MSG_INVALID (over 1MB, or not complete after PT_COMM_MAXRECV
                \* reads), PT_MSG_ERR_BUF, PT_MSG_ERR_SOCK (a signal in the body)

FilterTypes == {"EMPTY", "URL", "FUNCTION_NAME", "CLASS_NAME"}

\* PT_MSG_DO_TRACE, PT_MSG_DO_STATUS, and PT_MSG_DO_FILTER written as the
\* type of the filter that it carries.
Commands == {"DO_TRACE", "DO_STATUS"} \cup (FilterTypes \ {"EMPTY"})

\* PT_MSG_REQ and PT_MSG_FRAME with their PT_FRAME_ENTRY / PT_FRAME_EXIT
\* marker, and PT_MSG_STATUS.
Reports == {"REQ_ENTRY", "REQ_EXIT", "FRAME_ENTRY", "FRAME_EXIT", "STATUS"}

ASSUME CommAssumption ==
    /\ MaxConn \in Nat \ {0}
    /\ SockBuf \in Nat \ {0}
    /\ None \notin Procs \cup Tools \cup 1..MaxConn
    /\ Risky \subseteq Commands \cup Reports

VARIABLES
    path,       \* the tool whose socket the path names, or None (no file)
    listening,  \* the tools with an open listening socket
    cli,        \* cli[c]: the process that holds the client end, or None
    srv,        \* srv[c]: the tool that holds the server end, or None
    acc,        \* acc[c]: the server end was accepted (else: in the backlog)
    toPhp,      \* toPhp[c]: commands on their way to the client end
    toTool      \* toTool[c]: trace data on its way to the server end

commVars == <<path, listening, cli, srv, acc, toPhp, toTool>>

Conns == 1..MaxConn

CommTypeOK ==
    /\ path \in Tools \cup {None}
    /\ listening \in SUBSET Tools
    /\ cli \in [Conns -> Procs \cup {None}]
    /\ srv \in [Conns -> Tools \cup {None}]
    /\ acc \in [Conns -> BOOLEAN]
    /\ toPhp \in [Conns -> Seq(Commands)]
    /\ toTool \in [Conns -> Seq(Reports)]

CommInit ==
    /\ path = None
    /\ listening = {}
    /\ cli = [c \in Conns |-> None]
    /\ srv = [c \in Conns |-> None]
    /\ acc = [c \in Conns |-> FALSE]
    /\ toPhp = [c \in Conns |-> <<>>]
    /\ toTool = [c \in Conns |-> <<>>]

-----------------------------------------------------------------------------
(* Connecting *)

Free == {c \in Conns : cli[c] = None /\ srv[c] = None}

\* The kernel hands out the lowest free descriptor.
LowestFree(c) == c \in Free /\ \A d \in Free : c <= d

\* connect() reaches a listener only through the path; a path left behind by
\* a dead tool refuses.
Reachable == path \in listening

\* pt_comm_connect returns a descriptor: the connection waits in the backlog.
pt_comm_connect(p, c) ==
    /\ Reachable
    /\ LowestFree(c)
    /\ cli' = [cli EXCEPT ![c] = p]
    /\ srv' = [srv EXCEPT ![c] = path]
    /\ UNCHANGED <<path, listening, acc, toPhp, toTool>>

\* pt_comm_connect returns -1.  When connect() is what failed, the descriptor
\* of socket() is returned to nobody: it stays open in the process.
pt_comm_connect_failed(p) ==
    /\ ~Reachable \/ Free = {}
    /\ cli' = [c \in Conns |-> IF LowestFree(c) THEN p ELSE cli[c]]
    /\ UNCHANGED <<path, listening, srv, acc, toPhp, toTool>>

-----------------------------------------------------------------------------
(* Listening and accepting *)

\* unlink() at the start of pt_comm_listen: the name goes, whoever bound it.
unlink == path' = None

\* bind(), chmod() and listen() of pt_comm_listen; bind needs the name free.
pt_comm_listen(t) ==
    /\ path = None
    /\ path' = t
    /\ listening' = listening \cup {t}
    /\ UNCHANGED <<cli, srv, acc, toPhp, toTool>>

Pending(t) == {c \in Conns : srv[c] = t /\ ~acc[c]}
Accepted(t) == {c \in Conns : srv[c] = t /\ acc[c]}

pt_comm_accept(t, c) ==
    /\ c \in Pending(t)
    /\ acc' = [acc EXCEPT ![c] = TRUE]
    /\ UNCHANGED <<path, listening, cli, srv, toPhp, toTool>>

-----------------------------------------------------------------------------
(* Sending and receiving one message *)

\* A send from PHP: lost (EPIPE, SIGPIPE ignored by PHP) once the server end
\* is closed, otherwise blocking while the socket is full.
CanSend(c) == c = None \/ srv[c] = None \/ Len(toTool[c]) < SockBuf

Sent(c, m) == [toTool EXCEPT ![c] = IF srv[c] = None THEN @ ELSE Append(@, m)]

SendReport(c, m) ==
    /\ CanSend(c)
    /\ toTool' = IF c = None THEN toTool ELSE Sent(c, m)
    /\ UNCHANGED <<path, listening, cli, srv, acc, toPhp>>

\* A send from a tool to a client that is still there.
SendCommand(c, m) ==
    /\ cli[c] # None
    /\ toPhp' = [toPhp EXCEPT ![c] = Append(@, m)]
    /\ UNCHANGED <<path, listening, cli, srv, acc, toTool>>

\* PT_MSG_PEERDOWN (or ERR_SOCK) as seen from either end.
ServerGone(c) == srv[c] = None /\ toPhp[c] = <<>>
ClientGone(c) == cli[c] = None /\ toTool[c] = <<>>

\* The server end selects as readable.
Readable(c) == toTool[c] # <<>> \/ cli[c] = None

-----------------------------------------------------------------------------
(* Closing *)

\* close() of the client ends in S; unread commands vanish with them.
CloseClient(S) ==
    /\ cli' = [c \in Conns |-> IF c \in S THEN None ELSE cli[c]]
    /\ toPhp' = [c \in Conns |-> IF c \in S THEN <<>> ELSE toPhp[c]]

\* close() of the server ends in S; unread reports vanish with them.
CloseServer(S) ==
    /\ srv' = [c \in Conns |-> IF c \in S THEN None ELSE srv[c]]
    /\ acc' = [c \in Conns |-> c \notin S /\ acc[c]]
    /\ toTool' = [c \in Conns |-> IF c \in S THEN <<>> ELSE toTool[c]]

\* The end of a process, orderly or not, closes every descriptor it holds.
ExitClient(p) ==
    /\ CloseClient({c \in Conns : cli[c] = p})
    /\ UNCHANGED <<path, listening, srv, acc, toTool>>

\* The end of a tool: its listener, its backlog and its connections close.
ExitServer(t) ==
    /\ CloseServer({c \in Conns : srv[c] = t})
    /\ listening' = listening \ {t}
    /\ UNCHANGED <<cli, toPhp>>
=============================================================================
