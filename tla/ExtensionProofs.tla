--------------------------- MODULE ExtensionProofs --------------------------
(***************************************************************************)
(* What the operations of Comm keep, on either side; and every step of a   *)
(* PHP process keeps the types, HookShape and FlagsNeedSocket (ExtInd).    *)
(***************************************************************************)
EXTENDS Extension, TLAPS

-----------------------------------------------------------------------------
(* The operations of Comm: types, and that a descriptor without a server   *)
(* end is not marked accepted                                              *)

\* Connecting, successfully or not, keeps the channel well typed.
LEMMA ConnectType ==
    ASSUME CommTypeOK, NEW p \in Procs, NEW c \in Conns, pt_comm_connect(p, c)
    PROVE  CommTypeOK'
BY DEF CommTypeOK, pt_comm_connect, Reachable, Conns

\* The failed attempt, which may have taken a descriptor.
LEMMA ConnectFailedType ==
    ASSUME CommTypeOK, NEW p \in Procs, pt_comm_connect_failed(p)
    PROVE  CommTypeOK'
BY DEF CommTypeOK, pt_comm_connect_failed, Conns

\* Listening keeps the channel well typed.
LEMMA ListenType ==
    ASSUME CommTypeOK, NEW t \in Tools, pt_comm_listen(t)
    PROVE  CommTypeOK'
BY DEF CommTypeOK, pt_comm_listen

\* Accepting keeps the channel well typed.
LEMMA AcceptType ==
    ASSUME CommTypeOK, NEW t \in Tools, NEW c \in Conns, pt_comm_accept(t, c)
    PROVE  CommTypeOK'
<1>1. acc' \in [Conns -> BOOLEAN]
  BY DEF CommTypeOK, pt_comm_accept
<1>2. QED
  BY <1>1 DEF CommTypeOK, pt_comm_accept

\* A report sent from PHP, whether or not the server end is there.
LEMMA SentType ==
    ASSUME CommTypeOK, NEW c \in Conns, NEW m \in Reports
    PROVE  Sent(c, m) \in [Conns -> Seq(Reports)]
<1>1. toTool[c] \in Seq(Reports)
  BY DEF CommTypeOK
<1>2. Append(toTool[c], m) \in Seq(Reports)
  BY <1>1
<1>3. QED
  BY <1>1, <1>2 DEF CommTypeOK, Sent

\* The send of a report as the hooks call it.
LEMMA SendReportType ==
    ASSUME CommTypeOK, NEW c \in Conns \cup {None}, NEW m \in Reports,
           SendReport(c, m)
    PROVE  CommTypeOK'
<1>1. toTool' \in [Conns -> Seq(Reports)]
  BY SentType DEF CommTypeOK, SendReport
<1>2. QED
  BY <1>1 DEF CommTypeOK, SendReport

\* A command sent by a tool.
LEMMA SendCommandType ==
    ASSUME CommTypeOK, NEW c \in Conns, NEW m \in Commands, SendCommand(c, m)
    PROVE  CommTypeOK'
<1>1. toPhp[c] \in Seq(Commands)
  BY DEF CommTypeOK
<1>2. Append(toPhp[c], m) \in Seq(Commands)
  BY <1>1
<1>3. toPhp' \in [Conns -> Seq(Commands)]
  BY <1>2 DEF CommTypeOK, SendCommand
<1>4. QED
  BY <1>3 DEF CommTypeOK, SendCommand

\* Closing client ends touches cli and toPhp only, and keeps their types.
LEMMA CloseClientType ==
    ASSUME CommTypeOK, NEW S, CloseClient(S)
    PROVE  cli' \in [Conns -> Procs \cup {None}] /\ toPhp' \in [Conns -> Seq(Commands)]
<1>1. <<>> \in Seq(Commands)
  OBVIOUS
<1>2. QED
  BY <1>1 DEF CommTypeOK, CloseClient

\* Closing server ends touches srv, acc and toTool only, and keeps their types.
LEMMA CloseServerType ==
    ASSUME CommTypeOK, NEW S, CloseServer(S)
    PROVE  /\ srv' \in [Conns -> Tools \cup {None}]
           /\ acc' \in [Conns -> BOOLEAN]
           /\ toTool' \in [Conns -> Seq(Reports)]
<1>1. <<>> \in Seq(Reports)
  OBVIOUS
<1>2. acc' \in [Conns -> BOOLEAN]
  BY DEF CloseServer
<1>3. srv' \in [Conns -> Tools \cup {None}]
  BY DEF CommTypeOK, CloseServer
<1>4. toTool' \in [Conns -> Seq(Reports)]
  BY <1>1 DEF CommTypeOK, CloseServer
<1>5. QED
  BY <1>2, <1>3, <1>4

\* The end of a process keeps the channel well typed.
LEMMA ExitClientType ==
    ASSUME CommTypeOK, NEW p \in Procs, ExitClient(p) PROVE CommTypeOK'
<1>1. cli' \in [Conns -> Procs \cup {None}] /\ toPhp' \in [Conns -> Seq(Commands)]
  BY CloseClientType DEF ExitClient
<1>2. QED
  BY <1>1 DEF CommTypeOK, ExitClient

\* The end of a tool keeps the channel well typed.
LEMMA ExitServerType ==
    ASSUME CommTypeOK, NEW t \in Tools, path' \in Tools \cup {None}, ExitServer(t)
    PROVE  CommTypeOK'
<1>1. /\ srv' \in [Conns -> Tools \cup {None}]
      /\ acc' \in [Conns -> BOOLEAN]
      /\ toTool' \in [Conns -> Seq(Reports)]
  BY CloseServerType DEF ExitServer
<1>2. QED
  BY <1>1 DEF CommTypeOK, ExitServer

-----------------------------------------------------------------------------
(* The steps of a process *)

ExtInd ==
    CtrlTypeOK /\ CommTypeOK /\ ExtTypeOK /\ HookShape /\ FlagsNeedSocket

\* A step leaves process q alone.
Same(q) ==
    /\ pc'[q] = pc[q] /\ ret'[q] = ret[q] /\ dotrace'[q] = dotrace[q]
    /\ sock'[q] = sock[q] /\ pft'[q] = pft[q] /\ level'[q] = level[q]
    /\ sock[q] # None => cli'[sock[q]] = q

\* Steps of p leave the other processes alone, so it is enough to look at p.
LEMMA OneProcess ==
    ASSUME ExtInd, NEW p \in Procs, \A q \in Procs \ {p} : Same(q),
           ShapeOK(p)', FlagsOK(p)'
    PROVE  HookShape' /\ FlagsNeedSocket'
<1>1. ASSUME NEW q \in Procs \ {p} PROVE ShapeOK(q)' /\ FlagsOK(q)'
  <2>1. ShapeOK(q) /\ FlagsOK(q) /\ Same(q)
    BY DEF ExtInd, HookShape, FlagsNeedSocket
  <2>2. ShapeOK(q)'
    BY <2>1 DEF ShapeOK, Same
  <2>3. FlagsOK(q)'
    BY <2>1 DEF FlagsOK, Same
  <2>4. QED
    BY <2>2, <2>3
<1>2. \A q \in Procs : ShapeOK(q)' /\ FlagsOK(q)'
  BY <1>1
<1>3. QED
  BY <1>2 DEF HookShape, FlagsNeedSocket

\* Two processes never have the same socket.
LEMMA SocketsDiffer ==
    ASSUME ExtInd, NEW p \in Procs, NEW q \in Procs, p # q, sock[q] # None
    PROVE  /\ sock[q] \in Conns /\ sock[q] # sock[p]
           /\ cli[sock[q]] = q /\ q # None
<1>1. FlagsOK(p) /\ FlagsOK(q)
  BY DEF ExtInd, FlagsNeedSocket
<1>2. QED
  BY <1>1, CommAssumption DEF ExtInd, ExtTypeOK, FlagsOK

\* Connecting takes a descriptor that no other process uses.
LEMMA ConnectOthers ==
    ASSUME ExtInd, NEW p \in Procs, NEW q \in Procs \ {p}, sock[q] # None,
           \/ \E c \in Conns : pt_comm_connect(p, c)
           \/ pt_comm_connect_failed(p)
    PROVE  cli'[sock[q]] = q
<1>1. sock[q] \in Conns /\ cli[sock[q]] = q /\ q # None
  BY SocketsDiffer
<1>2. \A c \in Conns : LowestFree(c) => c # sock[q]
  BY <1>1 DEF LowestFree, Free
<1>3. CASE \E c \in Conns : pt_comm_connect(p, c)
  BY <1>1, <1>2, <1>3 DEF pt_comm_connect, ExtInd, CommTypeOK
<1>4. CASE pt_comm_connect_failed(p)
  BY <1>1, <1>2, <1>4 DEF pt_comm_connect_failed
<1>5. QED
  BY <1>3, <1>4

\* What is known of p in a state of ExtInd.
LEMMA OwnFacts ==
    ASSUME ExtInd, NEW p \in Procs
    PROVE  /\ ShapeOK(p) /\ FlagsOK(p)
           /\ sock[p] \in Conns \cup {None} /\ level[p] \in 0..MaxDepth
           /\ ret[p] \in {"rinit", "call"} /\ dotrace[p] \in BOOLEAN
           /\ pc \in [Procs -> HookPCs \cup {"idle", "run", "dead"}]
           /\ ret \in [Procs -> {"rinit", "call"}]
           /\ dotrace \in [Procs -> BOOLEAN]
           /\ sock \in [Procs -> Conns \cup {None}]
           /\ pft \in [Procs -> FilterTypes]
           /\ level \in [Procs -> 0..MaxDepth]
           /\ local \in [Procs -> [1..MaxDepth -> BOOLEAN]]
BY DEF ExtInd, HookShape, FlagsNeedSocket, ExtTypeOK

-----------------------------------------------------------------------------
(* handle_command *)

\* Connect, handle_command's first attempt.
LEMMA ConnectInd == ASSUME ExtInd, NEW p \in Procs, Connect(p) PROVE ExtInd'
<1>1. PICK c \in Conns : pt_comm_connect(p, c) /\ sock' = [sock EXCEPT ![p] = c]
  BY DEF Connect
<1>2. CommTypeOK'
  BY <1>1, ConnectType DEF ExtInd
<1>3. CtrlTypeOK' /\ ExtTypeOK'
  BY <1>1 DEF ExtInd, ExtTypeOK, CtrlTypeOK, Connect, Goto, HookPCs, HandlerPCs
<1>4. \A q \in Procs \ {p} : Same(q)
  BY <1>1, OwnFacts, ConnectOthers DEF Same, Connect, Goto
<1>5. ShapeOK(p)'
  BY <1>1, OwnFacts, CommAssumption DEF ShapeOK, Connect, Goto, HandlerPCs, Conns
<1>6. FlagsOK(p)'
  <2>1. cli'[c] = p /\ c # None
    BY <1>1, CommAssumption DEF pt_comm_connect, ExtInd, CommTypeOK, Conns
  <2>2. QED
    BY <1>1, <2>1, OwnFacts DEF FlagsOK
<1>7. QED
  BY <1>2, <1>3, <1>4, <1>5, <1>6, OneProcess DEF ExtInd

\* Its failure.
LEMMA ConnectFailedInd ==
    ASSUME ExtInd, NEW p \in Procs, ConnectFailed(p) PROVE ExtInd'
<1>1. CommTypeOK'
  BY ConnectFailedType DEF ExtInd, ConnectFailed
<1>2. CtrlTypeOK' /\ ExtTypeOK'
  BY DEF ExtInd, ExtTypeOK, CtrlTypeOK, ConnectFailed, Goto, HookPCs, HandlerPCs
<1>3. \A q \in Procs \ {p} : Same(q)
  BY OwnFacts, ConnectOthers DEF Same, ConnectFailed, Goto
<1>4. ShapeOK(p)'
  BY OwnFacts DEF ShapeOK, ConnectFailed, Goto, HandlerPCs
<1>5. FlagsOK(p)'
  <2>1. sock[p] # None => cli'[sock[p]] = p
    BY OwnFacts DEF FlagsOK, ConnectFailed, pt_comm_connect_failed
  <2>2. QED
    BY <2>1, OwnFacts DEF FlagsOK, ConnectFailed, Goto
<1>6. QED
  BY <1>1, <1>2, <1>3, <1>4, <1>5, OneProcess DEF ExtInd

\* Taking a message from the socket keeps the channel well typed.
LEMMA RecvType ==
    ASSUME ExtInd, NEW p \in Procs, NEW m, Recv(p, m),
           toTool' \in [Conns -> Seq(Reports)]
    PROVE  /\ CtrlTypeOK' /\ CommTypeOK'
           /\ sock[p] \in Conns
           /\ m \in Commands
<1>1. sock[p] \in Conns
  BY OwnFacts DEF Recv, ShapeOK
<1>2. toPhp[sock[p]] \in Seq(Commands) /\ toPhp[sock[p]] # <<>>
  BY <1>1 DEF ExtInd, CommTypeOK, Recv
<1>3. Head(toPhp[sock[p]]) \in Commands /\ Tail(toPhp[sock[p]]) \in Seq(Commands)
  BY <1>2
<1>4. toPhp' \in [Conns -> Seq(Commands)]
  BY <1>3 DEF ExtInd, CommTypeOK, Recv
<1>5. QED
  BY <1>1, <1>3, <1>4 DEF ExtInd, CtrlTypeOK, CommTypeOK, Recv

\* DO_TRACE, DO_FILTER and DO_STATUS: the socket they came from is open.
LEMMA MessageInd ==
    ASSUME ExtInd, NEW p \in Procs, DoTrace(p) \/ DoFilter(p) \/ DoStatus(p)
    PROVE  ExtInd'
<1>1. PICK m : Recv(p, m)
  BY DEF DoTrace, DoFilter, DoStatus
<1>2. toTool' \in [Conns -> Seq(Reports)]
  <2>1. CASE DoStatus(p)
    <3>1. sock[p] \in Conns
      BY <2>1, OwnFacts DEF DoStatus, Recv, ShapeOK
    <3>2. QED
      BY <2>1, <3>1, SentType DEF ExtInd, DoStatus, Reports
  <2>2. CASE DoTrace(p) \/ DoFilter(p)
    BY <2>2 DEF ExtInd, CommTypeOK, DoTrace, DoFilter
  <2>3. QED
    BY <2>1, <2>2
<1>3. CtrlTypeOK' /\ CommTypeOK' /\ sock[p] \in Conns
  BY <1>1, <1>2, RecvType
<1>4. /\ pc' = pc /\ ret' = ret /\ sock' = sock /\ level' = level
      /\ local' = local /\ cli' = cli /\ pc[p] = "recv"
  BY <1>1 DEF Recv
<1>5. /\ dotrace' \in [Procs -> BOOLEAN] /\ pft' \in [Procs -> FilterTypes]
      /\ \A q \in Procs \ {p} : dotrace'[q] = dotrace[q] /\ pft'[q] = pft[q]
  <2>1. CASE DoTrace(p)
    BY <2>1, OwnFacts DEF DoTrace
  <2>2. CASE DoFilter(p)
    BY <2>2, OwnFacts DEF DoFilter
  <2>3. CASE DoStatus(p)
    BY <2>3, OwnFacts DEF DoStatus
  <2>4. QED
    BY <2>1, <2>2, <2>3
<1>6. ExtTypeOK'
  BY <1>4, <1>5 DEF ExtInd, ExtTypeOK
<1>7. \A q \in Procs \ {p} : Same(q)
  BY <1>4, <1>5, SocketsDiffer DEF Same
<1>8. ShapeOK(p)'
  BY <1>4, OwnFacts DEF ShapeOK
<1>9. FlagsOK(p)'
  BY <1>3, <1>4, OwnFacts, CommAssumption DEF FlagsOK, Conns
<1>10. QED
  BY <1>3, <1>6, <1>7, <1>8, <1>9, OneProcess DEF ExtInd

\* Steps that only move on: to the reading of messages, to handle_error, back
\* to a hook, into and out of the code of the script.
LEMMA MoveInd ==
    ASSUME ExtInd, NEW p \in Procs,
           \/ RecvEmpty(p) \/ RecvError(p) \/ HandleError(p)
           \/ RInit(p) \/ Call(p) \/ Leave(p) \/ EndRequest(p)
    PROVE  ExtInd'
<1>1. /\ ctrl' = ctrl /\ commVars' = commVars /\ dotrace' = dotrace
      /\ sock' = sock /\ pft' = pft /\ local' = local
  BY DEF RecvEmpty, RecvError, HandleError, RInit, Call, Leave, EndRequest
<1>2. CtrlTypeOK' /\ CommTypeOK' /\ cli' = cli
  BY <1>1 DEF ExtInd, CtrlTypeOK, CommTypeOK, commVars
<1>3. PICK l \in HookPCs \cup {"idle", "run", "dead"} :
        pc' = [pc EXCEPT ![p] = l]
  BY OwnFacts DEF RecvEmpty, RecvError, HandleError, RInit, Call, Leave,
        EndRequest, EnterHandleCommand, Goto, HookPCs, HandlerPCs
<1>4. PICK r \in {"rinit", "call"} : ret' = [ret EXCEPT ![p] = r]
  <2>1. ret = [ret EXCEPT ![p] = ret[p]]
    BY OwnFacts
  <2>2. QED
    BY <2>1, OwnFacts DEF RecvEmpty, RecvError, HandleError, RInit, Call,
          Leave, EndRequest, EnterHandleCommand
<1>5. PICK n \in {0, level[p]} : level' = [level EXCEPT ![p] = n]
  <2>1. level = [level EXCEPT ![p] = level[p]]
    BY OwnFacts
  <2>2. QED
    BY <2>1 DEF RecvEmpty, RecvError, HandleError, RInit, Call, Leave,
                EndRequest
<1>6. ExtTypeOK'
  <2>1. n \in 0..MaxDepth
    BY OwnFacts, ExtensionAssumption
  <2>2. QED
    BY <1>1, <1>3, <1>4, <1>5, <2>1 DEF ExtInd, ExtTypeOK
<1>7. \A q \in Procs \ {p} : Same(q)
  BY <1>1, <1>2, <1>3, <1>4, <1>5, OwnFacts, SocketsDiffer DEF Same
<1>8. ShapeOK(p)'
  <2>1. CASE RecvEmpty(p)
    BY <2>1, OwnFacts DEF ShapeOK, RecvEmpty, Goto, HandlerPCs
  <2>2. CASE RecvError(p)
    BY <2>2, OwnFacts DEF ShapeOK, RecvError, Goto, HandlerPCs
  <2>3. CASE HandleError(p)
    BY <2>3, OwnFacts DEF ShapeOK, HandleError, Goto, HandlerPCs
  <2>4. CASE RInit(p)
    BY <2>4, OwnFacts, ExtensionAssumption
       DEF ShapeOK, RInit, EnterHandleCommand, Goto, HandlerPCs
  <2>5. CASE Call(p)
    BY <2>5, OwnFacts DEF ShapeOK, Call, EnterHandleCommand, Goto, HandlerPCs
  <2>6. CASE Leave(p)
    BY <2>6, OwnFacts DEF ShapeOK, Leave, Goto, HandlerPCs
  <2>7. CASE EndRequest(p)
    BY <2>7, OwnFacts DEF ShapeOK, EndRequest, Goto, HandlerPCs
  <2>8. QED
    BY <2>1, <2>2, <2>3, <2>4, <2>5, <2>6, <2>7
<1>9. FlagsOK(p)'
  <2>1. pc[p] # "reset"
    BY DEF RecvEmpty, RecvError, HandleError, RInit, Call, Leave, EndRequest
  <2>2. QED
    BY <1>1, <1>2, <2>1, OwnFacts DEF FlagsOK
<1>10. QED
  BY <1>2, <1>6, <1>7, <1>8, <1>9, OneProcess DEF ExtInd

-----------------------------------------------------------------------------
(* handle_error *)

\* The retry that succeeds.
LEMMA RetryInd == ASSUME ExtInd, NEW p \in Procs, Retry(p) PROVE ExtInd'
<1>1. PICK c \in Conns : pt_comm_connect(p, c) /\ sock' = [sock EXCEPT ![p] = c]
  BY DEF Retry
<1>2. CommTypeOK'
  BY <1>1, ConnectType DEF ExtInd
<1>3. CtrlTypeOK' /\ ExtTypeOK'
  BY <1>1, OwnFacts DEF ExtInd, ExtTypeOK, CtrlTypeOK, Retry, Goto, HookPCs
<1>4. \A q \in Procs \ {p} : Same(q)
  BY <1>1, OwnFacts, ConnectOthers DEF Same, Retry, Goto
<1>5. ShapeOK(p)'
  BY <1>1, OwnFacts DEF ShapeOK, Retry, Goto, HandlerPCs
<1>6. FlagsOK(p)'
  <2>1. cli'[c] = p /\ c # None
    BY <1>1, CommAssumption DEF pt_comm_connect, ExtInd, CommTypeOK, Conns
  <2>2. QED
    BY <1>1, <2>1, OwnFacts DEF FlagsOK
<1>7. QED
  BY <1>2, <1>3, <1>4, <1>5, <1>6, OneProcess DEF ExtInd

\* The retry that fails: sock_fd is -1 and the reset is next.
LEMMA RetryFailedInd ==
    ASSUME ExtInd, NEW p \in Procs, RetryFailed(p) PROVE ExtInd'
<1>1. CommTypeOK'
  BY ConnectFailedType DEF ExtInd, RetryFailed
<1>2. CtrlTypeOK' /\ ExtTypeOK'
  BY DEF ExtInd, ExtTypeOK, CtrlTypeOK, RetryFailed, Goto, HookPCs, HandlerPCs
<1>3. \A q \in Procs \ {p} : Same(q)
  BY OwnFacts, ConnectOthers DEF Same, RetryFailed, Goto
<1>4. ShapeOK(p)'
  BY OwnFacts DEF ShapeOK, RetryFailed, Goto, HandlerPCs
<1>5. FlagsOK(p)'
  BY OwnFacts DEF FlagsOK, RetryFailed, Goto
<1>6. QED
  BY <1>1, <1>2, <1>3, <1>4, <1>5, OneProcess DEF ExtInd

\* The reset clears flag and filter together with the socket.
LEMMA ResetInd == ASSUME ExtInd, NEW p \in Procs, Reset(p) PROVE ExtInd'
<1>1. CommTypeOK'
  <2>1. cli' \in [Conns -> Procs \cup {None}] /\ toPhp' \in [Conns -> Seq(Commands)]
    BY CloseClientType DEF ExtInd, Reset
  <2>2. QED
    BY <2>1 DEF ExtInd, CommTypeOK, Reset
<1>2. CtrlTypeOK'
  BY DEF CtrlTypeOK, Reset, pt_ctrl_set_inactive
<1>3. ExtTypeOK'
  <2>1. dotrace' \in [Procs -> BOOLEAN]
    BY OwnFacts DEF Reset
  <2>2. QED
    BY <2>1, OwnFacts DEF ExtTypeOK, Reset, Goto, HookPCs, FilterTypes
<1>4. \A q \in Procs \ {p} : Same(q)
  <2>1. SUFFICES ASSUME NEW q \in Procs \ {p} PROVE Same(q)
    OBVIOUS
  <2>2. sock[q] # None => cli'[sock[q]] = q
    BY SocketsDiffer DEF Reset, CloseClient
  <2>3. dotrace'[q] = dotrace[q]
    BY OwnFacts DEF Reset
  <2>4. QED
    BY <2>2, <2>3, OwnFacts DEF Same, Reset, Goto
<1>5. ShapeOK(p)'
  BY OwnFacts DEF ShapeOK, Reset, Goto, HandlerPCs
<1>6. FlagsOK(p)'
  <2>1. ~dotrace'[p]
    BY OwnFacts DEF Reset
  <2>2. sock'[p] = None /\ pft'[p] = "EMPTY"
    BY OwnFacts DEF Reset
  <2>3. QED
    BY <2>1, <2>2 DEF FlagsOK
<1>7. QED
  BY <1>1, <1>2, <1>3, <1>4, <1>5, <1>6, OneProcess DEF ExtInd

-----------------------------------------------------------------------------
(* The hooks that send *)

\* The rest of PHP_RINIT: a URL filter, which can set the flag, is only there
\* with a socket.
LEMMA RInitFinishInd ==
    ASSUME ExtInd, NEW p \in Procs, NEW match \in BOOLEAN, RInitFinish(p, match)
    PROVE  ExtInd'
<1> DEFINE flag == IF pft[p] = "URL" THEN match ELSE dotrace[p]
<1>1. /\ dotrace' = [dotrace EXCEPT ![p] = flag]
      /\ SendReport(sock[p], "REQ_ENTRY") \/ UNCHANGED commVars
      /\ pc' = [pc EXCEPT ![p] = "run"] /\ pc[p] = "rinit"
      /\ ctrl' = ctrl /\ ret' = ret /\ sock' = sock /\ pft' = pft
      /\ level' = level /\ local' = local
  BY DEF RInitFinish, Goto
<1>2. CommTypeOK' /\ cli' = cli
  BY <1>1, OwnFacts, SendReportType
     DEF ExtInd, CommTypeOK, commVars, SendReport, Reports
<1>3. CtrlTypeOK' /\ ExtTypeOK'
  <2>1. flag \in BOOLEAN
    BY OwnFacts
  <2>2. dotrace' \in [Procs -> BOOLEAN]
    BY <1>1, <2>1, OwnFacts
  <2>3. QED
    BY <1>1, <2>2 DEF ExtInd, ExtTypeOK, CtrlTypeOK, HookPCs
<1>4. \A q \in Procs \ {p} : Same(q)
  <2>1. SUFFICES ASSUME NEW q \in Procs \ {p} PROVE Same(q)
    OBVIOUS
  <2>2. dotrace'[q] = dotrace[q]
    BY <1>1, OwnFacts
  <2>3. QED
    BY <1>1, <1>2, <2>2, OwnFacts, SocketsDiffer DEF Same
<1>5. ShapeOK(p)'
  BY <1>1, OwnFacts DEF ShapeOK, HandlerPCs
<1>6. FlagsOK(p)'
  <2>1. dotrace'[p] => dotrace[p] \/ pft[p] = "URL"
    BY <1>1, OwnFacts
  <2>2. dotrace'[p] \/ pft'[p] # "EMPTY" => sock'[p] # None
    BY <1>1, <2>1, OwnFacts DEF FlagsOK
  <2>3. QED
    BY <1>1, <1>2, <2>2, OwnFacts DEF FlagsOK
<1>7. QED
  BY <1>2, <1>3, <1>4, <1>5, <1>6, OneProcess DEF ExtInd

\* The entry and the exit of a frame, and the end of the request.
LEMMA FrameInd ==
    ASSUME ExtInd, NEW p \in Procs,
           \/ \E match \in BOOLEAN : Enter(p, match)
           \/ ExitFrame(p) \/ RShutdown(p)
    PROVE  ExtInd'
<1>1. /\ \/ \E m \in Reports : SendReport(sock[p], m)
         \/ UNCHANGED commVars
      /\ ctrl' = ctrl /\ ret' = ret /\ sock' = sock /\ pft' = pft
      /\ dotrace' = dotrace
  BY DEF Enter, ExitFrame, RShutdown, Reports
<1>2. CommTypeOK' /\ cli' = cli
  BY <1>1, OwnFacts, SendReportType
     DEF ExtInd, CommTypeOK, commVars, SendReport
<1>3. PICK n \in 0..MaxDepth, l \in {"run", "idle"} :
        /\ level' = [level EXCEPT ![p] = n]
        /\ pc' = [pc EXCEPT ![p] = l]
        /\ pc[p] \in {"call", "exit", "rshutdown"}
  <2>1. CASE \E match \in BOOLEAN : Enter(p, match)
    <3>1. level[p] + 1 \in 0..MaxDepth
      BY <2>1, OwnFacts, ExtensionAssumption DEF Enter, ShapeOK
    <3>2. QED
      BY <2>1, <3>1 DEF Enter, Goto
  <2>2. CASE ExitFrame(p)
    <3>1. level[p] - 1 \in 0..MaxDepth
      BY <2>2, OwnFacts, ExtensionAssumption DEF ExitFrame, ShapeOK
    <3>2. QED
      BY <2>2, <3>1 DEF ExitFrame, Goto
  <2>3. CASE RShutdown(p)
    <3>1. level = [level EXCEPT ![p] = level[p]]
      BY OwnFacts
    <3>2. QED
      BY <2>3, <3>1, OwnFacts DEF RShutdown, Goto
  <2>4. QED
    BY <2>1, <2>2, <2>3
<1>4. local' \in [Procs -> [1..MaxDepth -> BOOLEAN]]
  <2>1. local[p] \in [1..MaxDepth -> BOOLEAN]
    BY OwnFacts
  <2>2. \A k, b : b \in BOOLEAN =>
           [local[p] EXCEPT ![k] = b] \in [1..MaxDepth -> BOOLEAN]
    BY <2>1
  <2>3. CASE \E match \in BOOLEAN : Enter(p, match)
    <3>1. PICK b \in BOOLEAN : local' = [local EXCEPT ![p][level[p] + 1] = b]
      BY <2>3, OwnFacts DEF Enter, filter_frame
    <3>2. QED
      BY <2>2, <3>1, OwnFacts
  <2>4. CASE ExitFrame(p)
    BY <2>2, <2>4, OwnFacts DEF ExitFrame
  <2>5. CASE RShutdown(p)
    BY <2>5, OwnFacts DEF RShutdown
  <2>6. QED
    BY <2>3, <2>4, <2>5
<1>5. CtrlTypeOK' /\ ExtTypeOK'
  BY <1>1, <1>3, <1>4 DEF ExtInd, ExtTypeOK, CtrlTypeOK, HookPCs
<1>6. \A q \in Procs \ {p} : Same(q)
  BY <1>1, <1>2, <1>3, OwnFacts, SocketsDiffer DEF Same
<1>7. ShapeOK(p)'
  BY <1>3, OwnFacts DEF ShapeOK, HandlerPCs
<1>8. FlagsOK(p)'
  BY <1>1, <1>2, <1>3, OwnFacts DEF FlagsOK
<1>9. QED
  BY <1>2, <1>5, <1>6, <1>7, <1>8, OneProcess DEF ExtInd

-----------------------------------------------------------------------------
(* The end of a process; the whole *)

\* PHP_MSHUTDOWN, or a kill: the other processes keep their sockets.
LEMMA EndInd == ASSUME ExtInd, NEW p \in Procs, ProcessEnd(p) PROVE ExtInd'
<1>1. /\ ExitClient(p) /\ ctrl' = ctrl /\ ret' = ret
      /\ pc' = [pc EXCEPT ![p] = "dead"]
      /\ sock' = [sock EXCEPT ![p] = None]
      /\ pft' = [pft EXCEPT ![p] = "EMPTY"]
      /\ dotrace' = [dotrace EXCEPT ![p] = FALSE]
  BY DEF ProcessEnd, MShutdown, KillProcess, Goto
<1>2. CommTypeOK'
  BY <1>1, ExitClientType DEF ExtInd
<1>3. /\ level' \in [Procs -> 0..MaxDepth]
      /\ \A q \in Procs \ {p} : level'[q] = level[q]
  BY OwnFacts, ExtensionAssumption DEF ProcessEnd, MShutdown, KillProcess
<1>4. local' \in [Procs -> [1..MaxDepth -> BOOLEAN]]
  <2>1. [l \in 1..MaxDepth |-> FALSE] \in [1..MaxDepth -> BOOLEAN]
    OBVIOUS
  <2>2. local \in [Procs -> [1..MaxDepth -> BOOLEAN]]
    BY OwnFacts
  <2>3. \/ local' = local
        \/ local' = [local EXCEPT ![p] = [l \in 1..MaxDepth |-> FALSE]]
    BY DEF ProcessEnd, MShutdown, KillProcess
  <2>4. QED
    BY <2>1, <2>2, <2>3
<1>5. dotrace' \in [Procs -> BOOLEAN] /\ ~dotrace'[p]
  BY <1>1, OwnFacts
<1>6. CtrlTypeOK' /\ ExtTypeOK'
  BY <1>1, <1>3, <1>4, <1>5, OwnFacts
     DEF ExtInd, ExtTypeOK, CtrlTypeOK, FilterTypes
<1>7. \A q \in Procs \ {p} : Same(q)
  <2>1. SUFFICES ASSUME NEW q \in Procs \ {p} PROVE Same(q)
    OBVIOUS
  <2>2. sock[q] # None => cli'[sock[q]] = q
    BY <1>1, SocketsDiffer DEF ExitClient, CloseClient
  <2>3. dotrace'[q] = dotrace[q]
    BY <1>1, OwnFacts
  <2>4. QED
    BY <1>1, <1>3, <2>2, <2>3, OwnFacts DEF Same
<1>8. ShapeOK(p)'
  BY <1>1, OwnFacts DEF ShapeOK, HandlerPCs
<1>9. FlagsOK(p)'
  BY <1>1, <1>5, OwnFacts DEF FlagsOK
<1>10. QED
  BY <1>2, <1>6, <1>7, <1>8, <1>9, OneProcess DEF ExtInd

\* Every step of a process keeps the invariant of the extension.
LEMMA ProcessInd ==
    ASSUME ExtInd, NEW p \in Procs, ProcessStep(p) \/ ProcessEnd(p)
    PROVE  ExtInd'
BY ConnectInd, ConnectFailedInd, MessageInd, MoveInd, RetryInd, RetryFailedInd,
   ResetInd, RInitFinishInd, FrameInd, EndInd DEF ProcessStep

\* What handle_command and the hooks start from.
LEMMA ExtInitInd == ASSUME CtrlInit, CommInit, ExtInit PROVE ExtInd
<1>1. CtrlTypeOK
  BY DEF CtrlInit, CtrlTypeOK
<1>2. CommTypeOK
  <2>1. <<>> \in Seq(Commands) /\ <<>> \in Seq(Reports)
    OBVIOUS
  <2>2. acc \in [Conns -> BOOLEAN]
    BY DEF CommInit
  <2>3. QED
    BY <2>1, <2>2 DEF CommInit, CommTypeOK
<1>3. ExtTypeOK
  <2>1. local \in [Procs -> [1..MaxDepth -> BOOLEAN]] /\ dotrace \in [Procs -> BOOLEAN]
    BY DEF ExtInit
  <2>2. QED
    BY <2>1, ExtensionAssumption DEF ExtInit, ExtTypeOK, FilterTypes
<1>4. HookShape
  BY DEF ExtInit, HookShape, ShapeOK, HandlerPCs
<1>5. FlagsNeedSocket
  BY DEF ExtInit, FlagsNeedSocket, FlagsOK
<1>6. QED
  BY <1>1, <1>2, <1>3, <1>4, <1>5 DEF ExtInd
=============================================================================
