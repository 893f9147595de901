--------------------------- MODULE PhpTraceProofs ---------------------------
(***************************************************************************)
(* The invariants of the whole system, for any number of processes, tools  *)
(* and descriptors.  The inductive invariant is that of the extension and  *)
(* that of the tool together; what is left to show here is that neither    *)
(* side disturbs what the other one relies on in the shared state.  Then   *)
(* what a process is told by tools that ask for the same (SessionInv), and *)
(* which exits a single tool is sent (HistoryInv).                         *)
(***************************************************************************)
EXTENDS FrameHistory, ExtensionProofs, ToolProofs

IndInv == ExtInd /\ ToolInd

\* A tool never touches the variables of a process nor a client end.
LEMMA ToolKeepsClients ==
    ASSUME NEW t \in Tools, ToolStep(t) \/ ToolUser(t)
    PROVE  cli' = cli
BY DEF ToolStep, ToolUser, Listen, ListenFailed, Usage, Close, SwitchOn, Deinit,
       SwitchOff, Accept, SendFilter, SendTrace, SigPipe, Select, Display,
       Drained, Detach, StatusAccept, StatusAsk, StatusAnswer, StatusTimeout,
       Start, Interrupt, KillTool, Ended, ExitServer, pt_comm_listen,
       pt_comm_accept, SendCommand, commVars

\* What a process does to the tools' side: it may open a connection, in the
\* backlog of a tool that listens, and it may switch its control byte off.
LEMMA ProcessKeepsServers ==
    ASSUME IndInv, NEW p \in Procs, ProcessStep(p) \/ ProcessEnd(p)
    PROVE  /\ listening' = listening /\ acc' = acc
           /\ \A q \in Procs : ctrl'[q] => ctrl[q]
           /\ \A c \in Conns : \/ srv'[c] = srv[c]
                               \/ srv[c] = None /\ srv'[c] \in listening
<1>1. CASE Connect(p) \/ Retry(p)
  <2>1. PICK c \in Conns : pt_comm_connect(p, c)
    BY <1>1 DEF Connect, Retry
  <2>2. srv[c] = None /\ path \in listening
    BY <2>1 DEF pt_comm_connect, LowestFree, Free, Reachable
  <2>3. /\ listening' = listening /\ acc' = acc /\ ctrl' = ctrl
        /\ srv' = [srv EXCEPT ![c] = path]
    BY <1>1, <2>1 DEF Connect, Retry, pt_comm_connect
  <2>4. srv \in [Conns -> Tools \cup {None}]
    BY DEF IndInv, ExtInd, CommTypeOK
  <2>5. QED
    BY <2>2, <2>3, <2>4
<1>2. CASE Reset(p)
  BY <1>2 DEF Reset, pt_ctrl_set_inactive
<1>3. CASE ConnectFailed(p) \/ RetryFailed(p)
  BY <1>3 DEF ConnectFailed, RetryFailed, pt_comm_connect_failed
<1>4. CASE DoTrace(p) \/ DoFilter(p) \/ DoStatus(p)
  BY <1>4 DEF DoTrace, DoFilter, DoStatus, Recv
<1>5. CASE \/ RecvEmpty(p) \/ RecvError(p) \/ HandleError(p) \/ RInit(p)
           \/ Call(p) \/ Leave(p) \/ EndRequest(p)
  BY <1>5 DEF RecvEmpty, RecvError, HandleError, RInit, Call, Leave,
              EndRequest, commVars
<1>6. CASE \/ \E match \in BOOLEAN : RInitFinish(p, match) \/ Enter(p, match)
           \/ ExitFrame(p) \/ RShutdown(p)
  BY <1>6 DEF RInitFinish, Enter, ExitFrame, RShutdown, SendReport, commVars
<1>7. CASE ProcessEnd(p)
  BY <1>7 DEF ProcessEnd, MShutdown, KillProcess, ExitClient
<1>8. QED
  BY <1>1, <1>2, <1>3, <1>4, <1>5, <1>6, <1>7 DEF ProcessStep

\* A step of a process keeps the invariant of the whole.
LEMMA PhpInd == ASSUME IndInv, NEW p \in Procs, Php(p) PROVE IndInv'
<1>1. ProcessStep(p) \/ ProcessEnd(p)
  BY DEF Php
<1>2. ExtInd'
  BY <1>1, ProcessInd DEF IndInv
<1>3. tpc' = tpc /\ clictx' = clictx /\ cur' = cur /\ ready' = ready /\ quota' = quota
  BY DEF Php, toolVars
<1>4. /\ listening' = listening /\ acc' = acc
      /\ \A q \in Procs : ctrl'[q] => ctrl[q]
      /\ \A c \in Conns : \/ srv'[c] = srv[c]
                          \/ srv[c] = None /\ srv'[c] \in listening
  BY <1>1, ProcessKeepsServers
<1>5. /\ ToolTypeOK /\ ToolShape /\ NoOrphanConnection /\ SwitchHasOwner
      /\ listening \in SUBSET Tools
  BY DEF IndInv, ToolInd, CommTypeOK
<1>6. ToolTypeOK'
  BY <1>3, <1>5 DEF ToolTypeOK
<1>7. None \notin Tools
  BY CommAssumption
<1>8. ToolShape'
  <2>1. \A t \in Tools : ToolOK(t)'
    BY <1>3, <1>4, <1>5 DEF ToolShape, ToolOK
  <2>2. \A c \in Conns : acc'[c] => srv'[c] # None
    BY <1>4, <1>5, <1>7 DEF ToolShape
  <2>3. QED
    BY <2>1, <2>2 DEF ToolShape
<1>9. ASSUME NEW c \in Conns PROVE ConnOK(c)'
  <2>1. CASE srv'[c] = srv[c]
    BY <1>3, <1>4, <1>5, <2>1 DEF NoOrphanConnection, ConnOK
  <2>2. CASE srv[c] = None /\ srv'[c] \in listening
    <3>1. srv'[c] \in Tools /\ tpc[srv'[c]] \in ListenPCs
      BY <1>5, <2>2 DEF ToolShape, ToolOK
    <3>2. ~acc'[c]
      BY <1>4, <1>5, <2>2 DEF ToolShape
    <3>3. QED
      BY <1>3, <1>4, <2>2, <3>1, <3>2 DEF ConnOK
  <2>3. QED
    BY <1>4, <2>1, <2>2
<1>10. SwitchHasOwner'
  BY <1>3, <1>4, <1>5 DEF SwitchHasOwner
<1>11. QED
  BY <1>2, <1>6, <1>8, <1>9, <1>10
     DEF IndInv, ExtInd, ToolInd, NoOrphanConnection

\* A step of a tool keeps the invariant of the whole.
LEMMA PhpToolInd == ASSUME IndInv, NEW t \in Tools, PhpTool(t) PROVE IndInv'
<1>1. ToolStep(t) \/ ToolUser(t)
  BY DEF PhpTool
<1>2. ToolInd'
  BY <1>1, ToolStepInd DEF IndInv
<1>3. /\ pc' = pc /\ ret' = ret /\ dotrace' = dotrace /\ sock' = sock
      /\ pft' = pft /\ level' = level /\ local' = local
  BY DEF PhpTool, extVars
<1>4. cli' = cli
  BY <1>1, ToolKeepsClients
<1>5. ExtTypeOK /\ HookShape /\ FlagsNeedSocket
  BY DEF IndInv, ExtInd
<1>6. ExtTypeOK'
  BY <1>3, <1>5 DEF ExtTypeOK
<1>7. HookShape'
  BY <1>3, <1>5 DEF HookShape, ShapeOK
<1>8. FlagsNeedSocket'
  BY <1>3, <1>4, <1>5 DEF FlagsNeedSocket, FlagsOK
<1>9. QED
  BY <1>2, <1>6, <1>7, <1>8 DEF IndInv, ExtInd, ToolInd

\* The invariant holds at the start and every step, or stutter, keeps it.
LEMMA IndInvInit == Init => IndInv
<1>1. SUFFICES ASSUME Init PROVE IndInv
  OBVIOUS
<1>2. ExtInd
  BY <1>1, ExtInitInd DEF Init
<1>3. ToolInd
  BY <1>1, <1>2, ToolInitInd DEF Init, ExtInd
<1>4. QED
  BY <1>2, <1>3 DEF IndInv

\* See IndInvInit.
LEMMA IndInvNext == IndInv /\ [Next]_vars => IndInv'
<1>1. SUFFICES ASSUME IndInv, [Next]_vars PROVE IndInv'
  OBVIOUS
<1>2. CASE Next
  BY <1>1, <1>2, PhpInd, PhpToolInd DEF Next
<1>3. CASE UNCHANGED vars
  <2>1. /\ ctrl' = ctrl /\ path' = path /\ listening' = listening /\ cli' = cli
        /\ srv' = srv /\ acc' = acc /\ toPhp' = toPhp /\ toTool' = toTool
        /\ pc' = pc /\ ret' = ret /\ dotrace' = dotrace /\ sock' = sock
        /\ pft' = pft /\ level' = level /\ local' = local
        /\ tpc' = tpc /\ clictx' = clictx /\ cur' = cur /\ ready' = ready
        /\ quota' = quota
    BY <1>3 DEF vars, commVars, extVars, toolVars
  <2>2. CtrlTypeOK' /\ CommTypeOK' /\ ExtTypeOK' /\ ToolTypeOK'
    BY <1>1, <2>1
       DEF IndInv, ExtInd, ToolInd, CtrlTypeOK, CommTypeOK, ExtTypeOK, ToolTypeOK
  <2>3. HookShape' /\ FlagsNeedSocket'
    BY <1>1, <2>1
       DEF IndInv, ExtInd, HookShape, ShapeOK, FlagsNeedSocket, FlagsOK
  <2>4. ToolShape' /\ NoOrphanConnection' /\ SwitchHasOwner'
    BY <1>1, <2>1
       DEF IndInv, ToolInd, ToolShape, ToolOK, NoOrphanConnection, ConnOK,
           SwitchHasOwner
  <2>5. QED
    BY <2>2, <2>3, <2>4 DEF IndInv, ExtInd, ToolInd
<1>4. QED
  BY <1>1, <1>2, <1>3

\* Always, in every behaviour of the system.
LEMMA IndInvAlways == Spec => []IndInv
BY IndInvInit, IndInvNext, PTL DEF Spec

-----------------------------------------------------------------------------
(* The theorems *)

\* Types: in particular a -l limit never runs below -1 (PT_DECR_LIMIT), the
\* call level stays within the stack, and a message round ends.
THEOREM SystemType == Spec => []TypeOK
<1>1. IndInv => TypeOK
  BY DEF IndInv, ExtInd, ToolInd, TypeOK
<1>2. QED
  BY <1>1, IndInvAlways, PTL

\* pt_frame_send and pt_request_send always have the process's own open socket
\* to send to, whatever the tools do.
THEOREM SendsGoToOwnSocket == Spec => []FlagsNeedSocket
<1>1. IndInv => FlagsNeedSocket
  BY DEF IndInv, ExtInd
<1>2. QED
  BY <1>1, IndInvAlways, PTL

\* No control byte stays on behind tools that have all ended properly.
THEOREM SwitchedOffBehind == Spec => []SwitchHasOwner
<1>1. IndInv => SwitchHasOwner
  BY DEF IndInv, ToolInd
<1>2. QED
  BY <1>1, IndInvAlways, PTL

\* No connection outlives the tool that served it.
THEOREM ConnectionsAreServed == Spec => []NoOrphanConnection
<1>1. IndInv => NoOrphanConnection
  BY DEF IndInv, ToolInd
<1>2. QED
  BY <1>1, IndInvAlways, PTL

-----------------------------------------------------------------------------
(* What a process is told *)

\* The command lines that a process can tell apart are the same: those of a
\* trace or a status have the same sub-command and the same filter.
Sessions == {t \in Tools : clictx[t].command \in {"trace", "status"}}

Alike ==
    \A s, t \in Sessions : /\ clictx[s].command = clictx[t].command
                           /\ clictx[s].filter = clictx[t].filter

\* Somebody traces; somebody traces with the filter f.
Traced == \E t \in Tools : clictx[t].command = "trace"
Asked(f) ==
    \E t \in Tools : clictx[t].command = "trace" /\ clictx[t].filter = f

\* Each tool is where its sub-command leads.
ToolCourse ==
    \A t \in Tools :
        /\ tpc[t] \in {"loop", "filter", "trace", "recv"} => clictx[t].command = "trace"
        /\ tpc[t] \in {"wait", "ask", "answer"} => clictx[t].command = "status"
        /\ tpc[t] = "on" => clictx[t].command \in {"trace", "status"}

\* What a process was told, and what it is about to be told, a tool has asked for.
ToldOK(p) ==
    /\ dotrace[p] => Traced
    /\ pft[p] # "EMPTY" => Asked(pft[p])

QueuedOK(c) ==
    \A i \in 1..Len(toPhp[c]) :
        /\ toPhp[c][i] = "DO_TRACE" => Traced
        /\ toPhp[c][i] \in FilterTypes => Asked(toPhp[c][i])

\* The tool at the server end of c has sent its filter.
FilterOut(c) ==
    /\ srv[c] # None /\ acc[c] /\ clictx[srv[c]].command = "trace"
    /\ clictx[srv[c]].filter # "EMPTY"
    /\ ~(tpc[srv[c]] = "filter" /\ cur[srv[c]] = c)

\* A filter that was sent is in force or on its way.
FilterOK(p) ==
    sock[p] # None /\ FilterOut(sock[p]) =>
        \/ pft[p] = clictx[srv[sock[p]]].filter
        \/ \E i \in 1..Len(toPhp[sock[p]]) :
              toPhp[sock[p]][i] = clictx[srv[sock[p]]].filter

SessionInv ==
    /\ Alike /\ ToolCourse
    /\ \A p \in Procs : ToldOK(p) /\ FilterOK(p)
    /\ \A c \in Conns : QueuedOK(c)

\* Nothing of it concerns the other places of the processes and tools.
LEMMA SessionUnchanged ==
    ASSUME SessionInv,
           UNCHANGED <<tpc, clictx, cur, srv, acc, toPhp, toTool, dotrace, sock, pft>>
    PROVE  SessionInv'
BY DEF SessionInv, Sessions, Alike, Traced, Asked, ToolCourse, ToldOK, QueuedOK, FilterOut,
       FilterOK

\* At the start nobody has been told anything.
LEMMA SessionInit == Init /\ Alike => SessionInv
<1>1. SUFFICES ASSUME Init, Alike PROVE SessionInv
  OBVIOUS
<1>2. ToolCourse
  BY <1>1 DEF Init, ToolInit, ToolCourse
<1>3. ASSUME NEW p \in Procs PROVE ToldOK(p) /\ FilterOK(p)
  BY <1>1 DEF Init, ExtInit, ToldOK, FilterOK
<1>4. ASSUME NEW c \in Conns PROVE QueuedOK(c)
  BY <1>1 DEF Init, CommInit, QueuedOK
<1>5. QED
  BY <1>1, <1>2, <1>3, <1>4 DEF SessionInv

\* A message more, a message less.
LEMMA OneMore ==
    ASSUME NEW S, NEW s \in Seq(S), NEW m \in S
    PROVE  /\ Len(Append(s, m)) = Len(s) + 1
           /\ \A i \in 1..Len(s) : Append(s, m)[i] = s[i]
           /\ Append(s, m)[Len(s) + 1] = m
OBVIOUS

LEMMA OneLess ==
    ASSUME NEW S, NEW s \in Seq(S), s # <<>>
    PROVE  /\ Len(Tail(s)) = Len(s) - 1 /\ Len(s) >= 1
           /\ \A i \in 1..Len(Tail(s)) : Tail(s)[i] = s[i + 1] /\ i + 1 \in 1..Len(s)
           /\ \A i \in 1..Len(s) : i # 1 => i - 1 \in 1..Len(Tail(s)) /\ Tail(s)[i - 1] = s[i]
           /\ Head(s) = s[1] /\ 1 \in 1..Len(s)
OBVIOUS

\* A step of p that leaves what the others were told.
LEMMA ProcessSession ==
    ASSUME SessionInv, NEW p \in Procs, UNCHANGED <<tpc, clictx, cur, acc>>,
           \A q \in Procs \ {p} :
              /\ sock'[q] = sock[q] /\ pft'[q] = pft[q] /\ dotrace'[q] = dotrace[q]
              /\ sock[q] # None => /\ srv'[sock[q]] = srv[sock[q]]
                                   /\ toPhp'[sock[q]] = toPhp[sock[q]],
           ToldOK(p)', FilterOK(p)', \A c \in Conns : QueuedOK(c)'
    PROVE  SessionInv'
<1>1. Alike' /\ ToolCourse'
  BY DEF SessionInv, Alike, Sessions, ToolCourse
<1>2. ASSUME NEW q \in Procs \ {p} PROVE ToldOK(q)' /\ FilterOK(q)'
  <2>1. ToldOK(q) /\ FilterOK(q)
    BY DEF SessionInv
  <2>2. ToldOK(q)'
    BY <2>1 DEF ToldOK, Traced, Asked
  <2>3. FilterOK(q)'
    BY <2>1 DEF FilterOK, FilterOut
  <2>4. QED
    BY <2>2, <2>3
<1>3. QED
  BY <1>1, <1>2 DEF SessionInv

\* What is known of the shared state in the steps below.
LEMMA SessionFacts ==
    ASSUME IndInv
    PROVE  /\ toPhp \in [Conns -> Seq(Commands)] /\ toTool \in [Conns -> Seq(Reports)]
           /\ srv \in [Conns -> Tools \cup {None}] /\ acc \in [Conns -> BOOLEAN]
           /\ cli \in [Conns -> Procs \cup {None}]
           /\ sock \in [Procs -> Conns \cup {None}] /\ pft \in [Procs -> FilterTypes]
           /\ dotrace \in [Procs -> BOOLEAN]
           /\ \A c \in Conns : acc[c] => srv[c] # None
           /\ None \notin Conns /\ None \notin Procs /\ None \notin Tools
BY CommAssumption DEF IndInv, ExtInd, ToolInd, CommTypeOK, ExtTypeOK, ToolShape, Conns

\* A report is sent only by a process that somebody traces.
LEMMA ReportSession ==
    ASSUME IndInv, SessionInv, NEW p \in Procs, UNCHANGED toolVars,
           \/ \E match \in BOOLEAN : RInitFinish(p, match) \/ Enter(p, match)
           \/ ExitFrame(p) \/ RShutdown(p)
    PROVE  SessionInv'
<1>1. ToldOK(p) /\ FilterOK(p) /\ \A c \in Conns : QueuedOK(c)
  BY DEF SessionInv
<1>2. UNCHANGED <<tpc, clictx, cur>>
  BY DEF toolVars
<1>3. PICK m \in Reports, b \in BOOLEAN :
        /\ b => Traced
        /\ IF b THEN SendReport(sock[p], m) ELSE UNCHANGED commVars
        /\ dotrace' = [dotrace EXCEPT ![p] = b] \/ dotrace' = dotrace
        /\ sock' = sock /\ pft' = pft
  <2>1. CASE \E match \in BOOLEAN : RInitFinish(p, match)
    <3>1. PICK match \in BOOLEAN : RInitFinish(p, match)
      BY <2>1
    <3> DEFINE flag == IF pft[p] = "URL" THEN match ELSE dotrace[p]
    <3>2. flag \in BOOLEAN
      BY SessionFacts
    <3>3. flag => Traced
      BY <1>1 DEF ToldOK, Asked, Traced
    <3>4. QED
      BY <3>1, <3>2, <3>3 DEF RInitFinish, Reports
  <2>2. CASE \E match \in BOOLEAN : Enter(p, match)
    <3>1. PICK match \in BOOLEAN : Enter(p, match)
      BY <2>2
    <3>2. filter_frame(p, match) \in BOOLEAN /\ (filter_frame(p, match) => Traced)
      BY <1>1 DEF ToldOK, filter_frame
    <3>3. QED
      BY <3>1, <3>2 DEF Enter, Reports
  <2>3. CASE ExitFrame(p)
    <3> DEFINE flag == local[p][level[p]] /\ dotrace[p]
    <3>1. flag \in BOOLEAN /\ (flag => Traced)
      BY <1>1 DEF ToldOK
    <3>2. QED
      BY <2>3, <3>1 DEF ExitFrame, Reports
  <2>4. CASE RShutdown(p)
    <3>1. dotrace[p] \in BOOLEAN /\ (dotrace[p] => Traced)
      BY <1>1, SessionFacts DEF ToldOK
    <3>2. QED
      BY <2>4, <3>1 DEF RShutdown, Reports
  <2>5. QED
    BY <2>1, <2>2, <2>3, <2>4
<1>4. UNCHANGED <<acc, srv, toPhp>>
  BY <1>3 DEF SendReport, commVars
<1>5. Traced' <=> Traced
  BY <1>2 DEF Traced
<1>6. ToldOK(p)'
  <2>1. dotrace'[p] => Traced
    BY <1>1, <1>3, SessionFacts DEF ToldOK
  <2>2. QED
    BY <1>1, <1>2, <1>3, <1>5, <2>1 DEF ToldOK, Asked
<1>7. FilterOK(p)'
  BY <1>1, <1>2, <1>3, <1>4 DEF FilterOK, FilterOut
<1>8. ASSUME NEW c \in Conns PROVE QueuedOK(c)'
  BY <1>1, <1>2, <1>4, <1>5 DEF QueuedOK, Asked
<1>9. \A q \in Procs \ {p} : sock'[q] = sock[q] /\ pft'[q] = pft[q] /\ dotrace'[q] = dotrace[q]
  BY <1>3, SessionFacts
<1>10. QED
  BY <1>2, <1>4, <1>6, <1>7, <1>8, <1>9, ProcessSession

\* A command that is read was sent by a tool whose session it is.
LEMMA CommandSession ==
    ASSUME IndInv, SessionInv, NEW p \in Procs, UNCHANGED toolVars,
           DoTrace(p) \/ DoFilter(p) \/ DoStatus(p)
    PROVE  SessionInv'
<1>1. ToldOK(p) /\ FilterOK(p) /\ \A c \in Conns : QueuedOK(c)
  BY DEF SessionInv
<1>2. UNCHANGED <<tpc, clictx, cur>>
  BY DEF toolVars
<1> DEFINE s == toPhp[sock[p]]
<1>3. /\ pc[p] = "recv" /\ s # <<>> /\ toPhp' = [toPhp EXCEPT ![sock[p]] = Tail(@)]
      /\ UNCHANGED <<srv, acc, sock>>
  BY DEF DoTrace, DoFilter, DoStatus, Recv
<1>4. sock[p] \in Conns
  BY <1>3, SessionFacts DEF IndInv, ExtInd, HookShape, ShapeOK
<1>5. s \in Seq(Commands)
  BY <1>4, SessionFacts
<1>6. toPhp'[sock[p]] = Tail(s)
  BY <1>3, <1>4, SessionFacts
<1>7. /\ \A i \in 1..Len(Tail(s)) : Tail(s)[i] = s[i + 1] /\ i + 1 \in 1..Len(s)
      /\ \A i \in 1..Len(s) : i # 1 => i - 1 \in 1..Len(Tail(s)) /\ Tail(s)[i - 1] = s[i]
      /\ Head(s) = s[1] /\ 1 \in 1..Len(s)
  BY <1>3, <1>5, OneLess
<1>8. /\ s[1] = "DO_TRACE" => Traced
      /\ s[1] \in FilterTypes => Asked(s[1])
  BY <1>1, <1>4, <1>7 DEF QueuedOK
<1>9. /\ Traced' <=> Traced
      /\ \A f : Asked(f)' <=> Asked(f)
  BY <1>2 DEF Traced, Asked
<1>10. \/ /\ s[1] = "DO_TRACE" /\ dotrace' = [dotrace EXCEPT ![p] = TRUE]
          /\ pft' = pft
       \/ /\ s[1] \in FilterTypes /\ pft' = [pft EXCEPT ![p] = s[1]]
          /\ dotrace' = dotrace
       \/ s[1] = "DO_STATUS" /\ dotrace' = dotrace /\ pft' = pft
  BY <1>7 DEF DoTrace, DoFilter, DoStatus, Recv
<1>11. ToldOK(p)'
  BY <1>1, <1>8, <1>9, <1>10, SessionFacts DEF ToldOK
<1>12. FilterOK(p)'
  <2> SUFFICES ASSUME FilterOut(sock[p])
               PROVE  \/ pft'[p] = clictx[srv[sock[p]]].filter
                      \/ \E i \in 1..Len(Tail(s)) : Tail(s)[i] = clictx[srv[sock[p]]].filter
    BY <1>2, <1>3, <1>6 DEF FilterOK, FilterOut
  <2> DEFINE t == srv[sock[p]]
  <2>1. t \in Tools /\ clictx[t].command = "trace"
    BY <1>4, SessionFacts DEF FilterOut
  <2>2. ASSUME NEW f, Asked(f) PROVE f = clictx[t].filter
    BY <2>1, <2>2 DEF SessionInv, Alike, Sessions, Asked
  <2>3. CASE pft[p] = clictx[t].filter
    <3>1. s[1] \in FilterTypes => s[1] = clictx[t].filter
      BY <1>8, <2>2
    <3>2. pft \in [Procs -> FilterTypes]
      BY SessionFacts
    <3>3. QED
      BY <1>10, <2>3, <3>1, <3>2
  <2>4. CASE \E i \in 1..Len(s) : s[i] = clictx[t].filter
    <3>1. PICK i \in 1..Len(s) : s[i] = clictx[t].filter
      BY <2>4
    <3>2. CASE i # 1
      <4>1. i - 1 \in 1..Len(Tail(s)) /\ Tail(s)[i - 1] = s[i]
        BY <1>7, <3>2
      <4>2. QED
        BY <3>1, <4>1
    <3>3. CASE i = 1
      <4>1. s[1] \in FilterTypes
        BY <2>1, <3>1, <3>3 DEF IndInv, ToolInd, ToolTypeOK, Invocation
      <4>2. pft' = [pft EXCEPT ![p] = s[1]]
        BY <1>10, <4>1 DEF FilterTypes
      <4>3. QED
        BY <3>1, <3>3, <4>2, SessionFacts
    <3>4. QED
      BY <3>2, <3>3
  <2>5. QED
    BY <1>1, <1>4, <2>3, <2>4, SessionFacts DEF FilterOK
<1>13. ASSUME NEW c \in Conns PROVE QueuedOK(c)'
  <2>1. QueuedOK(c)
    BY <1>1
  <2>2. \A i \in 1..Len(toPhp'[c]) : /\ toPhp'[c][i] = "DO_TRACE" => Traced
                                     /\ toPhp'[c][i] \in FilterTypes => Asked(toPhp'[c][i])
    <3>1. CASE c = sock[p]
      <4>1. \A i \in 1..Len(s) :
               /\ s[i] = "DO_TRACE" => Traced
               /\ s[i] \in FilterTypes => Asked(s[i])
        BY <2>1, <3>1 DEF QueuedOK
      <4>2. toPhp'[c] = Tail(s)
        BY <1>6, <3>1
      <4>3. \A i \in 1..Len(Tail(s)) : Tail(s)[i] = s[i + 1] /\ i + 1 \in 1..Len(s)
        BY <1>7
      <4> HIDE DEF s
      <4>4. ASSUME NEW i \in 1..Len(toPhp'[c])
            PROVE  \E j \in 1..Len(s) : toPhp'[c][i] = s[j]
        BY <4>2, <4>3
      <4>5. QED
        BY <4>1, <4>4
    <3>2. CASE c # sock[p]
      BY <1>3, <2>1, <3>2, SessionFacts DEF QueuedOK
    <3>3. QED
      BY <3>1, <3>2
  <2>3. QED
    BY <1>9, <2>2 DEF QueuedOK
<1>14. ASSUME NEW q \in Procs \ {p}
       PROVE  /\ sock'[q] = sock[q] /\ pft'[q] = pft[q] /\ dotrace'[q] = dotrace[q]
              /\ sock[q] # None => toPhp'[sock[q]] = toPhp[sock[q]]
  <2>1. sock[q] # None => sock[q] \in Conns /\ sock[q] # sock[p]
    BY SocketsDiffer DEF IndInv
  <2>2. QED
    BY <1>3, <1>10, <2>1, SessionFacts
<1>15. QED
  BY <1>2, <1>3, <1>11, <1>12, <1>13, <1>14, ProcessSession

\* A new connection has not been accepted, so nothing was sent on it; one that
\* is closed takes what was told with it, or leaves it as it is.
LEMMA SocketSession ==
    ASSUME IndInv, SessionInv, NEW p \in Procs, UNCHANGED toolVars,
           \/ Connect(p) \/ ConnectFailed(p) \/ Retry(p) \/ RetryFailed(p) \/ Reset(p)
           \/ ProcessEnd(p)
    PROVE  SessionInv'
<1>1. ToldOK(p) /\ FilterOK(p) /\ \A c \in Conns : QueuedOK(c)
  BY DEF SessionInv
<1>2. UNCHANGED <<tpc, clictx, cur>>
  BY DEF toolVars
<1>3. /\ Traced' <=> Traced
      /\ \A f : Asked(f)' <=> Asked(f)
  BY <1>2 DEF Traced, Asked
<1>4. ASSUME NEW q \in Procs \ {p}, sock[q] # None
      PROVE  /\ sock[q] \in Conns /\ sock[q] # sock[p] /\ cli[sock[q]] = q /\ q # None
  BY <1>4, SocketsDiffer DEF IndInv
<1>5. CASE Connect(p) \/ Retry(p)
  <2>1. PICK c \in Conns : pt_comm_connect(p, c) /\ sock' = [sock EXCEPT ![p] = c]
    BY <1>5 DEF Connect, Retry
  <2>2. /\ cli[c] = None /\ srv[c] = None /\ srv' = [srv EXCEPT ![c] = path]
        /\ UNCHANGED <<acc, toPhp, toTool, dotrace, pft>>
    BY <1>5, <2>1 DEF Connect, Retry, pt_comm_connect, LowestFree, Free
  <2>3. ~acc[c]
    BY <2>2, SessionFacts
  <2>4. FilterOK(p)'
    BY <2>1, <2>2, <2>3, SessionFacts DEF FilterOK, FilterOut
  <2>5. ToldOK(p)' /\ \A d \in Conns : QueuedOK(d)'
    BY <1>1, <1>3, <2>2 DEF ToldOK, QueuedOK
  <2>6. ASSUME NEW q \in Procs \ {p}
        PROVE  sock'[q] = sock[q] /\ (sock[q] # None => srv'[sock[q]] = srv[sock[q]])
    BY <1>4, <2>1, <2>2, SessionFacts
  <2>7. QED
    BY <1>2, <2>2, <2>4, <2>5, <2>6, ProcessSession
<1>6. CASE ConnectFailed(p) \/ RetryFailed(p)
  <2>1. /\ UNCHANGED <<srv, acc, toPhp, toTool, dotrace, pft>>
        /\ sock' = sock \/ sock' = [sock EXCEPT ![p] = None]
    BY <1>6 DEF ConnectFailed, RetryFailed, pt_comm_connect_failed
  <2>2. sock'[p] \in {sock[p], None} /\ \A q \in Procs \ {p} : sock'[q] = sock[q]
    BY <2>1, SessionFacts
  <2>3. FilterOK(p)'
    BY <1>1, <1>2, <2>1, <2>2 DEF FilterOK, FilterOut
  <2>4. ToldOK(p)' /\ \A d \in Conns : QueuedOK(d)'
    BY <1>1, <1>3, <2>1 DEF ToldOK, QueuedOK
  <2>5. QED
    BY <1>2, <2>1, <2>2, <2>3, <2>4, ProcessSession
<1>7. CASE Reset(p) \/ ProcessEnd(p)
  <2>1. /\ UNCHANGED <<srv, acc, toTool>>
        /\ sock' = [sock EXCEPT ![p] = None]
        /\ pft' = [pft EXCEPT ![p] = "EMPTY"]
        /\ dotrace' = [dotrace EXCEPT ![p] = FALSE]
        /\ CloseClient({sock[p]}) \/ CloseClient({c \in Conns : cli[c] = p})
    BY <1>7 DEF Reset, ProcessEnd, MShutdown, KillProcess, ExitClient
  <2>2. \A c \in Conns : toPhp'[c] = toPhp[c] \/ toPhp'[c] = <<>>
    BY <2>1 DEF CloseClient
  <2>3. sock'[p] = None /\ pft'[p] = "EMPTY" /\ ~dotrace'[p]
    BY <2>1, SessionFacts
  <2>4. ToldOK(p)' /\ FilterOK(p)'
    BY <2>3 DEF ToldOK, FilterOK
  <2>5. ASSUME NEW c \in Conns PROVE QueuedOK(c)'
    <3>1. QueuedOK(c)
      BY <1>1
    <3>2. CASE toPhp'[c] = toPhp[c]
      BY <1>3, <3>1, <3>2 DEF QueuedOK
    <3>3. CASE toPhp'[c] = <<>>
      BY <1>3, <3>1, <3>3 DEF QueuedOK
    <3>4. QED
      BY <2>2, <3>2, <3>3
  <2>6. ASSUME NEW q \in Procs \ {p}
        PROVE  /\ sock'[q] = sock[q] /\ pft'[q] = pft[q] /\ dotrace'[q] = dotrace[q]
               /\ sock[q] # None => toPhp'[sock[q]] = toPhp[sock[q]]
    <3>1. sock'[q] = sock[q] /\ pft'[q] = pft[q] /\ dotrace'[q] = dotrace[q]
      BY <2>1, SessionFacts
    <3>2. sock[q] # None => toPhp'[sock[q]] = toPhp[sock[q]]
      BY <1>4, <2>1 DEF CloseClient
    <3>3. QED
      BY <3>1, <3>2
  <2>7. QED
    BY <1>2, <2>1, <2>4, <2>5, <2>6, ProcessSession
<1>8. QED
  BY <1>5, <1>6, <1>7

\* A step of a process.
LEMMA PhpSession ==
    ASSUME IndInv, SessionInv, NEW p \in Procs, Php(p)
    PROVE  SessionInv'
<1>1. UNCHANGED toolVars
  BY DEF Php
<1>2. CASE \/ RecvEmpty(p) \/ RecvError(p) \/ HandleError(p) \/ RInit(p)
           \/ Call(p) \/ Leave(p) \/ EndRequest(p)
  <2>1. UNCHANGED <<tpc, clictx, cur, srv, acc, toPhp, toTool, dotrace, sock, pft>>
    BY <1>1, <1>2 DEF RecvEmpty, RecvError, HandleError, RInit, Call, Leave,
                      EndRequest, commVars, toolVars
  <2>2. QED
    BY <2>1, SessionUnchanged
<1>3. QED
  BY <1>1, <1>2, ReportSession, CommandSession, SocketSession DEF Php, ProcessStep

-----------------------------------------------------------------------------
(* The same for the tools *)

\* A step of t that is where its command leads, sends what is its own, and
\* counts a filter as sent only when it is.
LEMMA ToolSession ==
    ASSUME SessionInv, UNCHANGED extVars, NEW t \in Tools,
           \A u \in Tools : /\ clictx'[u].command = clictx[u].command
                            /\ clictx'[u].filter = clictx[u].filter
                            /\ u # t => tpc'[u] = tpc[u] /\ cur'[u] = cur[u],
           /\ tpc'[t] \in {"loop", "filter", "trace", "recv"} => clictx[t].command = "trace"
           /\ tpc'[t] \in {"wait", "ask", "answer"} => clictx[t].command = "status"
           /\ tpc'[t] = "on" => clictx[t].command \in {"trace", "status"},
           \A c \in Conns : QueuedOK(c)',
           \A c \in Conns : FilterOut(c)' =>
              \/ /\ FilterOut(c) /\ srv'[c] = srv[c]
                 /\ \A i \in 1..Len(toPhp[c]) : \E j \in 1..Len(toPhp'[c]) :
                       toPhp'[c][j] = toPhp[c][i]
              \/ \E j \in 1..Len(toPhp'[c]) : toPhp'[c][j] = clictx[srv'[c]].filter,
           srv' \in [Conns -> Tools \cup {None}], sock \in [Procs -> Conns \cup {None}]
    PROVE  SessionInv'
<1>1. UNCHANGED <<dotrace, sock, pft>>
  BY DEF extVars
<1>2. Alike'
  BY DEF SessionInv, Alike, Sessions
<1>3. ToolCourse'
  BY DEF SessionInv, ToolCourse
<1>4. /\ Traced' <=> Traced
      /\ \A f : Asked(f)' <=> Asked(f)
  BY DEF Traced, Asked
<1>5. ASSUME NEW p \in Procs PROVE ToldOK(p)' /\ FilterOK(p)'
  <2>1. ToldOK(p) /\ FilterOK(p)
    BY DEF SessionInv
  <2>2. ToldOK(p)'
    BY <1>1, <1>4, <2>1 DEF ToldOK
  <2>3. FilterOK(p)'
    <3> SUFFICES ASSUME NEW c \in Conns, c = sock[p], FilterOut(c)'
                 PROVE  \/ pft[p] = clictx'[srv'[c]].filter
                        \/ \E i \in 1..Len(toPhp'[c]) : toPhp'[c][i] = clictx'[srv'[c]].filter
      BY <1>1 DEF FilterOK, FilterOut
    <3>1. srv'[c] \in Tools /\ sock[p] # None
      BY CommAssumption DEF FilterOut, Conns
    <3>2. clictx'[srv'[c]].filter = clictx[srv'[c]].filter
      BY <3>1
    <3>3. CASE /\ FilterOut(c) /\ srv'[c] = srv[c]
               /\ \A i \in 1..Len(toPhp[c]) : \E j \in 1..Len(toPhp'[c]) :
                     toPhp'[c][j] = toPhp[c][i]
      BY <2>1, <3>1, <3>2, <3>3 DEF FilterOK
    <3>4. CASE \E j \in 1..Len(toPhp'[c]) : toPhp'[c][j] = clictx[srv'[c]].filter
      BY <3>2, <3>4
    <3>5. QED
      BY <3>1, <3>3, <3>4
  <2>4. QED
    BY <2>2, <2>3
<1>6. QED
  BY <1>2, <1>3, <1>5 DEF SessionInv

\* Most steps of a tool accept nobody and send nothing.
LEMMA QuietSession ==
    ASSUME IndInv, SessionInv, UNCHANGED extVars, NEW t \in Tools,
           \A u \in Tools : /\ clictx'[u].command = clictx[u].command
                            /\ clictx'[u].filter = clictx[u].filter
                            /\ u # t => tpc'[u] = tpc[u] /\ cur'[u] = cur[u],
           /\ tpc'[t] \in {"loop", "filter", "trace", "recv"} => clictx[t].command = "trace"
           /\ tpc'[t] \in {"wait", "ask", "answer"} => clictx[t].command = "status"
           /\ tpc'[t] = "on" => clictx[t].command \in {"trace", "status"},
           toPhp' = toPhp,
           \A c \in Conns : /\ acc'[c] => acc[c]
                            /\ srv'[c] \in {srv[c], None}
                            /\ srv'[c] = t => tpc[t] # "filter",
           srv' \in [Conns -> Tools \cup {None}]
    PROVE  SessionInv'
<1>1. /\ Traced' <=> Traced
      /\ \A f : Asked(f)' <=> Asked(f)
  BY DEF Traced, Asked
<1>2. ASSUME NEW c \in Conns PROVE QueuedOK(c)'
  BY <1>1 DEF SessionInv, QueuedOK
<1>3. ASSUME NEW c \in Conns, FilterOut(c)' PROVE FilterOut(c) /\ srv'[c] = srv[c]
  <2>1. srv'[c] = srv[c] /\ srv[c] \in Tools /\ acc[c]
    BY <1>3, SessionFacts DEF FilterOut
  <2>2. /\ clictx[srv[c]].command = "trace" /\ clictx[srv[c]].filter # "EMPTY"
        /\ ~(tpc'[srv[c]] = "filter" /\ cur'[srv[c]] = c)
    BY <1>3, <2>1 DEF FilterOut
  <2>3. ~(tpc[srv[c]] = "filter" /\ cur[srv[c]] = c)
    BY <2>1, <2>2
  <2>4. QED
    BY <2>1, <2>2, <2>3, SessionFacts DEF FilterOut
<1>4. \A c \in Conns : \A i \in 1..Len(toPhp[c]) : \E j \in 1..Len(toPhp'[c]) :
        toPhp'[c][j] = toPhp[c][i]
  OBVIOUS
<1>5. sock \in [Procs -> Conns \cup {None}]
  BY SessionFacts
<1>6. QED
  BY <1>2, <1>3, <1>4, <1>5, ToolSession, SMTT(40)

\* What a tool is and is not, in the steps below.
LEMMA RunFacts ==
    ASSUME IndInv
    PROVE  /\ clictx \in [Tools -> Invocation]
           /\ cur \in [Tools -> Conns \cup {None}]
           /\ tpc \in [Tools -> ToolPCs]
BY DEF IndInv, ToolInd, ToolTypeOK, ToolPCs

\* Steps of main and the ends of a run.
LEMMA MainSession ==
    ASSUME IndInv, SessionInv, UNCHANGED extVars, NEW t \in Tools,
           \/ Start(t) \/ Listen(t) \/ ListenFailed(t) \/ Usage(t) \/ Close(t)
           \/ SwitchOn(t) \/ Deinit(t) \/ SwitchOff(t) \/ SigPipe(t) \/ KillTool(t)
    PROVE  SessionInv'
<1>1. toPhp' = toPhp /\ clictx' = clictx
  BY DEF Start, Listen, ListenFailed, Usage, Close, SwitchOn, Deinit, SwitchOff, SigPipe,
         KillTool, Ended, ExitServer, pt_comm_listen, commVars
<1>2. ASSUME NEW u \in Tools, u # t PROVE tpc'[u] = tpc[u] /\ cur'[u] = cur[u]
  BY <1>2, RunFacts DEF Start, Listen, ListenFailed, Usage, Close, SwitchOn, Deinit, SwitchOff, SigPipe,
         KillTool, Ended, ToolGoto
<1>3. /\ tpc'[t] \in {"loop", "filter", "trace", "recv"} => clictx[t].command = "trace"
      /\ tpc'[t] \in {"wait", "ask", "answer"} => clictx[t].command = "status"
      /\ tpc'[t] = "on" => clictx[t].command \in {"trace", "status"}
  <2>1. CASE Listen(t)
    BY <2>1, RunFacts DEF Listen, ToolGoto
  <2>2. CASE SwitchOn(t)
    <3>1. clictx[t].command \in {"trace", "status"}
      BY <2>2 DEF SwitchOn, SessionInv, ToolCourse
    <3>2. tpc'[t] = IF clictx[t].command = "trace" THEN "loop" ELSE "wait"
      BY <2>2, RunFacts DEF SwitchOn, ToolGoto
    <3>3. QED
      BY <3>1, <3>2
  <2>3. CASE \/ Start(t) \/ ListenFailed(t) \/ Usage(t) \/ Close(t)
             \/ Deinit(t) \/ SwitchOff(t) \/ SigPipe(t) \/ KillTool(t)
    <3>1. tpc'[t] \in {"bind", "done", "off", "close", "sigpipe", "killed"}
      BY <2>3, RunFacts DEF Start, ListenFailed, Usage, Close, Deinit, SwitchOff, SigPipe,
             KillTool, Ended, ToolGoto
    <3>2. QED
      BY <3>1
  <2>4. QED
    BY <2>1, <2>2, <2>3
<1>4. ASSUME NEW c \in Conns
      PROVE  /\ acc'[c] => acc[c]
             /\ srv'[c] \in {srv[c], None}
             /\ srv'[c] = t => tpc[t] # "filter"
  <2>1. CASE Usage(t) \/ Close(t) \/ SigPipe(t) \/ KillTool(t)
    <3>1. CloseServer({d \in Conns : srv[d] = t})
      BY <2>1 DEF Usage, Close, SigPipe, KillTool, Ended, ExitServer
    <3>2. srv'[c] # t
      BY <3>1, SessionFacts DEF CloseServer
    <3>3. QED
      BY <3>1, <3>2 DEF CloseServer
  <2>2. CASE Deinit(t)
    BY <2>2 DEF Deinit, CloseServer
  <2>3. CASE \/ Start(t) \/ Listen(t) \/ ListenFailed(t) \/ SwitchOn(t) \/ SwitchOff(t)
    BY <2>3 DEF Start, Listen, ListenFailed, SwitchOn, SwitchOff, pt_comm_listen, commVars
  <2>4. QED
    BY <2>1, <2>2, <2>3
<1>5. srv' \in [Conns -> Tools \cup {None}]
  BY PhpToolInd, SessionFacts DEF Start, Listen, ListenFailed, Usage, Close, SwitchOn, Deinit,
     SwitchOff, SigPipe, KillTool, Ended, ExitServer, CloseServer, pt_comm_listen, commVars
<1>6. QED
  BY <1>1, <1>2, <1>3, <1>4, <1>5, QuietSession

\* Steps of the loops that send nothing.
LEMMA LoopSession ==
    ASSUME IndInv, SessionInv, UNCHANGED extVars, NEW t \in Tools,
           \/ Interrupt(t) \/ Select(t) \/ StatusAnswer(t) \/ StatusTimeout(t)
           \/ \E c \in Conns : Display(t, c) \/ Drained(t, c) \/ Detach(t, c)
    PROVE  SessionInv'
<1>1. toPhp' = toPhp /\ cur' = cur
  BY DEF Interrupt, Select, StatusAnswer, StatusTimeout, Display, Drained, Detach, commVars
<1>2. ASSUME NEW u \in Tools
      PROVE  clictx'[u].command = clictx[u].command /\ clictx'[u].filter = clictx[u].filter
  <2>1. CASE \E c \in Conns : Display(t, c)
    <3>1. PICK l : clictx' = [clictx EXCEPT ![t].limit = l]
      BY <2>1 DEF Display
    <3>2. QED
      BY <3>1, RunFacts DEF Invocation
  <2>2. CASE ~\E c \in Conns : Display(t, c)
    <3>1. clictx' = clictx
      BY <2>2 DEF Interrupt, Select, StatusAnswer, StatusTimeout, Drained, Detach
    <3>2. QED
      BY <3>1
  <2>3. QED
    BY <2>1, <2>2
<1>3. /\ tpc[t] \in {"loop", "recv", "wait", "answer"}
      /\ \/ tpc' = [tpc EXCEPT ![t] = "deinit"]
         \/ tpc[t] = "loop" /\ tpc' = [tpc EXCEPT ![t] = "recv"]
         \/ tpc[t] = "recv" /\ tpc' = [tpc EXCEPT ![t] = "loop"]
         \/ tpc[t] = "recv" /\ tpc' = tpc
  BY DEF Interrupt, Select, StatusAnswer, StatusTimeout, Display, Drained, Detach,
         NextClient, Serving, ToolGoto
<1>4. tpc[t] \in {"loop", "recv"} => clictx[t].command = "trace"
  BY DEF SessionInv, ToolCourse
<1>5. /\ tpc'[t] \in {"loop", "filter", "trace", "recv"} => clictx[t].command = "trace"
      /\ tpc'[t] \in {"wait", "ask", "answer"} => clictx[t].command = "status"
      /\ tpc'[t] = "on" => clictx[t].command \in {"trace", "status"}
      /\ \A u \in Tools : u # t => tpc'[u] = tpc[u]
  <2>1. \A u \in Tools : u # t => tpc'[u] = tpc[u]
    BY <1>3, RunFacts
  <2>2. tpc'[t] \in {"deinit", "loop", "recv"} /\ (tpc'[t] # "deinit" => tpc[t] \in {"loop", "recv"})
    BY <1>3, RunFacts
  <2>3. QED
    BY <1>4, <2>1, <2>2
<1>6. ASSUME NEW d \in Conns
      PROVE  /\ acc'[d] => acc[d]
             /\ srv'[d] \in {srv[d], None}
  <2>1. CASE \E c \in Conns : Display(t, c)
    BY <2>1, SessionFacts DEF Display
  <2>2. CASE \E c \in Conns : Detach(t, c)
    BY <2>2 DEF Detach, CloseServer
  <2>3. CASE \/ Interrupt(t) \/ Select(t) \/ StatusAnswer(t) \/ StatusTimeout(t)
             \/ \E c \in Conns : Drained(t, c)
    BY <2>3 DEF Interrupt, Select, StatusAnswer, StatusTimeout, Drained, commVars
  <2>4. QED
    BY <2>1, <2>2, <2>3
<1>7. srv' \in [Conns -> Tools \cup {None}]
  BY SessionFacts DEF Interrupt, Select, StatusAnswer, StatusTimeout, Display, Drained, Detach,
                      CloseServer, commVars
<1>8. QED
  BY <1>1, <1>2, <1>3, <1>5, <1>6, <1>7, QuietSession

\* A client that was accepted is sent the filter before anything else.
LEMMA AcceptSession ==
    ASSUME IndInv, SessionInv, UNCHANGED extVars, NEW t \in Tools,
           Accept(t) \/ StatusAccept(t)
    PROVE  SessionInv'
<1>1. PICK c \in Conns : pt_comm_accept(t, c) /\ cur' = [cur EXCEPT ![t] = c]
  BY DEF Accept, StatusAccept
<1>2. /\ srv[c] = t /\ ~acc[c] /\ acc' = [acc EXCEPT ![c] = TRUE]
      /\ UNCHANGED <<srv, toPhp, toTool, clictx>>
  BY <1>1 DEF pt_comm_accept, Pending, Accept, StatusAccept
<1>3. \/ /\ clictx[t].command = "trace"
         /\ tpc' = [tpc EXCEPT ![t] = IF clictx[t].filter # "EMPTY" THEN "filter" ELSE "trace"]
      \/ clictx[t].command = "status" /\ tpc' = [tpc EXCEPT ![t] = "ask"]
  BY DEF Accept, StatusAccept, ToolGoto, SessionInv, ToolCourse
<1>4. \A u \in Tools : u # t => tpc'[u] = tpc[u] /\ cur'[u] = cur[u]
  BY <1>1, <1>3, RunFacts
<1>5. /\ tpc'[t] \in {"loop", "filter", "trace", "recv"} => clictx[t].command = "trace"
      /\ tpc'[t] \in {"wait", "ask", "answer"} => clictx[t].command = "status"
      /\ tpc'[t] = "on" => clictx[t].command \in {"trace", "status"}
  <2>1. tpc'[t] \in {"filter", "trace", "ask"}
        /\ (tpc'[t] = "ask" <=> clictx[t].command = "status")
        /\ clictx[t].command \in {"trace", "status"}
    BY <1>3, RunFacts
  <2>2. QED
    BY <2>1
<1>6. ASSUME NEW d \in Conns PROVE QueuedOK(d)'
  BY <1>2 DEF SessionInv, QueuedOK, Traced, Asked
<1>7. ASSUME NEW d \in Conns, FilterOut(d)' PROVE FilterOut(d)
  <2>1. CASE d = c
    <3>1. acc'[d] /\ srv'[d] = t /\ cur'[t] = d
      BY <1>1, <1>2, <2>1, SessionFacts, RunFacts
    <3>2. clictx[t].command = "trace" /\ clictx[t].filter # "EMPTY" /\ tpc'[t] # "filter"
      BY <1>2, <1>7, <3>1 DEF FilterOut
    <3>3. QED
      BY <1>3, <3>2, RunFacts
  <2>2. CASE d # c
    <3>1. acc'[d] = acc[d] /\ srv'[d] = srv[d]
      BY <1>2, <2>2, SessionFacts
    <3>2. CASE srv[d] = t
      <4>1. tpc[t] # "filter"
        BY DEF Accept, StatusAccept
      <4>2. QED
        BY <1>2, <1>7, <3>1, <3>2, <4>1 DEF FilterOut
    <3>3. CASE srv[d] # t
      <4>1. srv[d] \in Tools
        BY <1>7, <3>1, SessionFacts DEF FilterOut
      <4>2. tpc'[srv[d]] = tpc[srv[d]] /\ cur'[srv[d]] = cur[srv[d]]
        BY <1>4, <3>3, <4>1
      <4>3. QED
        BY <1>2, <1>7, <3>1, <4>2 DEF FilterOut
    <3>4. QED
      BY <3>2, <3>3
  <2>3. QED
    BY <2>1, <2>2
<1>8. QED
  BY <1>2, <1>4, <1>5, <1>6, <1>7, SessionFacts, ToolSession

\* A tool sends what its own command line asks for.
LEMMA SendSession ==
    ASSUME IndInv, SessionInv, UNCHANGED extVars, NEW t \in Tools,
           SendFilter(t) \/ SendTrace(t) \/ StatusAsk(t)
    PROVE  SessionInv'
<1>1. PICK c \in Conns, m \in Commands :
        /\ c = cur[t] /\ SendCommand(c, m)
        /\ \/ tpc[t] = "filter" /\ m = clictx[t].filter
           \/ tpc[t] = "trace" /\ m = "DO_TRACE"
           \/ tpc[t] = "ask" /\ m = "DO_STATUS"
  <2>1. tpc[t] \in {"filter", "trace", "ask"}
    BY DEF SendFilter, SendTrace, StatusAsk
  <2>2. cur[t] \in Conns
    BY <2>1, RunFacts DEF IndInv, ToolInd, ToolShape, ToolOK
  <2>3. CASE SendFilter(t)
    <3>1. clictx[t].filter \in FilterTypes \ {"EMPTY"}
      <4>1. clictx[t].filter # "EMPTY"
        BY <2>3 DEF SendFilter, IndInv, ToolInd, ToolShape, ToolOK
      <4>2. clictx[t].filter \in FilterTypes
        BY RunFacts DEF Invocation
      <4>3. QED
        BY <4>1, <4>2
    <3>2. QED
      BY <2>2, <2>3, <3>1 DEF SendFilter, Commands
  <2>4. CASE SendTrace(t) \/ StatusAsk(t)
    BY <2>2, <2>4 DEF SendTrace, StatusAsk, Commands
  <2>5. QED
    BY <2>3, <2>4
<1>2. /\ toPhp' = [toPhp EXCEPT ![c] = Append(@, m)]
      /\ UNCHANGED <<srv, acc, toTool, clictx>>
  BY <1>1 DEF SendCommand, SendFilter, SendTrace, StatusAsk
<1>3. tpc[t] \in {"filter", "trace"} => clictx[t].command = "trace"
  BY DEF SessionInv, ToolCourse
<1>4. \/ tpc[t] \in {"filter", "trace"} /\ tpc' = [tpc EXCEPT ![t] = "loop"]
      \/ tpc[t] = "filter" /\ tpc' = [tpc EXCEPT ![t] = "trace"]
      \/ tpc[t] = "ask" /\ tpc' = [tpc EXCEPT ![t] = "answer"]
  BY DEF SendFilter, SendTrace, StatusAsk, ToolGoto
<1>5. cur' = cur \/ cur' = [cur EXCEPT ![t] = None]
  BY DEF SendFilter, SendTrace, StatusAsk
<1>6. \A u \in Tools : u # t => tpc'[u] = tpc[u] /\ cur'[u] = cur[u]
  BY <1>4, <1>5, RunFacts
<1>7. /\ tpc'[t] \in {"loop", "filter", "trace", "recv"} => clictx[t].command = "trace"
      /\ tpc'[t] \in {"wait", "ask", "answer"} => clictx[t].command = "status"
      /\ tpc'[t] = "on" => clictx[t].command \in {"trace", "status"}
  <2>1. tpc[t] = "ask" => clictx[t].command = "status"
    BY DEF SessionInv, ToolCourse
  <2>2. /\ tpc'[t] \in {"loop", "trace", "answer"}
        /\ tpc'[t] = "answer" => tpc[t] = "ask"
        /\ tpc'[t] # "answer" => tpc[t] \in {"filter", "trace"}
    BY <1>4, RunFacts
  <2>3. QED
    BY <1>3, <2>1, <2>2
<1>8. toPhp[c] \in Seq(Commands) /\ toPhp'[c] = Append(toPhp[c], m)
  BY <1>2, SessionFacts
<1>9. /\ Len(toPhp'[c]) = Len(toPhp[c]) + 1 /\ Len(toPhp[c]) \in Nat
      /\ \A i \in 1..Len(toPhp[c]) : toPhp'[c][i] = toPhp[c][i]
      /\ toPhp'[c][Len(toPhp'[c])] = m
  BY <1>8, OneMore
<1>10. /\ m = "DO_TRACE" => Traced
       /\ m \in FilterTypes => Asked(m)
  BY <1>1, <1>3 DEF Traced, Asked, FilterTypes
<1>11. ASSUME NEW d \in Conns PROVE QueuedOK(d)'
  <2>1. QueuedOK(d)
    BY DEF SessionInv
  <2>2. /\ Traced' <=> Traced
        /\ \A f : Asked(f)' <=> Asked(f)
    BY <1>2 DEF Traced, Asked
  <2>3. CASE d # c
    <3>1. toPhp'[d] = toPhp[d]
      BY <1>2, <2>3, SessionFacts
    <3>2. QED
      BY <1>2, <2>1, <2>2, <3>1 DEF QueuedOK
  <2>4. CASE d = c
    <3>1. ASSUME NEW i \in 1..Len(toPhp'[c])
          PROVE  /\ toPhp'[c][i] = "DO_TRACE" => Traced
                 /\ toPhp'[c][i] \in FilterTypes => Asked(toPhp'[c][i])
      <4>1. CASE i \in 1..Len(toPhp[c])
        BY <1>9, <2>1, <2>4, <4>1 DEF QueuedOK
      <4>2. CASE i \notin 1..Len(toPhp[c])
        <5>1. toPhp'[c][i] = m
          BY <1>9, <4>2
        <5>2. QED
          BY <1>10, <5>1
      <4>3. QED
        BY <4>1, <4>2
    <3>2. QED
      BY <1>2, <2>1, <2>2, <2>4, <3>1 DEF QueuedOK
  <2>5. QED
    BY <2>3, <2>4
<1>12. ASSUME NEW d \in Conns, FilterOut(d)'
       PROVE  \/ /\ FilterOut(d) /\ srv'[d] = srv[d]
                 /\ \A i \in 1..Len(toPhp[d]) : \E j \in 1..Len(toPhp'[d]) :
                       toPhp'[d][j] = toPhp[d][i]
              \/ \E j \in 1..Len(toPhp'[d]) : toPhp'[d][j] = clictx[srv'[d]].filter
  <2>1. CASE tpc[t] = "filter" /\ d = c /\ srv[c] = t
    <3>1. m = clictx[t].filter
      BY <1>1, <2>1
    <3>2. Len(toPhp'[c]) \in 1..Len(toPhp'[c])
      BY <1>9
    <3>3. QED
      BY <1>2, <1>9, <2>1, <3>1, <3>2
  <2>2. CASE ~(tpc[t] = "filter" /\ d = c /\ srv[c] = t)
    <3>1. \A i \in 1..Len(toPhp[d]) : \E j \in 1..Len(toPhp'[d]) :
             toPhp'[d][j] = toPhp[d][i]
      <4>1. CASE d = c
        BY <1>9, <4>1
      <4>2. CASE d # c
        BY <1>2, <4>2, SessionFacts
      <4>3. QED
        BY <4>1, <4>2
    <3>2. /\ srv[d] \in Tools /\ acc[d] /\ clictx[srv[d]].command = "trace"
          /\ clictx[srv[d]].filter # "EMPTY"
          /\ ~(tpc'[srv[d]] = "filter" /\ cur'[srv[d]] = d)
      BY <1>2, <1>12, SessionFacts DEF FilterOut
    <3>3. ~(tpc[srv[d]] = "filter" /\ cur[srv[d]] = d)
      BY <1>1, <1>6, <2>2, <3>2
    <3>4. FilterOut(d)
      BY <3>2, <3>3, SessionFacts DEF FilterOut
    <3>5. QED
      BY <1>2, <3>1, <3>4
  <2>3. QED
    BY <2>1, <2>2
<1>13. QED
  BY <1>2, <1>6, <1>7, <1>11, <1>12, SessionFacts, ToolSession

\* A step of a tool.
LEMMA PhpToolSession ==
    ASSUME IndInv, SessionInv, NEW t \in Tools, PhpTool(t)
    PROVE  SessionInv'
BY MainSession, LoopSession, AcceptSession, SendSession DEF PhpTool, ToolStep, ToolUser

\* Tools that ask for the same thing never get anything else.
LEMMA SessionAlways == Spec /\ Alike => [](IndInv /\ SessionInv)
<1>1. Init /\ Alike => IndInv /\ SessionInv
  BY IndInvInit, SessionInit
<1>2. IndInv /\ SessionInv /\ [Next]_vars => (IndInv /\ SessionInv)'
  <2>1. SUFFICES ASSUME IndInv, SessionInv, [Next]_vars PROVE SessionInv'
    BY IndInvNext
  <2>2. CASE Next
    BY <2>1, <2>2, PhpSession, PhpToolSession DEF Next
  <2>3. CASE UNCHANGED vars
    <3>1. UNCHANGED <<tpc, clictx, cur, srv, acc, toPhp, toTool, dotrace, sock, pft>>
      BY <2>3 DEF vars, commVars, extVars, toolVars
    <3>2. QED
      BY <2>1, <3>1, SessionUnchanged
  <2>4. QED
    BY <2>1, <2>2, <2>3
<1>3. QED
  BY <1>1, <1>2, PTL DEF Spec

\* As long as all tools that trace or ask for a status have the same
\* sub-command and the same filter, and so with a single tool, a process that has read its
\* messages filters and traces as the tool it is connected to asked, through
\* any number of lost connections, retries and dead tools.
THEOREM SessionIsOwn == Spec /\ Alike => []SessionIsTools
<1>1. IndInv /\ SessionInv => SessionIsTools
  <2> SUFFICES ASSUME IndInv, SessionInv, NEW p \in Procs, NEW t \in Tools,
                      sock[p] # None, srv[sock[p]] = t, acc[sock[p]],
                      toPhp[sock[p]] = <<>>, tpc[t] \in {"loop", "recv", "answer"}
               PROVE  /\ pft[p] = IF clictx[t].command = "trace" THEN clictx[t].filter
                                  ELSE "EMPTY"
                      /\ dotrace[p] => clictx[t].command = "trace"
    BY DEF SessionIsTools
  <2>1. clictx[t].command \in {"trace", "status"}
    BY DEF SessionInv, ToolCourse
  <2>2. ASSUME NEW u \in Tools, clictx[u].command = "trace"
        PROVE  clictx[t].command = "trace" /\ clictx[u].filter = clictx[t].filter
    BY <2>1, <2>2 DEF SessionInv, Alike, Sessions
  <2>3. ToldOK(p) /\ FilterOK(p)
    BY DEF SessionInv
  <2>4. dotrace[p] => clictx[t].command = "trace"
    BY <2>2, <2>3 DEF ToldOK, Traced
  <2>5. pft[p] # "EMPTY" => clictx[t].command = "trace" /\ pft[p] = clictx[t].filter
    BY <2>2, <2>3 DEF ToldOK, Asked
  <2>6. CASE clictx[t].command = "trace" /\ clictx[t].filter # "EMPTY"
    <3>1. FilterOut(sock[p])
      BY <2>6, SessionFacts DEF FilterOut
    <3>2. ~\E i \in 1..Len(toPhp[sock[p]]) : toPhp[sock[p]][i] = clictx[t].filter
      OBVIOUS
    <3>3. QED
      BY <2>3, <2>4, <2>6, <3>1, <3>2 DEF FilterOK
  <2>7. QED
    BY <2>1, <2>4, <2>5, <2>6
<1>2. QED
  BY <1>1, SessionAlways, PTL

-----------------------------------------------------------------------------
(* Entries and exits of frames *)

\* There is one tool, and no receive of a message fails.
SoleTool == (\A s, t \in Tools : s = t) /\ Risky = {}

\* No tool will serve a connection any more.
Past == \A t \in Tools : tpc[t] \in {"off", "close"} \cup EndPCs

\* A socket has a tool at its other end until the tool is past serving.
ServedOK(p) == sock[p] # None /\ srv[sock[p]] = None => Past

\* The entry of an open frame that is traced went to the tool.
SeenOK(p) ==
    \A l \in 1..level[p] : local[p][l] => entered[p][l] \in Tools \/ Past

HistoryInv ==
    /\ entered \in [Procs -> [1..MaxDepth -> Tools \cup {None}]]
    /\ \A p \in Procs : ServedOK(p) /\ SeenOK(p)

LEMMA HistoryInit == HInit => HistoryInv
BY DEF HInit, Init, ExtInit, HistoryInv, ServedOK, SeenOK

\* Types of the frames.
LEMMA FrameFacts ==
    ASSUME IndInv
    PROVE  /\ level \in [Procs -> 0..MaxDepth]
           /\ local \in [Procs -> [1..MaxDepth -> BOOLEAN]]
           /\ listening \in SUBSET Tools
           /\ MaxDepth \in Nat
BY ExtensionAssumption DEF IndInv, ExtInd, ExtTypeOK, CommTypeOK

\* No process closes the server end of anybody.
LEMMA ProcessServed ==
    ASSUME IndInv, NEW p \in Procs, Php(p), \A q \in Procs : ServedOK(q)
    PROVE  \A q \in Procs : ServedOK(q)'
<1>1. Past' <=> Past
  BY DEF Php, toolVars, Past
<1>2. CASE Connect(p) \/ Retry(p)
  <2>1. PICK c \in Conns : pt_comm_connect(p, c) /\ sock' = [sock EXCEPT ![p] = c]
    BY <1>2 DEF Connect, Retry
  <2>2. /\ cli[c] = None /\ srv' = [srv EXCEPT ![c] = path] /\ path \in Tools
    BY <2>1, FrameFacts DEF pt_comm_connect, LowestFree, Free, Reachable
  <2>3. ASSUME NEW q \in Procs PROVE ServedOK(q)'
    <3>1. CASE q = p
      <4>1. sock'[q] = c /\ srv'[c] # None
        BY <2>1, <2>2, <3>1, SessionFacts
      <4>2. QED
        BY <4>1 DEF ServedOK
    <3>2. CASE q # p
      <4>1. sock'[q] = sock[q]
        BY <2>1, <3>2, SessionFacts
      <4>2. sock[q] # None => sock[q] \in Conns /\ sock[q] # c
        BY <2>2, <3>2, SocketsDiffer DEF IndInv
      <4>3. sock[q] # None => srv'[sock[q]] = srv[sock[q]]
        BY <2>2, <4>2, SessionFacts
      <4>4. QED
        BY <1>1, <4>1, <4>3 DEF ServedOK
    <3>3. QED
      BY <3>1, <3>2
  <2>4. QED
    BY <2>3
<1>3. CASE ~(Connect(p) \/ Retry(p))
  <2>1. srv' = srv /\ \A q \in Procs : sock'[q] \in {sock[q], None}
    <3>1. CASE \/ ConnectFailed(p) \/ RetryFailed(p) \/ Reset(p) \/ ProcessEnd(p)
      BY <3>1, SessionFacts DEF ConnectFailed, RetryFailed, Reset, ProcessEnd, MShutdown,
         KillProcess, ExitClient, pt_comm_connect_failed
    <3>2. CASE DoTrace(p) \/ DoFilter(p) \/ DoStatus(p)
      BY <3>2 DEF DoTrace, DoFilter, DoStatus, Recv
    <3>3. CASE \/ RecvEmpty(p) \/ RecvError(p) \/ HandleError(p) \/ RInit(p)
               \/ Call(p) \/ Leave(p) \/ EndRequest(p)
      BY <3>3 DEF RecvEmpty, RecvError, HandleError, RInit, Call, Leave, EndRequest, commVars
    <3>4. CASE \/ \E match \in BOOLEAN : RInitFinish(p, match) \/ Enter(p, match)
               \/ ExitFrame(p) \/ RShutdown(p)
      BY <3>4 DEF RInitFinish, Enter, ExitFrame, RShutdown, SendReport, commVars
    <3>5. QED
      BY <1>3, <3>1, <3>2, <3>3, <3>4 DEF Php, ProcessStep
  <2>2. QED
    BY <1>1, <2>1 DEF ServedOK
<1>4. QED
  BY <1>2, <1>3

\* Frames are opened by Enter, closed by ExitFrame and dropped at the start of
\* a request and the end of the process; nothing else touches them.
LEMMA FrameSteps ==
    ASSUME IndInv, NEW p \in Procs, Php(p)
    PROVE  \/ \E match \in BOOLEAN : Enter(p, match)
           \/ ExitFrame(p)
           \/ level' = [level EXCEPT ![p] = 0] /\ UNCHANGED toTool
              /\ \A q \in Procs \ {p} : local'[q] = local[q]
           \/ UNCHANGED <<level, local>>
<1>1. CASE RInit(p) \/ KillProcess(p)
  BY <1>1, FrameFacts DEF RInit, KillProcess, ExitClient, commVars
<1>2. CASE \/ Connect(p) \/ Retry(p) \/ ConnectFailed(p) \/ RetryFailed(p) \/ Reset(p)
           \/ MShutdown(p) \/ RecvEmpty(p) \/ RecvError(p) \/ HandleError(p)
           \/ Call(p) \/ Leave(p) \/ EndRequest(p) \/ RShutdown(p)
           \/ DoTrace(p) \/ DoFilter(p) \/ DoStatus(p)
           \/ \E match \in BOOLEAN : RInitFinish(p, match)
  BY <1>2 DEF Connect, Retry, ConnectFailed, RetryFailed, Reset, MShutdown, RecvEmpty,
     RecvError, HandleError, Call, Leave, EndRequest, RShutdown, DoTrace, DoFilter,
     DoStatus, Recv, RInitFinish
<1>3. QED
  BY <1>1, <1>2 DEF Php, ProcessStep, ProcessEnd

\* What entered becomes.
LEMMA EnteredNext ==
    ASSUME HNext, NEW q \in Procs
    PROVE  /\ ~(level'[q] > level[q]) => entered'[q] = entered[q]
           /\ level'[q] > level[q] =>
                 entered'[q] = [entered[q] EXCEPT ![level'[q]] =
                    IF Puts(q, "FRAME_ENTRY") THEN srv[sock[q]] ELSE None]
BY DEF HNext

\* A frame that is opened and traced is announced to the tool at the other end.
LEMMA EntrySeen ==
    ASSUME IndInv, HistoryInv, HNext, NEW p \in Procs, Php(p),
           NEW match \in BOOLEAN, Enter(p, match)
    PROVE  SeenOK(p)' /\ \A q \in Procs \ {p} : level'[q] = level[q] /\ local'[q] = local[q]
<1> DEFINE n == level[p] + 1
<1>1. /\ pc[p] = "call" /\ level[p] \in Nat /\ n \in 1..MaxDepth
      /\ level' = [level EXCEPT ![p] = @ + 1] /\ level'[p] = n
  BY FrameFacts DEF Enter, IndInv, ExtInd, HookShape, ShapeOK
<1>2. local' = [local EXCEPT ![p][n] = filter_frame(p, match)]
  BY DEF Enter
<1>3. \A q \in Procs \ {p} : level'[q] = level[q] /\ local'[q] = local[q]
  BY <1>1, <1>2, FrameFacts
<1>4. Past' <=> Past
  BY DEF Php, toolVars, Past
<1>5. entered'[p] = [entered[p] EXCEPT ![n] =
                        IF Puts(p, "FRAME_ENTRY") THEN srv[sock[p]] ELSE None]
  <2>1. level'[p] > level[p] /\ level'[p] = n
    BY <1>1
  <2> HIDE DEF n
  <2>2. QED
    BY <2>1, EnteredNext, Zenon
<1>6. entered[p] \in [1..MaxDepth -> Tools \cup {None}]
  BY DEF HistoryInv
<1>7. ASSUME NEW l \in 1..level'[p], local'[p][l]
      PROVE  entered'[p][l] \in Tools \/ Past
  <2>1. CASE l = n
    <3>1. filter_frame(p, match)
      BY <1>1, <1>2, <1>7, <2>1, FrameFacts
    <3>2. sock[p] \in Conns
      BY <1>1, <3>1, SessionFacts DEF filter_frame, IndInv, ExtInd, FlagsNeedSocket, FlagsOK
    <3>3. CASE srv[sock[p]] = None
      BY <3>2, <3>3, SessionFacts DEF HistoryInv, ServedOK
    <3>4. CASE srv[sock[p]] # None
      <4>1. toTool' = Sent(sock[p], "FRAME_ENTRY")
        BY <3>1, <3>2, SessionFacts DEF Enter, SendReport
      <4>2. Puts(p, "FRAME_ENTRY")
        BY <3>2, <3>4, <4>1, SessionFacts DEF Puts, Sent
      <4>3. entered'[p][l] = srv[sock[p]]
        BY <1>1, <1>5, <1>6, <2>1, <4>2
      <4>4. QED
        BY <3>2, <3>4, <4>3, SessionFacts
    <3>5. QED
      BY <3>3, <3>4
  <2>2. CASE l # n
    <3>1. l \in 1..level[p] /\ l \in 1..MaxDepth
      <4>1. l \in 1..(level[p] + 1) /\ l # level[p] + 1
        BY <1>1, <1>7, <2>2
      <4>2. level[p] \in Nat /\ level[p] + 1 \in 1..MaxDepth /\ MaxDepth \in Nat
        BY <1>1, FrameFacts
      <4>3. QED
        BY <4>1, <4>2
    <3>2. local[p][l]
      BY <1>1, <1>2, <1>7, <2>2, <3>1, FrameFacts
    <3>3. entered'[p][l] = entered[p][l]
      BY <1>5, <1>6, <2>2, <3>1
    <3>4. QED
      BY <3>1, <3>2, <3>3 DEF HistoryInv, SeenOK
  <2>3. QED
    BY <2>1, <2>2
<1>8. QED
  BY <1>3, <1>4, <1>7 DEF SeenOK

\* A step of a process keeps the history right.
LEMMA PhpHistory ==
    ASSUME IndInv, HistoryInv, HNext, NEW p \in Procs, Php(p)
    PROVE  \A q \in Procs : ServedOK(q)' /\ SeenOK(q)'
<1>1. \A q \in Procs : ServedOK(q)'
  BY ProcessServed DEF HistoryInv
<1>2. Past' <=> Past
  BY DEF Php, toolVars, Past
<1>3. ASSUME NEW q \in Procs, level'[q] = level[q], local'[q] = local[q]
      PROVE  SeenOK(q)'
  <2>1. ~(level'[q] > level[q])
    BY <1>3, FrameFacts
  <2>2. entered'[q] = entered[q]
    BY <2>1, EnteredNext, Zenon
  <2>3. QED
    BY <1>2, <1>3, <2>2 DEF HistoryInv, SeenOK
<1>4. CASE \E match \in BOOLEAN : Enter(p, match)
  BY <1>1, <1>3, <1>4, EntrySeen
<1>5. CASE ExitFrame(p)
  <2>1. /\ level[p] \in 1..MaxDepth /\ level' = [level EXCEPT ![p] = @ - 1]
        /\ local' = [local EXCEPT ![p][level[p]] = FALSE]
    BY <1>5, FrameFacts DEF ExitFrame, IndInv, ExtInd, HookShape, ShapeOK
  <2>2. \A q \in Procs \ {p} : level'[q] = level[q] /\ local'[q] = local[q]
    BY <2>1, FrameFacts
  <2>3. level'[p] = level[p] - 1
    BY <2>1, FrameFacts
  <2>4. entered'[p] = entered[p]
    <3>1. ~(level'[p] > level[p])
      BY <2>1, <2>3
    <3>2. QED
      BY <3>1, EnteredNext, Zenon
  <2>5. \A l \in 1..level'[p] : l \in 1..level[p] /\ local'[p][l] = local[p][l]
    <3>1. level[p] \in Nat /\ level[p] \in 1..MaxDepth /\ MaxDepth \in Nat
      BY <2>1, FrameFacts
    <3>2. ASSUME NEW l \in 1..(level[p] - 1)
          PROVE  l \in 1..level[p] /\ l # level[p] /\ l \in 1..MaxDepth
      BY <3>1
    <3>3. ASSUME NEW l \in 1..(level[p] - 1) PROVE local'[p][l] = local[p][l]
      BY <2>1, <3>2, FrameFacts
    <3>4. QED
      BY <2>3, <3>2, <3>3
  <2>6. SeenOK(p)'
    BY <1>2, <2>4, <2>5 DEF HistoryInv, SeenOK
  <2>7. QED
    BY <1>1, <1>3, <2>2, <2>6
<1>6. CASE /\ level' = [level EXCEPT ![p] = 0]
           /\ \A q \in Procs \ {p} : local'[q] = local[q]
  <2>1. level'[p] = 0 /\ \A q \in Procs \ {p} : level'[q] = level[q]
    BY <1>6, FrameFacts
  <2>2. SeenOK(p)'
    BY <2>1 DEF SeenOK
  <2>3. QED
    BY <1>1, <1>3, <1>6, <2>1, <2>2
<1>7. CASE UNCHANGED <<level, local>>
  BY <1>1, <1>3, <1>7
<1>8. QED
  BY <1>4, <1>5, <1>6, <1>7, FrameSteps

\* The only tool closes a server end when its client is gone, or when it will
\* serve nobody any more.
LEMMA ToolServed ==
    ASSUME SoleTool, IndInv, NEW t \in Tools, PhpTool(t), \A q \in Procs : ServedOK(q)
    PROVE  /\ \A q \in Procs : ServedOK(q)'
           /\ Past => Past'
<1>1. sock' = sock
  BY DEF PhpTool, extVars
<1>2. CASE \/ ListenFailed(t) \/ Usage(t) \/ Close(t) \/ Deinit(t) \/ SwitchOff(t)
           \/ SigPipe(t) \/ KillTool(t)
  <2>1. tpc'[t] \in {"off", "close"} \cup EndPCs
    BY <1>2, RunFacts DEF ListenFailed, Usage, Close, Deinit, SwitchOff, SigPipe, KillTool,
       Ended, ToolGoto, EndPCs
  <2>2. Past'
    BY <2>1 DEF Past, SoleTool
  <2>3. QED
    BY <2>2 DEF ServedOK
<1>3. CASE \/ Start(t) \/ Listen(t) \/ SwitchOn(t) \/ Interrupt(t) \/ Accept(t)
           \/ SendFilter(t) \/ SendTrace(t) \/ Select(t) \/ StatusAccept(t) \/ StatusAsk(t)
           \/ StatusAnswer(t) \/ StatusTimeout(t)
           \/ \E c \in Conns : Display(t, c) \/ Drained(t, c) \/ Detach(t, c)
  <2>1. tpc[t] \in {"new", "bind", "on", "loop", "filter", "trace", "recv", "wait", "ask",
                    "answer"}
    BY <1>3 DEF Start, Listen, SwitchOn, Interrupt, Accept, SendFilter, SendTrace, Select,
       StatusAccept, StatusAsk, StatusAnswer, StatusTimeout, Display, Drained, Detach, Serving
  <2>2. ~Past
    BY <2>1 DEF Past, EndPCs
  <2>3. ASSUME NEW q \in Procs, sock[q] # None PROVE srv'[sock[q]] # None
    <3>1. sock[q] \in Conns /\ srv[sock[q]] # None /\ cli[sock[q]] # None
      BY <2>2, <2>3, SessionFacts DEF ServedOK, IndInv, ExtInd, FlagsNeedSocket, FlagsOK
    <3>2. CASE \E c \in Conns : Detach(t, c)
      <4>1. PICK c \in Conns : Detach(t, c)
        BY <3>2
      <4>2. cli[c] = None
        BY <4>1 DEF Detach, ClientGone, SoleTool
      <4>3. QED
        BY <3>1, <4>1, <4>2 DEF Detach, CloseServer
    <3>3. CASE ~\E c \in Conns : Detach(t, c)
      <4>1. srv' = srv
        BY <1>3, <3>3 DEF Start, Listen, SwitchOn, Interrupt, Accept, SendFilter, SendTrace,
           Select, StatusAccept, StatusAsk, StatusAnswer, StatusTimeout, Display, Drained,
           pt_comm_listen, pt_comm_accept, SendCommand, commVars
      <4>2. QED
        BY <3>1, <4>1
    <3>4. QED
      BY <3>2, <3>3
  <2>4. QED
    BY <1>1, <2>2, <2>3 DEF ServedOK
<1>4. QED
  BY <1>2, <1>3 DEF PhpTool, ToolStep, ToolUser

\* A step of the tool keeps the history right.
LEMMA ToolHistory ==
    ASSUME SoleTool, IndInv, HistoryInv, HNext, NEW t \in Tools, PhpTool(t)
    PROVE  \A q \in Procs : ServedOK(q)' /\ SeenOK(q)'
<1>1. /\ \A q \in Procs : ServedOK(q)'
      /\ Past => Past'
  BY ToolServed DEF HistoryInv
<1>2. level' = level /\ local' = local
  BY DEF PhpTool, extVars
<1>3. ASSUME NEW q \in Procs PROVE SeenOK(q)'
  <2>1. ~(level'[q] > level[q])
    BY <1>2, FrameFacts
  <2>2. entered'[q] = entered[q]
    BY <2>1, EnteredNext, Zenon
  <2>3. QED
    BY <1>1, <1>2, <2>2 DEF HistoryInv, SeenOK
<1>4. QED
  BY <1>1, <1>3

\* What is recorded is a tool or nobody.
LEMMA EnteredType ==
    ASSUME IndInv, HistoryInv, HNext, NEW q \in Procs
    PROVE  entered'[q] \in [1..MaxDepth -> Tools \cup {None}]
<1>1. entered[q] \in [1..MaxDepth -> Tools \cup {None}]
  BY DEF HistoryInv
<1>2. CASE ~(level'[q] > level[q])
  BY <1>1, <1>2, EnteredNext, Zenon
<1>3. CASE level'[q] > level[q]
  <2> DEFINE who == IF Puts(q, "FRAME_ENTRY") THEN srv[sock[q]] ELSE None
  <2>1. who \in Tools \cup {None}
    BY SessionFacts DEF Puts
  <2>2. entered'[q] = [entered[q] EXCEPT ![level'[q]] = who]
    BY <1>3, EnteredNext, Zenon
  <2> HIDE DEF who
  <2>3. QED
    BY <1>1, <2>1, <2>2
<1>4. QED
  BY <1>2, <1>3

\* The history is right in every behaviour with one tool.
LEMMA HistoryAlways == HSpec /\ SoleTool => [](SoleTool /\ IndInv /\ HistoryInv)
<1>1. HInit /\ SoleTool => SoleTool /\ IndInv /\ HistoryInv
  BY HistoryInit, IndInvInit DEF HInit
<1>2. SoleTool /\ IndInv /\ HistoryInv /\ [HNext]_hvars
        => (SoleTool /\ IndInv /\ HistoryInv)'
  <2>1. SUFFICES ASSUME SoleTool, IndInv, HistoryInv, [HNext]_hvars
                 PROVE  SoleTool' /\ IndInv' /\ HistoryInv'
    OBVIOUS
  <2>2. SoleTool'
    BY <2>1 DEF SoleTool
  <2>3. IndInv'
    <3>1. [Next]_vars
      BY <2>1 DEF HNext, hvars
    <3>2. QED
      BY <2>1, <3>1, IndInvNext
  <2>4. CASE HNext
    <3>1. \A q \in Procs : ServedOK(q)' /\ SeenOK(q)'
      <4>1. CASE \E p \in Procs : Php(p)
        BY <2>1, <2>4, <4>1, PhpHistory
      <4>2. CASE \E t \in Tools : PhpTool(t)
        BY <2>1, <2>4, <4>2, ToolHistory
      <4>3. QED
        BY <2>4, <4>1, <4>2 DEF HNext, Next
    <3>2. entered' \in [Procs -> [1..MaxDepth -> Tools \cup {None}]]
      <4>1. \A q \in Procs : entered'[q] \in [1..MaxDepth -> Tools \cup {None}]
        BY <2>1, <2>4, EnteredType
      <4>2. entered' = [q \in Procs |-> entered'[q]]
        BY <2>4 DEF HNext
      <4>3. QED
        BY <4>1, <4>2
    <3>3. QED
      BY <2>2, <2>3, <3>1, <3>2 DEF HistoryInv
  <2>5. CASE UNCHANGED hvars
    <3>1. UNCHANGED <<entered, sock, srv, tpc, level, local>>
      BY <2>5 DEF hvars, vars, commVars, extVars, toolVars
    <3>2. HistoryInv'
      BY <2>1, <3>1 DEF HistoryInv, ServedOK, SeenOK, Past
    <3>3. QED
      BY <2>2, <2>3, <3>2
  <2>6. QED
    BY <2>1, <2>4, <2>5
<1>3. QED
  BY <1>1, <1>2, PTL DEF HSpec

\* With one tool, the exit of a frame is sent to it only if it was sent the
\* entry, wherever it attaches, leaves or dies while frames are open, at any
\* depth.
THEOREM ExitsFollowEntries == HSpec /\ SoleTool => ExitMatchesEntry
<1>1. SoleTool /\ IndInv /\ HistoryInv /\ [HNext]_hvars
        => [\A p \in Procs :
               /\ level'[p] < level[p]
               /\ Puts(p, "FRAME_EXIT")
               /\ acc[sock[p]]
               => entered[p][level[p]] = srv[sock[p]]]_hvars
  <2>1. SUFFICES ASSUME SoleTool, IndInv, HistoryInv, HNext, NEW p \in Procs,
                        level'[p] < level[p], Puts(p, "FRAME_EXIT"), acc[sock[p]]
                 PROVE  entered[p][level[p]] = srv[sock[p]]
    BY DEF HNext
  <2>2. /\ sock[p] \in Conns /\ toTool[sock[p]] \in Seq(Reports)
        /\ toTool'[sock[p]] # toTool[sock[p]]
    <3>1. sock[p] \in Conns /\ toTool'[sock[p]] = Append(toTool[sock[p]], "FRAME_EXIT")
      BY <2>1, SessionFacts DEF Puts
    <3>2. toTool[sock[p]] \in Seq(Reports) /\ "FRAME_EXIT" \in Reports
      BY <2>1, <3>1, SessionFacts DEF Reports
    <3>3. Len(toTool'[sock[p]]) = Len(toTool[sock[p]]) + 1 /\ Len(toTool[sock[p]]) \in Nat
      BY <3>1, <3>2, OneMore
    <3>4. QED
      BY <3>1, <3>2, <3>3
  <2>3. level'[p] # level[p] /\ level[p] \in 0..MaxDepth
    BY <2>1, FrameFacts
  <2>4. ExitFrame(p)
    <3>1. CASE \E t \in Tools : PhpTool(t)
      BY <2>3, <3>1 DEF PhpTool, extVars
    <3>2. ASSUME NEW q \in Procs, Php(q) PROVE ExitFrame(p)
      <4>1. CASE \E match \in BOOLEAN : Enter(q, match)
        <5>1. level' = [level EXCEPT ![q] = @ + 1]
          BY <4>1 DEF Enter
        <5>2. level'[p] = level[p] \/ level'[p] = level[p] + 1
          BY <2>1, <5>1, FrameFacts
        <5>3. QED
          BY <2>1, <2>3, <5>2
      <4>2. CASE ExitFrame(q)
        <5>1. level' = [level EXCEPT ![q] = @ - 1]
          BY <4>2 DEF ExitFrame
        <5>2. q = p
          BY <2>1, <2>3, <5>1, FrameFacts
        <5>3. QED
          BY <4>2, <5>2
      <4>3. QED
        BY <2>1, <2>2, <2>3, <3>2, <4>1, <4>2, FrameSteps
    <3>3. QED
      BY <2>1, <3>1, <3>2 DEF HNext, Next
  <2>5. local[p][level[p]] /\ level[p] \in 1..level[p]
    <3>1. local[p][level[p]]
      BY <2>2, <2>4 DEF ExitFrame, commVars
    <3>2. level[p] > 0
      BY <2>1, <2>4 DEF ExitFrame, IndInv, ExtInd, HookShape, ShapeOK
    <3>3. QED
      BY <2>3, <3>1, <3>2
  <2>6. srv[sock[p]] \in Tools /\ tpc[srv[sock[p]]] \in ServePCs
    BY <2>1, <2>2, SessionFacts DEF IndInv, ToolInd, NoOrphanConnection, ConnOK
  <2>7. ~Past
    BY <2>6 DEF Past, EndPCs, ServePCs, OnPCs
  <2>8. entered[p][level[p]] \in Tools
    BY <2>1, <2>5, <2>7 DEF HistoryInv, SeenOK
  <2>9. QED
    BY <2>1, <2>6, <2>8 DEF SoleTool
<1>2. QED
  BY <1>1, HistoryAlways, PTL DEF HSpec, ExitMatchesEntry
=============================================================================
