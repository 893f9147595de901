----------------------------- MODULE ToolProofs -----------------------------
(***************************************************************************)
(* Every step of a run of the tool keeps the types, ToolShape,             *)
(* NoOrphanConnection and SwitchHasOwner (ToolInd).                        *)
(***************************************************************************)
EXTENDS Tool, ExtensionProofs

ToolPCs == ListenPCs \cup EndPCs \cup {"new", "bind"}

ToolInd ==
    /\ CtrlTypeOK /\ CommTypeOK /\ ToolTypeOK
    /\ ToolShape /\ NoOrphanConnection /\ SwitchHasOwner

\* The pcs at which a tool answers for a control byte that is on.
OwnPCs == OnPCs \cup {"killed", "sigpipe"}

\* Tool t goes to l; the other tools stay as they are, and t at l is in order.
Moves(t, l) ==
    /\ tpc' = [tpc EXCEPT ![t] = l]
    /\ \A u \in Tools \ {t} : /\ cur'[u] = cur[u] /\ quota'[u] = quota[u]
                              /\ clictx'[u] = clictx[u]
                              /\ u \in listening' <=> u \in listening
    /\ clictx'[t].filter = clictx[t].filter
    /\ clictx'[t].target = clictx[t].target
    /\ t \in listening' <=> l \in ListenPCs
    /\ l = "recv" => quota'[t] > 0
    /\ l \in {"filter", "trace", "ask", "answer"} => cur'[t] # None
    /\ l = "filter" => clictx[t].filter # "EMPTY"

\* The step of t to l opens no server end, and of those of t it keeps only the
\* ones that fit l.
Keeps(t, l) ==
    \A c \in Conns :
        /\ srv'[c] \in {srv[c], None}
        /\ acc'[c] => srv'[c] # None
        /\ srv'[c] = t => l \in ListenPCs /\ (acc'[c] => l \in ServePCs)
        /\ srv'[c] # t /\ acc'[c] => acc[c]

\* Such a step keeps the shape of the tools and of the connections.
LEMMA OneTool ==
    ASSUME ToolInd, ToolTypeOK', NEW t \in Tools, NEW l \in ToolPCs,
           Moves(t, l), Keeps(t, l)
    PROVE  ToolShape' /\ NoOrphanConnection'
<1>1. tpc'[t] = l /\ \A u \in Tools \ {t} : tpc'[u] = tpc[u]
  BY DEF ToolInd, ToolTypeOK, Moves
<1>2. ToolOK(t)'
  BY <1>1 DEF ToolOK, Moves
<1>3. ASSUME NEW u \in Tools \ {t} PROVE ToolOK(u)'
  <2>1. ToolOK(u)
    BY DEF ToolInd, ToolShape
  <2>2. QED
    BY <1>1, <2>1 DEF ToolOK, Moves
<1>4. ToolShape'
  BY <1>2, <1>3 DEF ToolShape, Keeps
<1>5. ASSUME NEW c \in Conns PROVE ConnOK(c)'
  <2>1. SUFFICES ASSUME srv'[c] # None
                 PROVE  /\ srv'[c] \in listening'
                        /\ tpc'[srv'[c]] \in ListenPCs
                        /\ acc'[c] => tpc'[srv'[c]] \in ServePCs
    BY DEF ConnOK
  <2>2. srv'[c] = srv[c] /\ srv[c] \in Tools /\ ConnOK(c)
    BY <2>1 DEF Keeps, ToolInd, CommTypeOK, NoOrphanConnection
  <2>3. CASE srv'[c] = t
    BY <1>1, <2>3 DEF Keeps, Moves
  <2>4. CASE srv'[c] # t
    BY <1>1, <2>1, <2>2, <2>4 DEF Keeps, Moves, ConnOK
  <2>5. QED
    BY <2>3, <2>4
<1>6. QED
  BY <1>4, <1>5 DEF NoOrphanConnection

\* A step that leaves the control bytes alone, or only switches some off, and
\* does not take t from its duty, keeps SwitchHasOwner.
LEMMA OwnerKept ==
    ASSUME ToolInd, NEW t \in Tools, NEW l \in ToolPCs, Moves(t, l),
           \A p \in Procs : ctrl'[p] => ctrl[p],
           tpc[t] \in OwnPCs =>
              l \in OwnPCs \/ \A p \in clictx[t].target : p \in Procs => ~ctrl'[p]
    PROVE  SwitchHasOwner'
<1>1. tpc'[t] = l /\ \A u \in Tools \ {t} : tpc'[u] = tpc[u]
  BY DEF ToolInd, ToolTypeOK, Moves
<1>2. SUFFICES ASSUME NEW p \in Procs, ctrl'[p]
               PROVE  \E u \in Tools : p \in clictx'[u].target /\ tpc'[u] \in OwnPCs
  BY DEF SwitchHasOwner, OwnPCs
<1>3. PICK u \in Tools : p \in clictx[u].target /\ tpc[u] \in OwnPCs
  BY <1>2 DEF ToolInd, SwitchHasOwner, OwnPCs
<1>4. clictx'[u].target = clictx[u].target
  BY DEF Moves
<1>5. tpc'[u] \in OwnPCs
  BY <1>1, <1>2, <1>3
<1>6. QED
  BY <1>3, <1>4, <1>5

\* The types of the tool's variables, and what is known of t.
LEMMA ToolFacts ==
    ASSUME ToolInd, NEW t \in Tools
    PROVE  /\ tpc \in [Tools -> ToolPCs] /\ tpc[t] \in ToolPCs
           /\ clictx \in [Tools -> Invocation] /\ clictx[t] \in Invocation
           /\ cur \in [Tools -> Conns \cup {None}]
           /\ cur[t] \in Conns \cup {None}
           /\ ready \in [Tools -> SUBSET Conns]
           /\ quota \in [Tools -> 0..Times] /\ quota[t] \in 0..Times
           /\ ToolOK(t)
           /\ srv \in [Conns -> Tools \cup {None}]
           /\ acc \in [Conns -> BOOLEAN]
           /\ \A c \in Conns : ConnOK(c) /\ (acc[c] => srv[c] # None)
BY DEF ToolInd, ToolTypeOK, CommTypeOK, ToolShape, NoOrphanConnection, ToolPCs

\* A step of t that leaves server ends and listeners alone and stays on the
\* same side of serving.
LEMMA SameConns ==
    ASSUME ToolInd, NEW t \in Tools, NEW l \in ToolPCs,
           srv' = srv, acc' = acc,
           tpc[t] \in ListenPCs => l \in ListenPCs,
           tpc[t] \in ServePCs => l \in ServePCs
    PROVE  Keeps(t, l)
<1>1. t # None
  BY CommAssumption
<1>2. \A c \in Conns : srv[c] = t => tpc[t] \in ListenPCs /\ (acc[c] => tpc[t] \in ServePCs)
  BY <1>1, ToolFacts DEF ConnOK
<1>3. QED
  BY <1>2, ToolFacts DEF Keeps

\* The round of trace_ext goes on to the next descriptor, or back to the top.
LEMMA NextClientType ==
    ASSUME ToolInd, NEW t \in Tools, NEW c \in Conns, NextClient(t, c)
    PROVE  /\ ready' \in [Tools -> SUBSET Conns]
           /\ quota' \in [Tools -> 0..Times]
           /\ \A u \in Tools \ {t} : quota'[u] = quota[u]
           /\ tpc[t] = "recv" =>
                 \E l \in {"loop", "recv"} :
                    /\ tpc' = [tpc EXCEPT ![t] = l]
                    /\ l = "recv" => quota'[t] > 0
<1>1. ready[t] \ {c} \in SUBSET Conns
  BY ToolFacts
<1>2. ready' \in [Tools -> SUBSET Conns]
  BY <1>1, ToolFacts DEF NextClient
<1>3. tpc = [tpc EXCEPT ![t] = tpc[t]]
  BY ToolFacts
<1>4. CASE ready[t] = {c}
  BY <1>2, <1>4, ToolFacts, ToolAssumption DEF NextClient, ToolGoto
<1>5. CASE ready[t] # {c}
  <2>1. quota' = [quota EXCEPT ![t] = Times] /\ tpc' = tpc
    BY <1>5 DEF NextClient
  <2>2. quota' \in [Tools -> 0..Times] /\ quota'[t] > 0
    BY <2>1, ToolFacts, ToolAssumption
  <2>3. QED
    BY <1>2, <1>3, <2>1, <2>2, ToolFacts
<1>6. QED
  BY <1>4, <1>5

-----------------------------------------------------------------------------
(* main *)

\* main up to the unlink().
LEMMA StartInd == ASSUME ToolInd, NEW t \in Tools, Start(t) PROVE ToolInd'
<1>1. /\ tpc[t] = "new" /\ tpc' = [tpc EXCEPT ![t] = "bind"] /\ path' = None
      /\ ctrl' = ctrl /\ listening' = listening /\ cli' = cli /\ srv' = srv
      /\ acc' = acc /\ toPhp' = toPhp /\ toTool' = toTool
      /\ clictx' = clictx /\ cur' = cur /\ ready' = ready /\ quota' = quota
  BY DEF Start, unlink, ToolGoto
<1>2. "bind" \in ToolPCs
  BY DEF ToolPCs
<1>3. CtrlTypeOK' /\ CommTypeOK' /\ ToolTypeOK'
  BY <1>1 DEF ToolInd, CtrlTypeOK, CommTypeOK, ToolTypeOK
<1>4. Moves(t, "bind")
  BY <1>1, ToolFacts DEF Moves, ToolOK, ListenPCs, OnPCs
<1>5. Keeps(t, "bind")
  BY <1>1, <1>2, SameConns DEF ListenPCs, OnPCs, ServePCs
<1>6. SwitchHasOwner'
  BY <1>1, <1>2, <1>4, OwnerKept DEF OwnPCs, OnPCs
<1>7. QED
  BY <1>2, <1>3, <1>4, <1>5, <1>6, OneTool DEF ToolInd

\* The rest of pt_comm_listen: a run that listens owns nothing yet.
LEMMA ListenInd == ASSUME ToolInd, NEW t \in Tools, Listen(t) PROVE ToolInd'
<1>1. PICK l \in {"on", "close", "usage"} : tpc' = [tpc EXCEPT ![t] = l]
  BY DEF Listen, ToolGoto
<1>2. /\ tpc[t] = "bind" /\ pt_comm_listen(t) /\ ctrl' = ctrl
      /\ clictx' = clictx /\ cur' = cur /\ ready' = ready /\ quota' = quota
  BY DEF Listen
<1>3. l \in ToolPCs /\ l \in ListenPCs
  BY DEF ToolPCs, ListenPCs
<1>4. CommTypeOK'
  BY <1>2, ListenType DEF ToolInd
<1>5. CtrlTypeOK' /\ ToolTypeOK'
  BY <1>1, <1>2 DEF ToolInd, CtrlTypeOK, ToolTypeOK, ListenPCs
<1>6. Moves(t, l)
  BY <1>1, <1>2, <1>3, ToolFacts DEF Moves, pt_comm_listen
<1>7. Keeps(t, l)
  <2>1. srv' = srv /\ acc' = acc
    BY <1>2 DEF pt_comm_listen
  <2>2. tpc[t] \notin ListenPCs /\ tpc[t] \notin ServePCs
    BY <1>2 DEF ListenPCs, OnPCs, ServePCs
  <2>3. QED
    BY <1>3, <2>1, <2>2, SameConns
<1>8. SwitchHasOwner'
  BY <1>2, <1>3, <1>6, OwnerKept DEF OwnPCs, OnPCs
<1>9. QED
  BY <1>3, <1>4, <1>5, <1>6, <1>7, <1>8, OneTool DEF ToolInd

\* Steps that leave the channel alone: giving up the bind, a signal, select(),
\* a drained descriptor, a timeout.
LEMMA QuietInd ==
    ASSUME ToolInd, NEW t \in Tools,
           \/ ListenFailed(t) \/ Interrupt(t) \/ Select(t) \/ StatusTimeout(t)
           \/ \E c \in Conns : Drained(t, c)
    PROVE  ToolInd'
<1>1. /\ ctrl' = ctrl /\ commVars' = commVars /\ clictx' = clictx /\ cur' = cur
  BY DEF ListenFailed, Interrupt, Select, StatusTimeout, Drained
<1>2. /\ CtrlTypeOK' /\ CommTypeOK' /\ listening' = listening
      /\ srv' = srv /\ acc' = acc
  BY <1>1 DEF ToolInd, CtrlTypeOK, CommTypeOK, commVars
<1>3. PICK l \in ToolPCs :
        /\ tpc' = [tpc EXCEPT ![t] = l]
        /\ tpc[t] \in ListenPCs <=> l \in ListenPCs
        /\ tpc[t] \in ServePCs => l \in ServePCs
        /\ tpc[t] \in OwnPCs => l \in OwnPCs
        /\ l \notin {"filter", "trace", "ask", "answer"}
        /\ l = "recv" => quota'[t] > 0
  <2>1. CASE ListenFailed(t)
    BY <2>1 DEF ListenFailed, ToolGoto, ToolPCs, ListenPCs, ServePCs, OwnPCs,
                OnPCs, EndPCs
  <2>2. CASE Interrupt(t)
    <3>1. tpc[t] = "loop" /\ tpc' = [tpc EXCEPT ![t] = "deinit"]
      BY <2>2 DEF Interrupt, ToolGoto
    <3>2. /\ "deinit" \in ToolPCs /\ "deinit" \in ListenPCs
          /\ "deinit" \in ServePCs /\ "deinit" \in OwnPCs
          /\ "loop" \in ListenPCs /\ "deinit" # "recv"
          /\ "deinit" \notin {"filter", "trace", "ask", "answer"}
      BY DEF ToolPCs, ListenPCs, ServePCs, OwnPCs, OnPCs
    <3>3. QED
      BY <3>1, <3>2
  <2>3. CASE Select(t)
    <3>1. quota'[t] > 0
      BY <2>3, ToolFacts, ToolAssumption DEF Select
    <3>2. tpc[t] = "loop" /\ tpc' = [tpc EXCEPT ![t] = "recv"]
      BY <2>3 DEF Select, ToolGoto
    <3>3. /\ "recv" \in ToolPCs /\ "recv" \in ListenPCs /\ "recv" \in ServePCs
          /\ "recv" \in OwnPCs /\ "loop" \in ListenPCs
          /\ "recv" \notin {"filter", "trace", "ask", "answer"}
      BY DEF ToolPCs, ListenPCs, ServePCs, OwnPCs, OnPCs
    <3>4. QED
      BY <3>1, <3>2, <3>3
  <2>4. CASE StatusTimeout(t)
    <3>1. tpc[t] \in {"wait", "answer"} /\ tpc' = [tpc EXCEPT ![t] = "deinit"]
      BY <2>4 DEF StatusTimeout, ToolGoto
    <3>2. /\ "deinit" \in ToolPCs /\ "deinit" \in ListenPCs
          /\ "deinit" \in ServePCs /\ "deinit" \in OwnPCs
          /\ {"wait", "answer"} \subseteq ListenPCs
          /\ "deinit" \notin {"filter", "trace", "ask", "answer"}
          /\ "deinit" # "recv"
      BY DEF ToolPCs, ListenPCs, ServePCs, OwnPCs, OnPCs
    <3>3. QED
      BY <3>1, <3>2
  <2>5. ASSUME NEW c \in Conns, Drained(t, c)
        PROVE  \E l \in {"loop", "recv"} :
                  /\ tpc[t] = "recv"
                  /\ tpc' = [tpc EXCEPT ![t] = l]
                  /\ l = "recv" => quota'[t] > 0
    <3>1. tpc[t] = "recv" /\ NextClient(t, c)
      BY <2>5 DEF Drained, Serving
    <3>2. QED
      BY <3>1, NextClientType
  <2>6. CASE \E c \in Conns : Drained(t, c)
    BY <2>5, <2>6 DEF ToolPCs, ListenPCs, ServePCs, OwnPCs, OnPCs
  <2>7. QED
    BY <2>1, <2>2, <2>3, <2>4, <2>6
<1>4. /\ ready' \in [Tools -> SUBSET Conns] /\ quota' \in [Tools -> 0..Times]
      /\ \A u \in Tools \ {t} : quota'[u] = quota[u]
  <2>1. CASE ListenFailed(t) \/ Interrupt(t) \/ StatusTimeout(t)
    BY <2>1, ToolFacts DEF ListenFailed, Interrupt, StatusTimeout
  <2>2. CASE Select(t)
    <3>1. {c \in Accepted(t) : Readable(c)} \in SUBSET Conns
      BY DEF Accepted
    <3>2. QED
      BY <2>2, <3>1, ToolFacts, ToolAssumption DEF Select
  <2>3. ASSUME NEW c \in Conns, NextClient(t, c)
        PROVE  /\ ready' \in [Tools -> SUBSET Conns]
               /\ quota' \in [Tools -> 0..Times]
               /\ \A u \in Tools \ {t} : quota'[u] = quota[u]
    BY <2>3, NextClientType
  <2>4. QED
    BY <2>1, <2>2, <2>3 DEF Drained
<1>5. ToolTypeOK'
  BY <1>1, <1>3, <1>4 DEF ToolInd, ToolTypeOK, ToolPCs
<1>6. Moves(t, l)
  BY <1>1, <1>2, <1>3, <1>4, ToolFacts DEF Moves, ToolOK
<1>7. Keeps(t, l)
  BY <1>2, <1>3, SameConns
<1>8. SwitchHasOwner'
  BY <1>1, <1>3, <1>6, OwnerKept
<1>9. QED
  BY <1>2, <1>5, <1>6, <1>7, <1>8, OneTool DEF ToolInd

\* The switch on makes t the owner of every byte it sets.
LEMMA SwitchOnInd == ASSUME ToolInd, NEW t \in Tools, SwitchOn(t) PROVE ToolInd'
<1>1. PICK l \in {"loop", "wait"} : tpc' = [tpc EXCEPT ![t] = l]
  BY DEF SwitchOn, ToolGoto
<1>2. /\ tpc[t] = "on" /\ pt_ctrl_set_active(clictx[t].target)
      /\ commVars' = commVars /\ clictx' = clictx /\ cur' = cur
      /\ ready' = ready /\ quota' = quota
  BY DEF SwitchOn
<1>3. l \in ToolPCs /\ l \in ListenPCs /\ l \in OwnPCs
  BY DEF ToolPCs, ListenPCs, OwnPCs, OnPCs
<1>4. CommTypeOK' /\ listening' = listening /\ srv' = srv /\ acc' = acc
  BY <1>2 DEF ToolInd, CommTypeOK, commVars
<1>5. CtrlTypeOK' /\ ToolTypeOK'
  <2>1. CtrlTypeOK'
    BY <1>2 DEF CtrlTypeOK, pt_ctrl_set_active, ToolInd
  <2>2. QED
    BY <1>1, <1>2, <1>3, <2>1 DEF ToolInd, ToolTypeOK
<1>6. Moves(t, l)
  BY <1>1, <1>2, <1>3, <1>4, ToolFacts DEF Moves, ToolOK, ListenPCs
<1>7. Keeps(t, l)
  <2>1. tpc[t] \notin ServePCs
    BY <1>2 DEF ServePCs, OnPCs
  <2>2. QED
    BY <1>3, <1>4, <2>1, SameConns
<1>8. SwitchHasOwner'
  <2>1. SUFFICES ASSUME NEW p \in Procs, ctrl'[p]
                 PROVE  \E u \in Tools : p \in clictx'[u].target /\ tpc'[u] \in OwnPCs
    BY DEF SwitchHasOwner, OwnPCs
  <2>2. CASE p \in clictx[t].target
    BY <1>1, <1>2, <1>3, <2>2, ToolFacts
  <2>3. CASE p \notin clictx[t].target
    <3>1. ctrl[p]
      BY <1>2, <2>1, <2>3 DEF pt_ctrl_set_active
    <3>2. PICK u \in Tools : p \in clictx[u].target /\ tpc[u] \in OwnPCs
      BY <3>1 DEF ToolInd, SwitchHasOwner, OwnPCs
    <3>3. QED
      BY <1>1, <1>2, <1>3, <3>2, ToolFacts
  <2>4. QED
    BY <2>2, <2>3
<1>9. QED
  BY <1>3, <1>4, <1>5, <1>6, <1>7, <1>8, OneTool DEF ToolInd

\* The switch off clears every byte that t answers for.
LEMMA SwitchOffInd == ASSUME ToolInd, NEW t \in Tools, SwitchOff(t) PROVE ToolInd'
<1>1. /\ tpc[t] = "off" /\ pt_ctrl_set_inactive(clictx[t].target)
      /\ tpc' = [tpc EXCEPT ![t] = "close"]
      /\ commVars' = commVars /\ clictx' = clictx /\ cur' = cur
      /\ ready' = ready /\ quota' = quota
  BY DEF SwitchOff, ToolGoto
<1>2. "close" \in ToolPCs /\ "close" \in ListenPCs
  BY DEF ToolPCs, ListenPCs
<1>3. CommTypeOK' /\ listening' = listening /\ srv' = srv /\ acc' = acc
  BY <1>1 DEF ToolInd, CommTypeOK, commVars
<1>4. CtrlTypeOK' /\ ToolTypeOK'
  <2>1. CtrlTypeOK'
    BY <1>1 DEF CtrlTypeOK, pt_ctrl_set_inactive, ToolInd
  <2>2. QED
    BY <1>1, <1>2, <2>1 DEF ToolInd, ToolTypeOK
<1>5. Moves(t, "close")
  <2>1. "off" \in ListenPCs
    BY DEF ListenPCs, OnPCs
  <2>2. QED
    BY <1>1, <1>2, <1>3, <2>1, ToolFacts DEF Moves, ToolOK
<1>6. Keeps(t, "close")
  <2>1. tpc[t] \notin ServePCs
    BY <1>1 DEF ServePCs, OnPCs
  <2>2. QED
    BY <1>2, <1>3, <2>1, SameConns
<1>7. SwitchHasOwner'
  <2>1. /\ \A p \in Procs : ctrl'[p] => ctrl[p]
        /\ \A p \in Procs : p \in clictx[t].target => ~ctrl'[p]
    BY <1>1 DEF pt_ctrl_set_inactive
  <2>2. QED
    BY <1>2, <1>5, <2>1, OwnerKept
<1>8. QED
  BY <1>2, <1>3, <1>4, <1>5, <1>6, <1>7, OneTool DEF ToolInd

\* The end of a run, by exit(), by a signal or by SIGPIPE: everything it held
\* is closed.  Only a run that answers for no byte ends by exit().
LEMMA EndedInd ==
    ASSUME ToolInd, NEW t \in Tools, NEW l \in EndPCs, Ended(t, l),
           path' \in {path, None}, ctrl' = ctrl,
           tpc[t] \in OwnPCs => l \in OwnPCs
    PROVE  ToolInd'
<1>1. /\ tpc' = [tpc EXCEPT ![t] = l] /\ ExitServer(t) /\ clictx' = clictx
      /\ cur' = [cur EXCEPT ![t] = None]
      /\ ready' = [ready EXCEPT ![t] = {}]
      /\ quota' = [quota EXCEPT ![t] = 0]
  BY DEF Ended, ToolGoto
<1>2. /\ l \in ToolPCs /\ l \notin ListenPCs /\ l # "recv"
      /\ l \notin {"filter", "trace", "ask", "answer"}
  BY DEF ToolPCs, ListenPCs, OnPCs, EndPCs
<1>3. CommTypeOK'
  <2>1. path' \in Tools \cup {None}
    BY DEF ToolInd, CommTypeOK
  <2>2. QED
    BY <1>1, <2>1, ExitServerType DEF ToolInd
<1>4. CtrlTypeOK' /\ ToolTypeOK'
  BY <1>1, <1>2, ToolAssumption DEF ToolInd, CtrlTypeOK, ToolTypeOK, ToolPCs
<1>5. Moves(t, l)
  BY <1>1, <1>2, ToolFacts DEF Moves, ExitServer
<1>6. Keeps(t, l)
  <2>1. t # None
    BY CommAssumption
  <2>2. \A c \in Conns : /\ srv'[c] = IF srv[c] = t THEN None ELSE srv[c]
                         /\ acc'[c] => srv[c] # t /\ acc[c]
    BY <1>1 DEF ExitServer, CloseServer
  <2>3. QED
    BY <1>2, <2>1, <2>2, ToolFacts DEF Keeps
<1>7. SwitchHasOwner'
  BY <1>2, <1>5, OwnerKept
<1>8. QED
  BY <1>2, <1>3, <1>4, <1>5, <1>6, <1>7, OneTool DEF ToolInd

\* usage(), the end of main, SIGPIPE and a kill.
LEMMA ToolEndInd ==
    ASSUME ToolInd, NEW t \in Tools,
           Usage(t) \/ Close(t) \/ SigPipe(t) \/ KillTool(t)
    PROVE  ToolInd'
<1>1. "done" \in EndPCs /\ "sigpipe" \in EndPCs /\ "killed" \in EndPCs
  BY DEF EndPCs
<1>2. CASE Usage(t)
  BY <1>1, <1>2, EndedInd DEF Usage, OwnPCs, OnPCs
<1>3. CASE Close(t)
  BY <1>1, <1>3, EndedInd DEF Close, unlink, OwnPCs, OnPCs
<1>4. CASE SigPipe(t)
  BY <1>1, <1>4, EndedInd DEF SigPipe, OwnPCs
<1>5. CASE KillTool(t)
  BY <1>1, <1>5, EndedInd DEF KillTool, OwnPCs
<1>6. QED
  BY <1>2, <1>3, <1>4, <1>5

\* deinit closes what was accepted, so that "off" holds nothing accepted.
LEMMA DeinitInd == ASSUME ToolInd, NEW t \in Tools, Deinit(t) PROVE ToolInd'
<1>1. /\ tpc[t] = "deinit" /\ tpc' = [tpc EXCEPT ![t] = "off"]
      /\ CloseServer(Accepted(t)) /\ clictx' = clictx /\ ctrl' = ctrl
      /\ path' = path /\ listening' = listening /\ cli' = cli /\ toPhp' = toPhp
      /\ cur' = [cur EXCEPT ![t] = None]
      /\ ready' = [ready EXCEPT ![t] = {}]
      /\ quota' = [quota EXCEPT ![t] = 0]
  BY DEF Deinit, ToolGoto
<1>2. /\ "off" \in ToolPCs /\ "off" \in ListenPCs /\ "off" \in OwnPCs
      /\ "deinit" \in ListenPCs
  BY DEF ToolPCs, ListenPCs, OwnPCs, OnPCs
<1>3. CommTypeOK'
  <2>1. /\ srv' \in [Conns -> Tools \cup {None}] /\ acc' \in [Conns -> BOOLEAN]
        /\ toTool' \in [Conns -> Seq(Reports)]
    BY <1>1, CloseServerType DEF ToolInd
  <2>2. QED
    BY <1>1, <2>1 DEF ToolInd, CommTypeOK
<1>4. CtrlTypeOK' /\ ToolTypeOK'
  BY <1>1, <1>2, ToolAssumption DEF ToolInd, CtrlTypeOK, ToolTypeOK
<1>5. Moves(t, "off")
  BY <1>1, <1>2, ToolFacts DEF Moves, ToolOK
<1>6. Keeps(t, "off")
  <2>1. \A c \in Conns :
          /\ srv'[c] = IF srv[c] = t /\ acc[c] THEN None ELSE srv[c]
          /\ acc'[c] => acc[c] /\ srv[c] # t
    BY <1>1 DEF CloseServer, Accepted
  <2>2. t # None
    BY CommAssumption
  <2>3. QED
    BY <1>2, <2>1, <2>2, ToolFacts DEF Keeps
<1>7. SwitchHasOwner'
  BY <1>1, <1>2, <1>5, OwnerKept
<1>8. QED
  BY <1>2, <1>3, <1>4, <1>5, <1>6, <1>7, OneTool DEF ToolInd

-----------------------------------------------------------------------------
(* trace_ext and status_ext *)

\* Accepting a client: the tool is about to serve it.
LEMMA AcceptInd ==
    ASSUME ToolInd, NEW t \in Tools, Accept(t) \/ StatusAccept(t) PROVE ToolInd'
<1>1. PICK c \in Conns : pt_comm_accept(t, c) /\ cur' = [cur EXCEPT ![t] = c]
  BY DEF Accept, StatusAccept
<1>2. PICK l \in {"filter", "trace", "ask"} :
        /\ tpc' = [tpc EXCEPT ![t] = l]
        /\ l = "filter" => clictx[t].filter # "EMPTY"
  BY DEF Accept, StatusAccept, ToolGoto
<1>3. /\ tpc[t] \in {"loop", "wait"} /\ ctrl' = ctrl /\ clictx' = clictx
      /\ ready' = ready /\ quota' = quota
  BY DEF Accept, StatusAccept
<1>4. /\ l \in ToolPCs /\ l \in ListenPCs /\ l \in ServePCs /\ l \in OwnPCs
      /\ tpc[t] \in ListenPCs
  BY <1>3 DEF ToolPCs, ListenPCs, ServePCs, OwnPCs, OnPCs
<1>5. CommTypeOK' /\ listening' = listening /\ srv' = srv
  BY <1>1, AcceptType DEF ToolInd, pt_comm_accept
<1>6. CtrlTypeOK' /\ ToolTypeOK'
  BY <1>1, <1>2, <1>3, <1>4 DEF ToolInd, CtrlTypeOK, ToolTypeOK
<1>7. Moves(t, l)
  <2>1. c # None /\ cur'[t] = c
    BY <1>1, ToolFacts, CommAssumption DEF Conns
  <2>2. QED
    BY <1>1, <1>2, <1>3, <1>4, <1>5, <2>1, ToolFacts DEF Moves, ToolOK
<1>8. Keeps(t, l)
  <2>1. srv[c] = t /\ t # None
    BY <1>1, CommAssumption DEF pt_comm_accept, Pending
  <2>2. \A d \in Conns : d # c => acc'[d] = acc[d]
    BY <1>1, ToolFacts DEF pt_comm_accept
  <2>3. QED
    BY <1>4, <1>5, <2>1, <2>2, ToolFacts DEF Keeps
<1>9. SwitchHasOwner'
  BY <1>3, <1>4, <1>7, OwnerKept
<1>10. QED
  BY <1>4, <1>5, <1>6, <1>7, <1>8, <1>9, OneTool DEF ToolInd

\* Sending a command.
LEMMA SendInd ==
    ASSUME ToolInd, NEW t \in Tools, SendFilter(t) \/ SendTrace(t) \/ StatusAsk(t)
    PROVE  ToolInd'
<1>1. /\ tpc[t] \in {"filter", "trace", "ask"} /\ ctrl' = ctrl
      /\ clictx' = clictx /\ ready' = ready /\ quota' = quota
  BY DEF SendFilter, SendTrace, StatusAsk
<1>2. cur[t] \in Conns
  BY <1>1, ToolFacts DEF ToolOK
<1>3. PICK m \in Commands : SendCommand(cur[t], m)
  <2>1. CASE SendFilter(t)
    <3>1. clictx[t].filter \in FilterTypes /\ clictx[t].filter # "EMPTY"
      BY <2>1, ToolFacts DEF SendFilter, ToolOK, Invocation
    <3>2. QED
      BY <2>1, <3>1 DEF SendFilter, Commands
  <2>2. CASE SendTrace(t)
    BY <2>2 DEF SendTrace, Commands
  <2>3. CASE StatusAsk(t)
    BY <2>3 DEF StatusAsk, Commands
  <2>4. QED
    BY <2>1, <2>2, <2>3
<1>4. /\ CommTypeOK' /\ listening' = listening /\ srv' = srv /\ acc' = acc
  BY <1>2, <1>3, SendCommandType DEF ToolInd, SendCommand
<1>5. PICK l \in {"trace", "loop", "answer"}, d \in Conns \cup {None} :
        /\ tpc' = [tpc EXCEPT ![t] = l]
        /\ cur' = [cur EXCEPT ![t] = d]
        /\ l # "loop" => d # None
  <2>1. cur = [cur EXCEPT ![t] = cur[t]]
    BY ToolFacts
  <2>2. cur[t] # None
    BY <1>2, CommAssumption DEF Conns
  <2>3. CASE SendFilter(t)
    BY <1>2, <2>1, <2>2, <2>3 DEF SendFilter, ToolGoto
  <2>4. CASE SendTrace(t)
    BY <2>4 DEF SendTrace, ToolGoto
  <2>5. CASE StatusAsk(t)
    BY <1>2, <2>1, <2>2, <2>5 DEF StatusAsk, ToolGoto
  <2>6. QED
    BY <2>3, <2>4, <2>5
<1>6. /\ l \in ToolPCs /\ l \in ListenPCs /\ l \in ServePCs /\ l \in OwnPCs
      /\ tpc[t] \in ListenPCs
  BY <1>1 DEF ToolPCs, ListenPCs, ServePCs, OwnPCs, OnPCs
<1>7. CtrlTypeOK' /\ ToolTypeOK'
  BY <1>1, <1>5, <1>6 DEF ToolInd, CtrlTypeOK, ToolTypeOK
<1>8. Moves(t, l)
  BY <1>1, <1>4, <1>5, <1>6, ToolFacts DEF Moves, ToolOK
<1>9. Keeps(t, l)
  BY <1>4, <1>6, SameConns
<1>10. SwitchHasOwner'
  BY <1>1, <1>6, <1>8, OwnerKept
<1>11. QED
  BY <1>4, <1>6, <1>7, <1>8, <1>9, <1>10, OneTool DEF ToolInd

\* Taking one report from a client: the limit and the quota count down.
LEMMA DisplayInd ==
    ASSUME ToolInd, NEW t \in Tools, NEW c \in Conns, Display(t, c)
    PROVE  ToolInd'
<1> DEFINE left == IF Counted(t, Head(toTool[c])) THEN clictx[t].limit - 1
                   ELSE clictx[t].limit
<1>1. /\ tpc[t] = "recv" /\ toTool[c] # <<>>
      /\ toTool' = [toTool EXCEPT ![c] = Tail(@)]
      /\ clictx' = [clictx EXCEPT ![t].limit = left]
      /\ ctrl' = ctrl /\ path' = path /\ listening' = listening /\ cli' = cli
      /\ srv' = srv /\ acc' = acc /\ toPhp' = toPhp /\ cur' = cur
  BY DEF Display, Serving
<1>2. CtrlTypeOK' /\ CommTypeOK'
  <2>1. toTool[c] \in Seq(Reports)
    BY DEF ToolInd, CommTypeOK
  <2>2. Tail(toTool[c]) \in Seq(Reports)
    BY <1>1, <2>1
  <2>3. toTool' \in [Conns -> Seq(Reports)]
    BY <1>1, <2>2 DEF ToolInd, CommTypeOK
  <2>4. QED
    BY <1>1, <2>3 DEF ToolInd, CtrlTypeOK, CommTypeOK
<1>3. /\ clictx' \in [Tools -> Invocation]
      /\ clictx'[t].filter = clictx[t].filter
      /\ clictx'[t].target = clictx[t].target
      /\ \A u \in Tools \ {t} : clictx'[u] = clictx[u]
  <2>1. left \in -1..MaxLimit
    <3>1. clictx[t].limit \in -1..MaxLimit /\ MaxLimit \in Int
      BY ToolFacts, ToolAssumption DEF Invocation
    <3>2. Counted(t, Head(toTool[c])) => clictx[t].limit # -1
      BY DEF Counted
    <3>3. QED
      BY <3>1, <3>2
  <2>2. [clictx[t] EXCEPT !.limit = left] \in Invocation
    BY <2>1, ToolFacts DEF Invocation
  <2>3. clictx' = [clictx EXCEPT ![t] = [clictx[t] EXCEPT !.limit = left]]
    BY <1>1
  <2>4. /\ [clictx[t] EXCEPT !.limit = left].filter = clictx[t].filter
        /\ [clictx[t] EXCEPT !.limit = left].target = clictx[t].target
    BY ToolFacts DEF Invocation
  <2>5. QED
    BY <2>2, <2>3, <2>4, ToolFacts
<1>4. /\ ready' \in [Tools -> SUBSET Conns] /\ quota' \in [Tools -> 0..Times]
      /\ \A u \in Tools \ {t} : quota'[u] = quota[u]
      /\ \E l \in {"loop", "recv", "deinit"} :
            tpc' = [tpc EXCEPT ![t] = l] /\ (l = "recv" => quota'[t] > 0)
  <2>1. CASE left = 0
    <3>1. ready' = ready /\ quota' = quota /\ tpc' = [tpc EXCEPT ![t] = "deinit"]
      BY <2>1 DEF Display, ToolGoto
    <3>2. QED
      BY <3>1, ToolFacts
  <2>2. CASE left # 0 /\ quota[t] = 1
    <3>1. NextClient(t, c)
      BY <2>2 DEF Display
    <3>2. QED
      BY <1>1, <3>1, NextClientType
  <2>3. CASE left # 0 /\ quota[t] # 1
    <3>1. tpc' = tpc /\ ready' = ready /\ quota' = [quota EXCEPT ![t] = @ - 1]
      BY <2>3 DEF Display
    <3>2. quota[t] > 0
      BY <1>1, ToolFacts DEF ToolOK
    <3>3. quota[t] - 1 \in 0..Times /\ quota[t] - 1 > 0
      BY <2>3, <3>2, ToolFacts, ToolAssumption
    <3>4. quota' \in [Tools -> 0..Times] /\ quota'[t] > 0
      BY <3>1, <3>3, ToolFacts
    <3>5. tpc' = [tpc EXCEPT ![t] = "recv"]
      BY <1>1, <3>1, ToolFacts
    <3>6. QED
      BY <3>1, <3>4, <3>5, ToolFacts
  <2>4. QED
    BY <2>1, <2>2, <2>3
<1>5. PICK l \in {"loop", "recv", "deinit"} :
        tpc' = [tpc EXCEPT ![t] = l] /\ (l = "recv" => quota'[t] > 0)
  BY <1>4
<1>6. /\ l \in ToolPCs /\ l \in ListenPCs /\ l \in ServePCs /\ l \in OwnPCs
      /\ tpc[t] \in ListenPCs /\ l \notin {"filter", "trace", "ask", "answer"}
  BY <1>1 DEF ToolPCs, ListenPCs, ServePCs, OwnPCs, OnPCs
<1>7. ToolTypeOK'
  BY <1>1, <1>3, <1>4, <1>5, <1>6 DEF ToolInd, ToolTypeOK
<1>8. Moves(t, l)
  BY <1>1, <1>3, <1>4, <1>5, <1>6, ToolFacts DEF Moves, ToolOK
<1>9. Keeps(t, l)
  BY <1>1, <1>6, SameConns
<1>10. SwitchHasOwner'
  BY <1>1, <1>6, <1>8, OwnerKept
<1>11. QED
  BY <1>2, <1>6, <1>7, <1>8, <1>9, <1>10, OneTool DEF ToolInd

\* A client that is gone, or sent rubbish, is closed.
LEMMA DetachInd ==
    ASSUME ToolInd, NEW t \in Tools, NEW c \in Conns, Detach(t, c)
    PROVE  ToolInd'
<1>1. /\ tpc[t] = "recv" /\ CloseServer({c}) /\ NextClient(t, c)
      /\ ctrl' = ctrl /\ path' = path /\ listening' = listening /\ cli' = cli
      /\ toPhp' = toPhp /\ clictx' = clictx /\ cur' = cur
  BY DEF Detach, Serving
<1>2. CtrlTypeOK' /\ CommTypeOK'
  <2>1. /\ srv' \in [Conns -> Tools \cup {None}] /\ acc' \in [Conns -> BOOLEAN]
        /\ toTool' \in [Conns -> Seq(Reports)]
    BY <1>1, CloseServerType DEF ToolInd
  <2>2. QED
    BY <1>1, <2>1 DEF ToolInd, CtrlTypeOK, CommTypeOK
<1>3. PICK l \in {"loop", "recv"} :
        tpc' = [tpc EXCEPT ![t] = l] /\ (l = "recv" => quota'[t] > 0)
  BY <1>1, NextClientType
<1>4. /\ l \in ToolPCs /\ l \in ListenPCs /\ l \in ServePCs /\ l \in OwnPCs
      /\ tpc[t] \in ListenPCs /\ l \notin {"filter", "trace", "ask", "answer"}
  BY <1>1 DEF ToolPCs, ListenPCs, ServePCs, OwnPCs, OnPCs
<1>5. ToolTypeOK'
  BY <1>1, <1>3, <1>4, NextClientType DEF ToolInd, ToolTypeOK
<1>6. Moves(t, l)
  BY <1>1, <1>3, <1>4, NextClientType, ToolFacts DEF Moves, ToolOK
<1>7. Keeps(t, l)
  <2>1. \A d \in Conns : /\ srv'[d] = IF d = c THEN None ELSE srv[d]
                         /\ acc'[d] => acc[d] /\ d # c
    BY <1>1 DEF CloseServer
  <2>2. t # None
    BY CommAssumption
  <2>3. QED
    BY <1>4, <2>1, <2>2, ToolFacts DEF Keeps
<1>8. SwitchHasOwner'
  BY <1>1, <1>4, <1>6, OwnerKept
<1>9. QED
  BY <1>2, <1>4, <1>5, <1>6, <1>7, <1>8, OneTool DEF ToolInd

\* The answer to a status request is taken.
LEMMA StatusAnswerInd ==
    ASSUME ToolInd, NEW t \in Tools, StatusAnswer(t) PROVE ToolInd'
<1>1. /\ tpc[t] = "answer" /\ tpc' = [tpc EXCEPT ![t] = "deinit"]
      /\ toTool' = [toTool EXCEPT ![cur[t]] = IF @ = <<>> THEN @ ELSE Tail(@)]
      /\ ctrl' = ctrl /\ path' = path /\ listening' = listening /\ cli' = cli
      /\ srv' = srv /\ acc' = acc /\ toPhp' = toPhp
      /\ clictx' = clictx /\ cur' = cur /\ ready' = ready /\ quota' = quota
  BY DEF StatusAnswer, ToolGoto
<1>2. CtrlTypeOK' /\ CommTypeOK'
  <2>1. cur[t] \in Conns
    BY <1>1, ToolFacts DEF ToolOK
  <2>2. toTool[cur[t]] \in Seq(Reports)
    BY <2>1 DEF ToolInd, CommTypeOK
  <2>3. toTool[cur[t]] # <<>> => Tail(toTool[cur[t]]) \in Seq(Reports)
    BY <2>2
  <2>4. toTool' \in [Conns -> Seq(Reports)]
    BY <1>1, <2>2, <2>3 DEF ToolInd, CommTypeOK
  <2>5. QED
    BY <1>1, <2>4 DEF ToolInd, CtrlTypeOK, CommTypeOK
<1>3. /\ "deinit" \in ToolPCs /\ "deinit" \in ListenPCs /\ "deinit" \in ServePCs
      /\ "deinit" \in OwnPCs /\ "answer" \in ListenPCs
  BY DEF ToolPCs, ListenPCs, ServePCs, OwnPCs, OnPCs
<1>4. ToolTypeOK'
  BY <1>1, <1>3 DEF ToolInd, ToolTypeOK
<1>5. Moves(t, "deinit")
  BY <1>1, <1>3, ToolFacts DEF Moves, ToolOK
<1>6. Keeps(t, "deinit")
  BY <1>1, <1>3, SameConns
<1>7. SwitchHasOwner'
  BY <1>1, <1>3, <1>5, OwnerKept
<1>8. QED
  BY <1>2, <1>3, <1>4, <1>5, <1>6, <1>7, OneTool DEF ToolInd

\* Every step of a run keeps the invariant of the tool.
LEMMA ToolStepInd ==
    ASSUME ToolInd, NEW t \in Tools, ToolStep(t) \/ ToolUser(t) PROVE ToolInd'
BY StartInd, ListenInd, QuietInd, SwitchOnInd, SwitchOffInd, ToolEndInd, DeinitInd,
   AcceptInd, SendInd, DisplayInd, DetachInd, StatusAnswerInd
   DEF ToolStep, ToolUser

\* It holds before anything was started.
LEMMA ToolInitInd ==
    ASSUME CtrlInit, CommInit, CtrlTypeOK, CommTypeOK, ToolInit PROVE ToolInd
<1>1. ToolTypeOK
  BY ToolAssumption DEF ToolInit, ToolTypeOK
<1>2. ToolShape
  BY DEF ToolInit, CommInit, ToolShape, ToolOK, ListenPCs, OnPCs
<1>3. NoOrphanConnection
  BY DEF CommInit, NoOrphanConnection, ConnOK
<1>4. SwitchHasOwner
  BY DEF CtrlInit, SwitchHasOwner
<1>5. QED
  BY <1>1, <1>2, <1>3, <1>4 DEF ToolInd
=============================================================================
