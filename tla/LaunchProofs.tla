--------------------------- MODULE LaunchProofs ---------------------------
(***************************************************************************)
(* One run of the tool, for any command line, any number of processes that *)
(* map the control file, any stacks and any version of PHP: the control    *)
(* file, the status by ptrace, and the run that joins them to parse_args.  *)
(***************************************************************************)
EXTENDS Launch, CliProofs

-----------------------------------------------------------------------------
(* The control file: without a failing create the name never moves to      *)
(* another file while somebody holds one.                                  *)

Holding == {"opened", "sized", "mapped"}

\* Whoever has a file open or mapped has the one with the name.
HoldsNamed ==
    \A p \in Mappers :
        mpc[p] \in Holding => fd[p] # 0 /\ (unlinked \/ fd[p] = path)

\* It was set to its size before it was mapped, and the segment is as large.
SizedBeforeMapped ==
    \A p \in Mappers :
        /\ mpc[p] \in {"sized", "mapped"} => fsize[fd[p]] = CtrlSize
        /\ mpc[p] = "mapped" => seg[p] = CtrlSize

FileInv == FileTypeOK /\ HoldsNamed /\ SizedBeforeMapped

LEMMA FileInvInit == FileInit => FileInv
  <1> SUFFICES ASSUME FileInit PROVE FileInv
    OBVIOUS
  <1>1. FileTypeOK
    <2>1. path \in 0..created /\ created \in 0..MaxFiles
      BY CtrlFileAssumption DEF FileInit
    <2> QED BY <2>1 DEF FileInit, FileTypeOK
  <1>2. HoldsNamed /\ SizedBeforeMapped
    BY DEF FileInit, HoldsNamed, SizedBeforeMapped, Holding
  <1> QED BY <1>1, <1>2 DEF FileInv

\* A create that finds no name makes a file nobody has; otherwise it takes the
\* file that has it.
LEMMA CreateOpenKeeps ==
    ASSUME FileInv, NEW p \in Mappers, CreateOpen(p)
    PROVE  FileInv'
  <1> USE CtrlFileAssumption DEF FileInv
  <1>1. FileTypeOK'
    <2>1. /\ created' \in 0..MaxFiles /\ created <= created'
          /\ path' \in 0..created' /\ fd' \in [Mappers -> 0..created']
      <3>1. CASE path = 0
        BY <3>1 DEF FileTypeOK, CreateOpen
      <3>2. CASE path # 0
        BY <3>2 DEF FileTypeOK, CreateOpen
      <3> QED BY <3>1, <3>2
    <2> QED BY <2>1 DEF FileTypeOK, CreateOpen
  <1>2. HoldsNamed'
    <2>1. CASE path = 0
      BY <2>1 DEF FileTypeOK, CreateOpen, HoldsNamed, Holding
    <2>2. CASE path # 0
      BY <2>2 DEF FileTypeOK, CreateOpen, HoldsNamed, Holding
    <2> QED BY <2>1, <2>2
  <1>3. SizedBeforeMapped'
    BY DEF FileTypeOK, CreateOpen, SizedBeforeMapped
  <1> QED BY <1>1, <1>2, <1>3

LEMMA CreateFailsKeeps ==
    ASSUME FileInv, NEW p \in Mappers, CreateFails(p)
    PROVE  FileInv'
  BY DEF FileInv, FileTypeOK, CreateFails, HoldsNamed, SizedBeforeMapped, Holding

LEMMA UnmapKeeps ==
    ASSUME FileInv, NEW p \in Mappers, Unmap(p)
    PROVE  FileInv'
  BY DEF FileInv, FileTypeOK, Unmap, PathAfterClose, HoldsNamed, SizedBeforeMapped,
         Holding

LEMMA SetSizeKeeps ==
    ASSUME FileInv, NEW p \in Mappers, SetSize(p)
    PROVE  FileInv'
  <1> USE DEF FileInv, SetSize
  <1>1. FileTypeOK'
    BY DEF FileTypeOK
  <1>2. HoldsNamed'
    BY DEF FileTypeOK, HoldsNamed, Holding
  <1>3. fd[p] \in Files /\ fsize' = [fsize EXCEPT ![fd[p]] = CtrlSize]
    BY CtrlFileAssumption DEF FileTypeOK, HoldsNamed, Holding, Files
  <1>4. SizedBeforeMapped'
    BY <1>3 DEF FileTypeOK, SizedBeforeMapped
  <1> QED BY <1>1, <1>2, <1>4

LEMMA MapFdKeeps ==
    ASSUME FileInv, NEW p \in Mappers, MapFd(p)
    PROVE  FileInv'
  BY DEF FileInv, FileTypeOK, MapFd, HoldsNamed, SizedBeforeMapped, Holding

LEMMA FileInvStep ==
    ASSUME FileInv, [\E p \in Mappers : FileStep(p)]_fileVars
    PROVE  FileInv'
  <1>1. CASE UNCHANGED fileVars
    BY <1>1 DEF fileVars, FileInv, FileTypeOK, HoldsNamed, SizedBeforeMapped
  <1>2. ASSUME NEW p \in Mappers, FileStep(p) PROVE FileInv'
    <2>1. CASE CreateOpen(p) BY <2>1, CreateOpenKeeps
    <2>2. CASE CreateOpenFailed(p)
      BY <2>2 DEF FileInv, FileTypeOK, CreateOpenFailed, HoldsNamed,
                  SizedBeforeMapped, Holding
    <2>3. CASE SetSize(p) BY <2>3, SetSizeKeeps
    <2>4. CASE SetSizeFailed(p) BY <2>4, CreateFailsKeeps DEF SetSizeFailed
    <2>5. CASE MapFd(p) BY <2>5, MapFdKeeps
    <2>6. CASE MapFdFailed(p) BY <2>6, CreateFailsKeeps DEF MapFdFailed
    <2>7. CASE Unmap(p) BY <2>7, UnmapKeeps
    <2> QED BY <1>2, <2>1, <2>2, <2>3, <2>4, <2>5, <2>6, <2>7 DEF FileStep, CreateStep
  <1> QED BY <1>1, <1>2

\* However many PHP processes and tools map the control file, start, end and
\* die in any order: those that have it mapped share the file that has the
\* name, until a pt_mmap_create fails.
THEOREM ControlFileShared == FileSpec => []OneControlFile
  <1>1. FileInv => OneControlFile
    BY DEF FileInv, HoldsNamed, SizedBeforeMapped, OneControlFile, Holding
  <1> QED BY FileInvInit, FileInvStep, <1>1, PTL DEF FileSpec

-----------------------------------------------------------------------------
(* The status by ptrace *)

\* What BuildFrame may append.
FrameSet ==
    {Junk} \cup UNION {{pt_ptrace_build_frame(s, i) : i \in 1..Len(s)} : s \in Stacks}

StatusShape ==
    /\ php \in [how : {"run", "stopping", "traced", "stopped", "gone"},
                stack : Stacks \cup {<<>>}, sg : Requests, version : Versions \cup {0},
                mine : BOOLEAN]
    /\ spc \in {"idle", "main", "recv", "cut", "info", "preset", "attach", "fetch",
                "request", "depth", "frames", "display", "detach", "end", "killed"}
    /\ ret \in {0, -1, -2}
    /\ cur \in Int /\ root \in Int
    /\ count \in Nat /\ frames \in Seq(FrameSet) /\ Len(frames) <= count
    /\ peeked \in BOOLEAN
    /\ shown \in {"nothing", "ext", "ptrace", "interrupted"}
    /\ spc \in {"idle", "main", "recv", "cut", "info", "preset", "attach", "fetch"} =>
         count = 0 /\ frames = <<>>

\* Until PTRACE_ATTACH the process is left alone; from then on it is the
\* tool's until it dies or is detached; and once it was seen stopped it stays
\* stopped, for the tool, until then.
WhoseProcess ==
    /\ spc \in {"idle", "main", "recv", "cut", "info", "preset", "attach"} =>
         php.how \in {"run", "gone"} /\ ~php.mine /\ ~peeked /\ shown = "nothing"
    /\ spc = "fetch" =>
         php.how \in {"stopping", "traced", "gone"} /\ ~peeked /\ shown = "nothing"
    /\ spc \in {"fetch", "request", "depth", "frames", "display", "detach"} =>
         php.how \notin {"stopping", "traced"} \/ php.mine
    /\ spc \in {"request", "depth", "frames", "display"} =>
         php.how \in {"traced", "gone"} /\ peeked
    /\ spc = "detach" =>
         /\ php.how # "run" /\ php.how # "stopped"
         /\ peeked => php.how # "stopping"
         /\ ret = 0 => peeked /\ shown = "ptrace"
    /\ spc = "end" =>
         /\ peeked => php.how \in {"run", "gone"}
         /\ ret = 0 => shown # "nothing"
         /\ ret = 0 /\ shown = "ptrace" => peeked

\* While it is stopped, it is as it was when it stopped.
Frozen ==
    spc \in {"fetch", "request", "depth", "frames", "display", "detach"}
      /\ php.how = "traced" => frozen = <<php.stack, php.sg>>

FramesRight ==
    \A i \in 1..Len(frames) : frames[i] = pt_ptrace_build_frame(php.stack, i)

RequestRight == SameButArgv(req, request_build(php.sg, PT_FRAME_STACK))

\* How far the walk along the stack has come.
Walk ==
    php.how = "traced" /\ Covered =>
        /\ spc = "request" =>
             root = 1 /\ cur = 1 /\ count = 0 /\ frames = <<>> /\ php.stack # <<>>
        /\ spc = "depth" =>
             /\ root = 1 /\ frames = <<>> /\ php.stack # <<>>
             /\ cur \in 0..Len(php.stack)
             /\ count = IF cur = NIL THEN Len(php.stack) ELSE cur - 1
        /\ spc = "frames" =>
             /\ count = Len(php.stack) /\ FramesRight
             /\ cur = IF Len(frames) = count THEN NIL ELSE Len(frames) + 1
        /\ spc = "display" \/ (spc = "detach" /\ ret = 0) =>
             Len(frames) = Len(php.stack) /\ FramesRight
        /\ spc \in {"depth", "frames", "display"} \/ (spc = "detach" /\ ret = 0) =>
             RequestRight

StatusInv == StatusShape /\ WhoseProcess /\ Frozen /\ Walk /\ StatusTruthful

\* A stack is a sequence, and one that is not empty has a first frame.
LEMMA StackFacts ==
    ASSUME StatusShape
    PROVE  /\ Len(php.stack) \in Nat /\ DOMAIN php.stack = 1..Len(php.stack)
           /\ php.stack # <<>> => Len(php.stack) >= 1 /\ php.stack \in Stacks
  <1>1. php.stack \in Stacks \cup {<<>>}
    BY DEF StatusShape
  <1>2. CASE php.stack = <<>>
    BY <1>2
  <1>3. CASE php.stack \in Stacks
    <2>1. php.stack \in Seq(ToSet(php.stack))
      BY <1>3, StacksAssumption
    <2> QED BY <1>3, <2>1
  <1> QED BY <1>1, <1>2, <1>3

LEMMA StatusInvInit == StatusInit => StatusInv
  <1> SUFFICES ASSUME StatusInit PROVE StatusInv
    OBVIOUS
  <1>1. /\ php \in [how : {"run"}, stack : {<<>>}, sg : Requests, version : {0}, mine : {FALSE}]
        /\ spc = "idle" /\ ret = 0 /\ cur = 0 /\ root = 0 /\ count = 0 /\ frames = <<>>
        /\ peeked = FALSE /\ shown = "nothing"
    BY DEF StatusInit, NIL
  <1>2. StatusShape
    <2>1. frames \in Seq(FrameSet) /\ Len(frames) = 0
      BY <1>1
    <2>2. php \in [how : {"run", "stopping", "traced", "stopped", "gone"},
                   stack : Stacks \cup {<<>>}, sg : Requests, version : Versions \cup {0},
                   mine : BOOLEAN]
      BY <1>1
    <2>3. ret \in {0, -1, -2} /\ cur \in Int /\ root \in Int /\ count \in Nat
          /\ Len(frames) <= count
      BY <1>1, <2>1
    <2> QED BY <1>1, <2>1, <2>2, <2>3 DEF StatusShape
  <1> QED BY <1>1, <1>2 DEF StatusInv, WhoseProcess, Frozen, Walk, StatusTruthful

\* The process goes on: nobody has seen it stopped.
LEMMA PhpRunsKeeps ==
    ASSUME StatusInv, PhpRuns
    PROVE  StatusInv'
  <1>1. PICK s \in Stacks : php' = [php EXCEPT !.stack = s]
    BY DEF PhpRuns
  <1>2. /\ php.how \in {"run", "stopping"} /\ spc' = spc /\ ret' = ret /\ cur' = cur
        /\ root' = root /\ count' = count /\ frames' = frames /\ req' = req
        /\ frozen' = frozen /\ peeked' = peeked /\ shown' = shown
    BY DEF PhpRuns, readVars, histVars
  <1>3. /\ php'.how = php.how /\ php'.mine = php.mine /\ php'.version = php.version
        /\ StatusShape'
    BY <1>1, <1>2 DEF StatusInv, StatusShape
  <1>4. WhoseProcess' /\ Frozen' /\ Walk'
    BY <1>2, <1>3 DEF StatusInv, WhoseProcess, Frozen, Walk
  <1>5. StatusTruthful'
    BY <1>2, <1>3 DEF StatusInv, StatusTruthful, Covered
  <1> QED BY <1>3, <1>4, <1>5 DEF StatusInv

\* The stop arrives, and fixes what will be seen.
LEMMA PhpStopsKeeps ==
    ASSUME StatusInv, PhpStops
    PROVE  StatusInv'
  <1>1. /\ php.how = "stopping" /\ spc' = spc /\ ret' = ret /\ cur' = cur
        /\ root' = root /\ count' = count /\ frames' = frames /\ req' = req
        /\ frozen' = <<php.stack, php.sg>> /\ peeked' = peeked /\ shown' = shown
        /\ php' = [php EXCEPT !.how = IF php.mine THEN "traced" ELSE "stopped"]
    BY DEF PhpStops, readVars, histVars
  <1>2. /\ php'.how = IF php.mine THEN "traced" ELSE "stopped"
        /\ php'.mine = php.mine /\ php'.version = php.version
        /\ php'.stack = php.stack /\ php'.sg = php.sg
        /\ StatusShape'
    BY <1>1 DEF StatusInv, StatusShape
  <1>3. WhoseProcess' /\ Frozen'
    BY <1>1, <1>2 DEF StatusInv, WhoseProcess, Frozen
  <1>4. spc \notin {"request", "depth", "frames", "display"} /\ ~(spc = "detach" /\ ret = 0)
    BY <1>1 DEF StatusInv, WhoseProcess
  <1>5. Walk'
    BY <1>1, <1>4 DEF Walk
  <1>6. StatusTruthful'
    BY <1>1 DEF StatusInv, StatusTruthful, WhoseProcess
  <1> QED BY <1>2, <1>3, <1>5, <1>6 DEF StatusInv

\* A process that is gone cannot be read, and cannot be detached from.
LEMMA PhpDiesKeeps ==
    ASSUME StatusInv, PhpDies
    PROVE  StatusInv'
  <1>1. /\ php.how # "gone" /\ spc' = spc /\ ret' = ret /\ cur' = cur
        /\ root' = root /\ count' = count /\ frames' = frames /\ req' = req
        /\ frozen' = frozen /\ peeked' = peeked /\ shown' = shown
        /\ php' = [php EXCEPT !.how = "gone", !.mine = FALSE]
    BY DEF PhpDies, readVars, histVars
  <1>2. /\ php'.how = "gone" /\ php'.mine = FALSE /\ php'.version = php.version
        /\ StatusShape'
    BY <1>1 DEF StatusInv, StatusShape
  <1>3. WhoseProcess' /\ Frozen' /\ Walk'
    BY <1>1, <1>2 DEF StatusInv, WhoseProcess, Frozen, Walk
  <1>4. StatusTruthful'
    BY <1>1, <1>2 DEF StatusInv, StatusTruthful, Covered
  <1> QED BY <1>2, <1>3, <1>4 DEF StatusInv

\* The tool ends where it holds no process, or is killed.
LEMMA ToolGoneKeeps ==
    ASSUME StatusInv, ToolGone,
           ret' = ret, cur' = cur, root' = root, count' = count, frames' = frames,
           req' = req, frozen' = frozen, peeked' = peeked, shown' = shown,
           spc' = "killed" \/ (spc' = spc /\ spc \in {"idle", "end", "killed"})
    PROVE  StatusInv'
  <1>1. PICK how \in LetGo(php.how) : php' = [php EXCEPT !.how = how, !.mine = FALSE]
    BY DEF ToolGone
  <1>2. /\ how \in {"run", "stopping", "traced", "stopped", "gone"}
        /\ php.how \in {"run", "gone"} => how = php.how
    BY DEF StatusInv, StatusShape, LetGo
  <1>3. /\ php'.how = how /\ php'.mine = FALSE /\ php'.version = php.version
        /\ StatusShape'
    BY <1>1, <1>2, ZenonT(40) DEF StatusInv, StatusShape
  <1>4. WhoseProcess'
    BY <1>2, <1>3 DEF StatusInv, WhoseProcess
  <1>5. Frozen' /\ Walk'
    BY DEF Frozen, Walk
  <1>6. StatusTruthful'
    BY <1>3 DEF StatusInv, StatusTruthful, Covered
  <1> QED BY <1>3, <1>4, <1>5, <1>6 DEF StatusInv

\* Steps that leave the process, and what is read of it, alone, up to the
\* attach.
LEMMA BeforeAttachKeeps ==
    ASSUME StatusInv,
           \/ \E ptrace : StatusMain(ptrace)
           \/ StatusExt \/ ExtAnswer \/ ExtReceived \/ get_php_info_failed
           \/ pt_ptrace_preset \/ pt_ptrace_preset_failed \/ pt_ptrace_attach_failed
    PROVE  StatusInv'
  <1>1. /\ php' = php /\ cur' = cur /\ root' = root /\ count' = count
        /\ frames' = frames /\ req' = req /\ frozen' = frozen /\ peeked' = peeked
        /\ spc \in {"idle", "main", "recv", "cut", "info", "preset", "attach"}
        /\ \/ spc' \in {"main", "recv", "cut", "info", "attach"} /\ shown' = shown
                /\ ret' \in {0, -1, -2}
           \/ spc' = "info" /\ shown' = "nothing" /\ ret' \in {-1, -2}
           \/ spc' = "end" /\ shown' \in {"ext", "interrupted"} /\ ret' = 0
           \/ spc' = "end" /\ shown' = shown /\ ret' = -1
    BY DEF StatusInv, StatusShape, StatusMain, StatusExt, ExtAnswer, ExtReceived,
           ExtReturns, Fails, get_php_info_failed, pt_ptrace_preset,
           pt_ptrace_preset_failed, pt_ptrace_attach_failed, readVars, histVars
  <1>2. StatusShape'
    BY <1>1 DEF StatusInv, StatusShape
  <1>3. WhoseProcess'
    BY <1>1 DEF StatusInv, WhoseProcess
  <1>4. Frozen' /\ Walk'
    BY <1>1 DEF Frozen, Walk
  <1>5. StatusTruthful'
    BY <1>1 DEF StatusTruthful
  <1> QED BY <1>2, <1>3, <1>4, <1>5 DEF StatusInv

LEMMA InfoKeeps ==
    ASSUME StatusInv, get_php_info
    PROVE  StatusInv'
  <1>1. PICK v \in Versions : php' = [php EXCEPT !.version = v]
    BY DEF get_php_info
  <1>2. /\ spc = "info" /\ spc' = "preset" /\ ret' = ret /\ cur' = cur
        /\ root' = root /\ count' = count /\ frames' = frames /\ req' = req
        /\ frozen' = frozen /\ peeked' = peeked /\ shown' = shown
    BY DEF get_php_info, readVars, histVars
  <1>3. php'.how = php.how /\ php'.mine = php.mine /\ StatusShape'
    BY <1>1, <1>2 DEF StatusInv, StatusShape
  <1>4. WhoseProcess' /\ Frozen' /\ Walk' /\ StatusTruthful'
    BY <1>2, <1>3 DEF StatusInv, WhoseProcess, Frozen, Walk, StatusTruthful
  <1> QED BY <1>3, <1>4 DEF StatusInv

LEMMA AttachKeeps ==
    ASSUME StatusInv, pt_ptrace_attach
    PROVE  StatusInv'
  <1>1. /\ spc = "attach" /\ spc' = "fetch" /\ ret' = ret /\ cur' = cur
        /\ root' = root /\ count' = count /\ frames' = frames /\ req' = req
        /\ frozen' = frozen /\ peeked' = peeked /\ shown' = shown
        /\ php' = [php EXCEPT !.how = "stopping", !.mine = TRUE]
    BY DEF pt_ptrace_attach, readVars, histVars
  <1>2. php'.how = "stopping" /\ php'.mine = TRUE /\ StatusShape'
    BY <1>1 DEF StatusInv, StatusShape
  <1>3. WhoseProcess' /\ Frozen' /\ Walk' /\ StatusTruthful'
    BY <1>1, <1>2 DEF StatusInv, WhoseProcess, Frozen, Walk, StatusTruthful
  <1> QED BY <1>2, <1>3 DEF StatusInv

LEMMA FetchKeeps ==
    ASSUME StatusInv, pt_ptrace_fetch_current_ex
    PROVE  StatusInv'
  <1> DEFINE first == IF php.stack = <<>> THEN NIL ELSE 1
  <1>1. PICK addr \in Peek(first) :
          /\ root' = addr /\ cur' = addr
          /\ ret' = IF AfterFetch(addr) = "detach" THEN -1 ELSE 0
          /\ spc' = AfterFetch(addr)
    BY DEF pt_ptrace_fetch_current_ex
  <1>2. /\ spc = "fetch" /\ php' = php /\ count' = count /\ frames' = frames
        /\ req' = req /\ frozen' = frozen /\ shown' = shown
        /\ peeked' = (php.how = "traced")
    BY DEF pt_ptrace_fetch_current_ex, Peekable
  <1>3. /\ addr \in Int /\ addr \in {BAD, NIL, first}
        /\ php.how # "traced" => addr = BAD
        /\ php.how = "traced" /\ Covered => addr = first
    BY DEF Peek, Peekable, NIL, BAD
  <1>4. \/ spc' = "detach" /\ ret' = -1 /\ addr \in {BAD, NIL}
        \/ spc' = "request" /\ ret' = 0 /\ addr \notin {BAD, NIL}
    BY <1>1 DEF AfterFetch
  <1>5. StatusShape'
    BY <1>1, <1>2, <1>3, <1>4 DEF StatusInv, StatusShape
  <1>6. WhoseProcess'
    <2>1. /\ php.how \in {"stopping", "traced", "gone"} /\ shown = "nothing"
          /\ php.how \notin {"stopping", "traced"} \/ php.mine
      BY <1>2 DEF StatusInv, WhoseProcess
    <2>2. CASE spc' = "request"
      <3>1. php.how = "traced" /\ peeked'
        BY <1>2, <1>3, <1>4, <2>2
      <3> QED BY <1>2, <2>1, <2>2, <3>1 DEF WhoseProcess
    <2>3. CASE spc' = "detach" /\ ret' = -1
      <3>1. peeked' => php.how # "stopping"
        BY <1>2
      <3> QED BY <1>2, <2>1, <2>3, <3>1 DEF WhoseProcess
    <2> QED BY <1>4, <2>2, <2>3
  <1>7. Frozen'
    BY <1>2 DEF StatusInv, Frozen
  <1>8. Walk'
    <2>1. CASE spc' = "detach"
      BY <1>4, <2>1 DEF Walk
    <2>2. ASSUME spc' = "request", php.how = "traced", Covered
          PROVE  root' = 1 /\ cur' = 1 /\ php.stack # <<>>
      BY <1>1, <1>3, <1>4, <2>2
    <2>3. CASE spc' = "request"
      <3>1. count = 0 /\ frames = <<>>
        BY <1>2 DEF StatusInv, StatusShape
      <3> QED BY <1>2, <2>2, <2>3, <3>1 DEF Walk, Covered
    <2> QED BY <1>4, <2>1, <2>3
  <1>9. StatusTruthful'
    BY <1>4 DEF StatusTruthful
  <1> QED BY <1>5, <1>6, <1>7, <1>8, <1>9 DEF StatusInv

\* A step that reads a stopped process, or one that is gone, and nothing else.
LEMMA ReadingKeeps ==
    ASSUME StatusInv, php' = php, frozen' = frozen, peeked' = peeked, shown' = shown,
           ret' = ret, spc \in {"request", "depth", "frames"},
           spc' \in {"depth", "frames", "display"}
    PROVE  WhoseProcess' /\ Frozen' /\ StatusTruthful'
  <1>1. /\ php.how \in {"traced", "gone"} /\ peeked
        /\ php.how \notin {"stopping", "traced"} \/ php.mine
    BY DEF StatusInv, WhoseProcess
  <1> QED BY <1>1 DEF StatusInv, WhoseProcess, Frozen, StatusTruthful

LEMMA RequestKeeps ==
    ASSUME StatusInv, pt_ptrace_build_request
    PROVE  StatusInv'
  <1>1. /\ spc = "request" /\ spc' = "depth" /\ php' = php /\ ret' = ret /\ cur' = cur
        /\ root' = root /\ count' = count /\ frames' = frames
        /\ frozen' = frozen /\ peeked' = peeked /\ shown' = shown
    BY DEF pt_ptrace_build_request, histVars
  <1>2. StatusShape'
    BY <1>1 DEF StatusInv, StatusShape
  <1>3. ASSUME php.how = "traced", Covered
        PROVE  RequestRight'
    <2>1. req' = [request_build(php.sg, PT_FRAME_STACK)
                    EXCEPT !.argv = [i \in DOMAIN php.sg.argv |-> Junk]]
      BY <1>3 DEF pt_ptrace_build_request, Peekable
    <2>2. SameButArgv(req', request_build(php.sg, PT_FRAME_STACK))
      BY <2>1 DEF SameButArgv, request_build
    <2> QED BY <1>1, <2>2 DEF RequestRight
  <1>4. Walk'
    <2> SUFFICES ASSUME php.how = "traced", Covered
                 PROVE  /\ root' = 1 /\ frames' = <<>> /\ php.stack # <<>>
                        /\ cur' \in 0..Len(php.stack)
                        /\ count' = IF cur' = NIL THEN Len(php.stack) ELSE cur' - 1
                        /\ RequestRight'
      BY <1>1 DEF Walk, Covered
    <2>1. root = 1 /\ cur = 1 /\ count = 0 /\ frames = <<>> /\ php.stack # <<>>
      BY <1>1 DEF StatusInv, Walk
    <2>2. Len(php.stack) \in Nat /\ Len(php.stack) >= 1
      BY <2>1, StackFacts DEF StatusInv
    <2> QED BY <1>1, <1>3, <2>1, <2>2 DEF NIL
  <1> QED BY <1>1, <1>2, <1>4, ReadingKeeps DEF StatusInv

\* What a peek at the next frame gives.
LEMMA PeekPrev ==
    ASSUME StatusInv, NEW addr \in IF cur = BAD THEN {BAD} ELSE Peek(Prev(cur))
    PROVE  /\ addr \in Int
           /\ php.how = "traced" /\ Covered /\ cur # BAD =>
                addr = IF cur < Len(php.stack) THEN cur + 1 ELSE NIL
  <1>1. cur \in Int
    BY DEF StatusInv, StatusShape
  <1>2. CASE cur = BAD
    BY <1>2 DEF BAD
  <1>3. CASE cur # BAD
    <2>1. addr \in Peek(Prev(cur))
      BY <1>3
    <2>2. Prev(cur) \in Int /\ Prev(cur) = IF cur < Len(php.stack) THEN cur + 1 ELSE NIL
      BY <1>1 DEF Prev, NIL
    <2> QED BY <1>3, <2>1, <2>2 DEF Peek, Peekable, BAD, NIL
  <1> QED BY <1>2, <1>3

LEMMA StackDepthKeeps ==
    ASSUME StatusInv, StackDepth
    PROVE  StatusInv'
  <1>1. PICK addr \in IF cur = BAD THEN {BAD} ELSE Peek(Prev(cur)) : cur' = addr
    BY DEF StackDepth
  <1>2. /\ spc = "depth" /\ spc' = "depth" /\ cur # NIL /\ php' = php /\ ret' = ret
        /\ root' = root /\ frames' = frames /\ req' = req
        /\ count' = IF cur = BAD THEN count ELSE count + 1
        /\ frozen' = frozen /\ peeked' = peeked /\ shown' = shown
    BY DEF StackDepth, histVars
  <1>3. cur' \in Int
    BY <1>1, PeekPrev
  <1>4. count' \in Nat /\ Len(frames) <= count'
    <2>1. count \in Nat /\ Len(frames) <= count /\ Len(frames) \in Nat
      BY DEF StatusInv, StatusShape
    <2> QED BY <1>2, <2>1
  <1>5. StatusShape'
    BY <1>2, <1>3, <1>4 DEF StatusInv, StatusShape
  <1>6. Walk'
    <2> SUFFICES ASSUME php.how = "traced", Covered
                 PROVE  /\ root' = 1 /\ frames' = <<>> /\ php.stack # <<>>
                        /\ cur' \in 0..Len(php.stack)
                        /\ count' = IF cur' = NIL THEN Len(php.stack) ELSE cur' - 1
                        /\ RequestRight'
      BY <1>2 DEF Walk, Covered
    <2>1. /\ root = 1 /\ frames = <<>> /\ php.stack # <<>> /\ cur \in 0..Len(php.stack)
          /\ count = cur - 1 /\ RequestRight
      BY <1>2 DEF StatusInv, Walk
    <2>2. Len(php.stack) \in Nat
      BY StackFacts DEF StatusInv
    <2>3. cur # BAD /\ count' = cur /\ cur \in 1..Len(php.stack)
      BY <1>2, <2>1, <2>2 DEF BAD, NIL
    <2>4. cur' = IF cur < Len(php.stack) THEN cur + 1 ELSE NIL
      BY <1>1, <2>3, PeekPrev
    <2>5. RequestRight'
      BY <1>2, <2>1 DEF RequestRight
    <2> QED BY <1>2, <2>1, <2>2, <2>3, <2>4, <2>5 DEF NIL
  <1> QED BY <1>2, <1>5, <1>6, ReadingKeeps DEF StatusInv

LEMMA StackDepthKnownKeeps ==
    ASSUME StatusInv, StackDepthKnown
    PROVE  StatusInv'
  <1>1. /\ spc = "depth" /\ spc' = "frames" /\ cur = NIL /\ cur' = root /\ php' = php
        /\ ret' = ret /\ root' = root /\ count' = count /\ frames' = frames /\ req' = req
        /\ frozen' = frozen /\ peeked' = peeked /\ shown' = shown
    BY DEF StackDepthKnown, histVars
  <1>2. StatusShape'
    BY <1>1 DEF StatusInv, StatusShape
  <1>3. Walk'
    <2> SUFFICES ASSUME php.how = "traced", Covered
                 PROVE  /\ count' = Len(php.stack) /\ FramesRight'
                        /\ cur' = IF Len(frames') = count' THEN NIL ELSE Len(frames') + 1
                        /\ RequestRight'
      BY <1>1 DEF Walk, Covered
    <2>1. /\ root = 1 /\ frames = <<>> /\ php.stack # <<>> /\ count = Len(php.stack)
          /\ RequestRight
      BY <1>1 DEF StatusInv, Walk
    <2>2. Len(php.stack) \in Nat /\ Len(php.stack) >= 1 /\ Len(frames) = 0
      BY <2>1, StackFacts DEF StatusInv
    <2>3. FramesRight' /\ RequestRight'
      BY <1>1, <2>1, <2>2 DEF FramesRight, RequestRight
    <2> QED BY <1>1, <2>1, <2>2, <2>3
  <1> QED BY <1>1, <1>2, <1>3, ReadingKeeps DEF StatusInv

LEMMA BuildFrameKeeps ==
    ASSUME StatusInv, BuildFrame
    PROVE  StatusInv'
  <1> DEFINE f == IF Peekable /\ Covered /\ cur # BAD
                  THEN pt_ptrace_build_frame(php.stack, cur) ELSE Junk
  <1>1. PICK addr \in IF cur = BAD THEN {BAD} ELSE Peek(Prev(cur)) : cur' = addr
    BY DEF BuildFrame
  <1>2. /\ spc = "frames" /\ spc' = "frames" /\ Len(frames) < count /\ cur # NIL
        /\ php' = php /\ ret' = ret /\ root' = root /\ count' = count /\ req' = req
        /\ frames' = Append(frames, f)
        /\ frozen' = frozen /\ peeked' = peeked /\ shown' = shown
    BY DEF BuildFrame, histVars
  <1>3. /\ count \in Nat /\ frames \in Seq(FrameSet) /\ Len(frames) \in Nat
    BY DEF StatusInv, StatusShape
  <1>4. ASSUME php.how = "traced", Covered
        PROVE  /\ count = Len(php.stack) /\ FramesRight /\ RequestRight
               /\ cur = Len(frames) + 1 /\ cur # BAD /\ cur \in 1..Len(php.stack)
               /\ f = pt_ptrace_build_frame(php.stack, cur)
    <2>1. /\ count = Len(php.stack) /\ FramesRight /\ RequestRight /\ cur = Len(frames) + 1
      BY <1>2, <1>3, <1>4 DEF StatusInv, Walk
    <2>2. cur # BAD /\ cur \in 1..Len(php.stack)
      BY <1>2, <1>3, <2>1 DEF BAD
    <2> QED BY <1>4, <2>1, <2>2 DEF Peekable
  <1>5. f \in FrameSet
    <2>1. CASE Peekable /\ Covered /\ cur # BAD
      <3>1. cur \in 1..Len(php.stack) /\ f = pt_ptrace_build_frame(php.stack, cur)
        BY <1>4, <2>1 DEF Peekable
      <3>2. php.stack # <<>>
        BY <3>1
      <3>3. php.stack \in Stacks
        BY <3>2, StackFacts DEF StatusInv
      <3> QED BY <3>1, <3>3 DEF FrameSet
    <2>2. CASE ~(Peekable /\ Covered /\ cur # BAD)
      BY <2>2 DEF FrameSet
    <2> QED BY <2>1, <2>2
  <1> HIDE DEF f
  <1>6. /\ frames' \in Seq(FrameSet) /\ Len(frames') = Len(frames) + 1
        /\ \A i \in 1..Len(frames) : frames'[i] = frames[i]
        /\ frames'[Len(frames) + 1] = f
    BY <1>2, <1>3, <1>5
  <1>7. StatusShape'
    <2>1. cur' \in Int
      BY <1>1, PeekPrev
    <2>2. Len(frames') <= count'
      BY <1>2, <1>3, <1>6
    <2> QED BY <1>2, <1>6, <2>1, <2>2 DEF StatusInv, StatusShape
  <1>8. Walk'
    <2> SUFFICES ASSUME php.how = "traced", Covered
                 PROVE  /\ count' = Len(php.stack) /\ FramesRight'
                        /\ cur' = IF Len(frames') = count' THEN NIL ELSE Len(frames') + 1
                        /\ RequestRight'
      BY <1>2 DEF Walk, Covered
    <2>1. /\ count = Len(php.stack) /\ FramesRight /\ RequestRight
          /\ cur = Len(frames) + 1 /\ cur # BAD /\ cur \in 1..Len(php.stack)
          /\ f = pt_ptrace_build_frame(php.stack, cur)
      BY <1>4
    <2>2. RequestRight'
      BY <1>2, <2>1 DEF RequestRight
    <2>3. FramesRight'
      <3> SUFFICES ASSUME NEW i \in 1..Len(frames')
                   PROVE  frames'[i] = pt_ptrace_build_frame(php.stack, i)
        BY <1>2 DEF FramesRight
      <3>1. i \in 1..Len(frames) \/ i = Len(frames) + 1
        BY <1>3, <1>6
      <3> QED BY <1>6, <2>1, <3>1 DEF FramesRight
    <2>4. cur' = IF cur < Len(php.stack) THEN cur + 1 ELSE NIL
      BY <1>1, <2>1, PeekPrev
    <2>5. cur' = IF Len(frames') = count' THEN NIL ELSE Len(frames') + 1
      BY <1>2, <1>3, <1>6, <2>1, <2>4
    <2> QED BY <1>2, <2>1, <2>2, <2>3, <2>5
  <1> QED BY <1>2, <1>7, <1>8, ReadingKeeps DEF StatusInv

LEMMA StatusBuiltKeeps ==
    ASSUME StatusInv, StatusBuilt
    PROVE  StatusInv'
  <1>1. /\ spc = "frames" /\ spc' = "display" /\ (Len(frames) = count \/ cur = NIL)
        /\ php' = php /\ ret' = ret /\ cur' = cur /\ root' = root /\ count' = count
        /\ frames' = frames /\ req' = req
        /\ frozen' = frozen /\ peeked' = peeked /\ shown' = shown
    BY DEF StatusBuilt, readVars, histVars
  <1>2. StatusShape'
    BY <1>1 DEF StatusInv, StatusShape
  <1>3. Walk'
    <2> SUFFICES ASSUME php.how = "traced", Covered
                 PROVE  Len(frames') = Len(php.stack) /\ FramesRight' /\ RequestRight'
      BY <1>1 DEF Walk, Covered
    <2>1. /\ count = Len(php.stack) /\ FramesRight /\ RequestRight
          /\ cur = IF Len(frames) = count THEN NIL ELSE Len(frames) + 1
      BY <1>1 DEF StatusInv, Walk
    <2>2. Len(frames) \in Nat
      BY DEF StatusInv, StatusShape
    <2>3. Len(frames) = count
      BY <1>1, <2>1, <2>2 DEF NIL
    <2> QED BY <1>1, <2>1, <2>3 DEF FramesRight, RequestRight
  <1> QED BY <1>1, <1>2, <1>3, ReadingKeeps DEF StatusInv

LEMMA DisplayKeeps ==
    ASSUME StatusInv, DisplayStatus
    PROVE  StatusInv'
  <1>1. /\ spc = "display" /\ spc' = "detach" /\ shown' = "ptrace" /\ ret' = 0
        /\ php' = php /\ cur' = cur /\ root' = root /\ count' = count
        /\ frames' = frames /\ req' = req /\ frozen' = frozen /\ peeked' = peeked
    BY DEF DisplayStatus, readVars
  <1>2. StatusShape'
    BY <1>1 DEF StatusInv, StatusShape
  <1>3. WhoseProcess' /\ Frozen' /\ StatusTruthful'
    BY <1>1 DEF StatusInv, WhoseProcess, Frozen, StatusTruthful
  <1>4. Walk'
    <2> SUFFICES ASSUME php.how = "traced", Covered
                 PROVE  Len(frames') = Len(php.stack) /\ FramesRight' /\ RequestRight'
      BY <1>1 DEF Walk, Covered
    <2>1. Len(frames) = Len(php.stack) /\ FramesRight /\ RequestRight
      BY <1>1 DEF StatusInv, Walk
    <2> QED BY <1>1, <2>1 DEF FramesRight, RequestRight
  <1> QED BY <1>2, <1>3, <1>4 DEF StatusInv

\* The detach tells whether the process was there until the end: if it was,
\* what was shown is what it was frozen at.
LEMMA DetachKeeps ==
    ASSUME StatusInv, pt_ptrace_detach
    PROVE  StatusInv'
  <1>1. /\ spc = "detach" /\ spc' = "end" /\ ret' = IF php.how = "traced" THEN ret ELSE -1
        /\ php' = IF php.how = "traced" THEN [php EXCEPT !.how = "run", !.mine = FALSE]
                  ELSE php
        /\ cur' = cur /\ root' = root /\ count' = count /\ frames' = frames /\ req' = req
        /\ frozen' = frozen /\ peeked' = peeked /\ shown' = shown
    BY DEF pt_ptrace_detach, Peekable, Detached, readVars, histVars
  <1>2. /\ StatusShape' /\ php'.version = php.version
        /\ php'.how = IF php.how = "traced" THEN "run" ELSE php.how
    BY <1>1 DEF StatusInv, StatusShape
  <1>3. WhoseProcess'
    BY <1>1, <1>2 DEF StatusInv, StatusShape, WhoseProcess
  <1>4. Frozen' /\ Walk'
    BY <1>1 DEF Frozen, Walk
  <1>5. StatusTruthful'
    <2> SUFFICES ASSUME ret' = 0
                 PROVE  /\ shown # "nothing"
                        /\ shown = "ptrace" /\ Covered =>
                             /\ frames = [i \in DOMAIN frozen[1] |->
                                            pt_ptrace_build_frame(frozen[1], i)]
                             /\ SameButArgv(req, request_build(frozen[2], PT_FRAME_STACK))
      BY <1>1, <1>2 DEF StatusTruthful, Covered
    <2>1. php.how = "traced" /\ ret = 0
      BY <1>1
    <2>2. shown = "ptrace" /\ frozen = <<php.stack, php.sg>>
      BY <1>1, <2>1 DEF StatusInv, WhoseProcess, Frozen
    <2>3. ASSUME Covered
          PROVE  /\ frames = [i \in DOMAIN php.stack |-> pt_ptrace_build_frame(php.stack, i)]
                 /\ RequestRight
      <3>1. Len(frames) = Len(php.stack) /\ FramesRight /\ RequestRight
        BY <1>1, <2>1, <2>3 DEF StatusInv, Walk
      <3>2. frames \in Seq(FrameSet) /\ DOMAIN php.stack = 1..Len(php.stack)
        BY StackFacts DEF StatusInv, StatusShape
      <3>3. frames = [i \in 1..Len(frames) |-> frames[i]]
        BY <3>2
      <3> QED BY <3>1, <3>2, <3>3 DEF FramesRight
    <2> QED BY <2>2, <2>3 DEF RequestRight
  <1> QED BY <1>2, <1>3, <1>4, <1>5 DEF StatusInv

LEMMA StatusStepKeeps ==
    ASSUME StatusInv, StatusStep
    PROVE  StatusInv'
  BY BeforeAttachKeeps, InfoKeeps, AttachKeeps, FetchKeeps, RequestKeeps, StackDepthKeeps,
     StackDepthKnownKeeps, BuildFrameKeeps, StatusBuiltKeeps, DisplayKeeps, DetachKeeps
  DEF StatusStep

-----------------------------------------------------------------------------
(* The run *)

\* parse_args has accepted the line before anything else happens, the file is
\* mapped before the command runs, and only the command asks for a status.
Course ==
    /\ lpc \in {"parse", "ctrl", "listen", "trace", "status", "close",
                "exited", "killed"}
    /\ lpc \in {"ctrl", "listen", "trace", "status", "close"} => ppc = "parsed"
    /\ lpc \in {"listen", "trace", "status", "close"} => mpc[tool] = "mapped"
    /\ lpc # "status" => spc \in {"idle", "end", "killed"}
    /\ lpc \in {"parse", "ctrl", "listen", "trace"} => spc = "idle"
    /\ lpc = "status" => spc # "killed"

LaunchInv == CliInv /\ FileInv /\ StatusInv /\ Course

LEMMA StatusUnchanged ==
    ASSUME StatusInv, UNCHANGED statusVars
    PROVE  StatusInv'
  BY DEF StatusInv, StatusShape, WhoseProcess, Frozen, Walk, StatusTruthful, Covered,
         FramesRight, RequestRight, statusVars

LEMMA LaunchInvInit == Init => LaunchInv
  BY CliInvInit, FileInvInit, StatusInvInit
  DEF Init, LaunchInv, Course, StatusInit

\* The end of the process, wherever it is not reading one.
LEMMA ExitKeeps ==
    ASSUME LaunchInv, NEW how \in {"exited", "killed"}, Exit(how),
           how = "exited" => spc \in {"idle", "end", "killed"}
    PROVE  LaunchInv'
  <1>1. CliInv'
    <2>1. UNCHANGED cliVars
      BY DEF Exit
    <2> QED BY <2>1, ParseArgsKeeps DEF LaunchInv
  <1>2. FileInv'
    <2>1. [\E p \in Mappers : FileStep(p)]_fileVars
      BY LaunchAssumption DEF Exit, FileStep
    <2> QED BY <2>1, FileInvStep DEF LaunchInv
  <1>3. StatusInv'
    BY ToolGoneKeeps DEF LaunchInv, Exit, readVars, histVars
  <1>4. Course'
    BY DEF LaunchInv, Course, Exit
  <1> QED BY <1>1, <1>2, <1>3, <1>4 DEF LaunchInv

LEMMA LaunchInvStep ==
    ASSUME LaunchInv, [Next]_vars
    PROVE  LaunchInv'
  <1>0. CliInv /\ FileInv /\ StatusInv /\ Course
    BY DEF LaunchInv
  <1>1. ASSUME UNCHANGED cliVars PROVE CliInv'
    BY <1>0, <1>1, ParseArgsKeeps
  <1>2. ASSUME UNCHANGED fileVars PROVE FileInv'
    BY <1>0, <1>2, FileInvStep
  <1>3. ASSUME UNCHANGED statusVars PROVE StatusInv' /\ spc' = spc
    BY <1>0, <1>3, StatusUnchanged DEF statusVars
  <1>4. ASSUME UNCHANGED fileVars PROVE mpc' = mpc
    BY <1>4 DEF fileVars
  <1>5. ASSUME UNCHANGED cliVars PROVE ppc' = ppc
    BY <1>5 DEF cliVars
  <1>6. CASE ParseStep
    <2>1. Course'
      BY <1>0, <1>3, <1>4, <1>6 DEF ParseStep, Course
    <2> QED BY <1>0, <1>2, <1>3, <1>6, <2>1, ParseArgsKeeps DEF ParseStep, LaunchInv
  <1>7. CASE ParseEnded
    <2>1. Course'
      BY <1>0, <1>3, <1>4, <1>5, <1>7 DEF ParseEnded, Course
    <2> QED BY <1>1, <1>2, <1>3, <1>7, <2>1 DEF ParseEnded, LaunchInv
  <1>8. CASE ParseExits \/ CreateCtrlFailed \/ ListenExits \/ Close
    <2>1. Exit("exited") /\ spc \in {"idle", "end", "killed"}
      BY <1>0, <1>8 DEF ParseExits, CreateCtrlFailed, ListenExits, Close, Course
    <2> QED BY <2>1, ExitKeeps
  <1>9. CASE CreateCtrl
    <2>1. FileInv'
      BY <1>0, <1>9, FileInvStep, LaunchAssumption DEF CreateCtrl, FileStep
    <2>2. Course'
      BY <1>0, <1>3, <1>5, <1>9 DEF CreateCtrl, Course
    <2> QED BY <1>1, <1>3, <1>9, <2>1, <2>2 DEF CreateCtrl, LaunchInv
  <1>10. CASE Listen
    <2>1. /\ lpc = "listen" /\ UNCHANGED cliVars /\ UNCHANGED fileVars
          /\ \/ lpc' \in {"trace", "close"} /\ UNCHANGED statusVars
             \/ lpc' = "status" /\ StatusMain(clictx.ptrace)
      BY <1>10 DEF Listen
    <2>2. StatusInv' /\ (spc' = spc \/ (lpc' = "status" /\ spc' \in {"main", "info"}))
      BY <1>0, <1>3, <2>1, BeforeAttachKeeps DEF StatusMain
    <2>3. Course'
      BY <1>0, <1>4, <1>5, <2>1, <2>2 DEF Course
    <2> QED BY <1>1, <1>2, <2>1, <2>2, <2>3 DEF LaunchInv
  <1>11. CASE StatusRuns
    <2>1. /\ lpc = "status" /\ UNCHANGED cliVars /\ UNCHANGED fileVars
          /\ \/ spc = "end" /\ lpc' = "close" /\ UNCHANGED statusVars
             \/ StatusStep /\ lpc' = lpc
      BY <1>11 DEF StatusRuns
    <2>2. StatusInv'
      BY <1>0, <1>3, <2>1, StatusStepKeeps
    <2>3. StatusStep => spc' # "killed"
      BY <1>0, <2>1 DEF StatusStep, StatusExt, ExtAnswer, ExtReceived, ExtReturns,
           get_php_info, get_php_info_failed, Fails, pt_ptrace_preset, pt_ptrace_preset_failed, pt_ptrace_attach,
           pt_ptrace_attach_failed, pt_ptrace_fetch_current_ex, AfterFetch,
           pt_ptrace_build_request, StackDepth, StackDepthKnown, BuildFrame, StatusBuilt,
           DisplayStatus, pt_ptrace_detach
    <2>4. Course'
      BY <1>0, <1>3, <1>4, <1>5, <2>1, <2>3 DEF Course
    <2> QED BY <1>1, <1>2, <2>1, <2>2, <2>4 DEF LaunchInv
  <1>12. CASE TraceEnds
    <2>1. Course'
      BY <1>0, <1>3, <1>4, <1>5, <1>12 DEF TraceEnds, Course
    <2> QED BY <1>1, <1>2, <1>3, <1>12, <2>1 DEF TraceEnds, LaunchInv
  <1>13. CASE KillTool
    BY <1>13, ExitKeeps DEF KillTool
  <1>14. ASSUME NEW p \in Mappers, MapperStep(p) PROVE LaunchInv'
    <2>1. FileInv'
      BY <1>0, <1>14, FileInvStep DEF MapperStep
    <2>2. mpc'[tool] = mpc[tool]
      BY <1>0, <1>14, LaunchAssumption
      DEF MapperStep, FileStep, CreateStep, CreateOpen, CreateOpenFailed, SetSize,
          SetSizeFailed, MapFd, MapFdFailed, CreateFails, Unmap, FileInv, FileTypeOK
    <2>3. Course'
      BY <1>0, <1>3, <1>5, <1>14, <2>2 DEF MapperStep, Course
    <2> QED BY <1>1, <1>3, <1>14, <2>1, <2>3 DEF MapperStep, LaunchInv
  <1>15. CASE PhpStep
    <2>1. UNCHANGED cliVars /\ UNCHANGED fileVars /\ lpc' = lpc
          /\ (PhpRuns \/ PhpStops \/ PhpDies)
      BY <1>15 DEF PhpStep
    <2>2. StatusInv' /\ spc' = spc
      BY <1>0, <2>1, PhpRunsKeeps, PhpStopsKeeps, PhpDiesKeeps
      DEF PhpRuns, PhpStops, PhpDies
    <2>3. Course'
      BY <1>0, <1>4, <1>5, <2>1, <2>2 DEF Course
    <2> QED BY <1>1, <1>2, <2>1, <2>2, <2>3 DEF LaunchInv
  <1>16. CASE UNCHANGED vars
    <2>1. Course'
      BY <1>0, <1>16 DEF vars, Course, cliVars, fileVars, statusVars
    <2> QED BY <1>1, <1>2, <1>3, <1>16, <2>1 DEF vars, LaunchInv
  <1> QED BY <1>6, <1>7, <1>8, <1>9, <1>10, <1>11, <1>12, <1>13, <1>14, <1>15, <1>16
          DEF Next, ToolStep

LEMMA LaunchInvariant == Spec => []LaunchInv
  BY LaunchInvInit, LaunchInvStep, PTL DEF Spec

\* The types, for every command line: pid and the limits are in their ranges
\* wherever parse_args has not given up.
THEOREM LaunchTypes == Spec => []TypeOK
  <1>1. LaunchInv => TypeOK
    <2> SUFFICES ASSUME LaunchInv PROVE TypeOK
      OBVIOUS
    <2>1. CliTypeOK /\ FileTypeOK
      BY CliInvParsed DEF LaunchInv, FileInv
    <2>2. StatusTypeOK
      BY DEF LaunchInv, StatusInv, StatusShape, StatusTypeOK
    <2> QED BY <2>1, <2>2 DEF LaunchInv, Course, TypeOK
  <1> QED BY <1>1, LaunchInvariant, PTL

\* Whatever options a line has, in whatever order and however often: what
\* parse_args hands to main() is what the line says.
THEOREM LineIsRead == Spec => []ParsedMeaning
  <1>1. LaunchInv => ParsedMeaning
    BY CliInvParsed DEF LaunchInv
  <1> QED BY <1>1, LaunchInvariant, PTL

\* A line is rejected for something that is wrong with it or for a stale errno,
\* and none with something wrong gets through.
THEOREM LineIsJudged == Spec => []RejectedForCause
  <1>1. LaunchInv => RejectedForCause
    BY CliInvParsed DEF LaunchInv
  <1> QED BY <1>1, LaunchInvariant, PTL

\* The byte of the process that a command names lies in the mapping, whatever
\* number -p was given.
THEOREM ByteInside == Spec => []ControlByteInside
  <1>1. LaunchInv => ControlByteInside
    <2> SUFFICES ASSUME LaunchInv, lpc \in {"trace", "status"},
                        clictx.pid \notin {PT_PID_INVALID, PT_PID_ALL}
                 PROVE  clictx.pid \in 0..(seg[tool] - 1)
      BY DEF ControlByteInside
    <2>1. ppc = "parsed" /\ mpc[tool] = "mapped"
      BY DEF LaunchInv, Course
    <2>2. clictx.pid \in 0..PidMax
      BY <2>1 DEF LaunchInv, CliInv, Shape
    <2>3. seg[tool] = PidMax + 1
      BY <2>1, LaunchAssumption DEF LaunchInv, FileInv, SizedBeforeMapped
    <2> QED BY <2>2, <2>3, CliAssumption
  <1> QED BY <1>1, LaunchInvariant, PTL

\* What a status by ptrace shows, when it succeeds, is the stack of the moment
\* the process was stopped at, and its request but for the strings of argv,
\* whenever the process stops, runs or dies, if its version of PHP has a preset.
THEOREM StatusIsTruthful == Spec => []StatusTruthful
  <1>1. LaunchInv => StatusTruthful
    BY DEF LaunchInv, StatusInv
  <1> QED BY <1>1, LaunchInvariant, PTL

\* A process that was seen stopped runs again when the status has ended.
THEOREM ProcessResumed == Spec => []Resumed
  <1>1. LaunchInv => Resumed
    BY DEF LaunchInv, StatusInv, StatusShape, WhoseProcess, Resumed
  <1> QED BY <1>1, LaunchInvariant, PTL
=============================================================================
