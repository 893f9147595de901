------------------------------ MODULE CtrlFile ------------------------------
(***************************************************************************)
(* How the control file comes to be mapped (common/trace_mmap.c, called    *)
(* through pt_ctrl_create by the extension's MINIT and by the tool's       *)
(* main): open, ftruncate, mmap, each a step of its own, for any number of *)
(* processes that start, fail, end or die at the same time.                *)
(***************************************************************************)
EXTENDS Naturals

CONSTANTS Mappers,      \* the processes that use the file
          CtrlSize,     \* PT_CTRL_SIZE
          MaxFiles      \* bound: files ever created under the name

ASSUME CtrlFileAssumption == CtrlSize \in Nat \ {0} /\ MaxFiles \in Nat \ {0}

VARIABLES
    path,       \* the file the name leads to, 0 if there is none
    created,    \* files created so far
    fsize,      \* fsize[f]: st_size
    mpc,        \* mpc[p]: "out", "opened", "sized", "mapped", "failed"
    fd,         \* fd[p]: the file p has open or mapped
    seg,        \* seg[p]: size of the segment, 0 if there is none
    unlinked    \* a failing pt_mmap_create has removed the name

fileVars == <<path, created, fsize, mpc, fd, seg, unlinked>>

Files == 1..MaxFiles

FileTypeOK ==
    /\ path \in 0..created /\ created \in 0..MaxFiles
    /\ fsize \in [Files -> {0, CtrlSize}]
    /\ mpc \in [Mappers -> {"out", "opened", "sized", "mapped", "failed"}]
    /\ fd \in [Mappers -> 0..created]
    /\ seg \in [Mappers -> {0, CtrlSize}]
    /\ unlinked \in BOOLEAN

FileInit ==
    /\ path = 0 /\ created = 0 /\ unlinked = FALSE
    /\ fsize = [f \in Files |-> 0]
    /\ mpc = [p \in Mappers |-> "out"]
    /\ fd = [p \in Mappers |-> 0]
    /\ seg = [p \in Mappers |-> 0]

\* open(file, O_RDWR | O_CREAT): a file that is there is taken as it is.
CreateOpen(p) ==
    /\ mpc[p] = "out"
    /\ IF path = 0
       THEN /\ created < MaxFiles
            /\ created' = created + 1
            /\ path' = created + 1
            /\ fd' = [fd EXCEPT ![p] = created + 1]
       ELSE /\ fd' = [fd EXCEPT ![p] = path]
            /\ UNCHANGED <<created, path>>
    /\ mpc' = [mpc EXCEPT ![p] = "opened"]
    /\ UNCHANGED <<fsize, seg, unlinked>>

CreateOpenFailed(p) ==
    /\ mpc[p] = "out"
    /\ mpc' = [mpc EXCEPT ![p] = "failed"]
    /\ UNCHANGED <<path, created, fsize, fd, seg, unlinked>>

\* ftruncate(fd, size): all processes ask for the same size, so the bytes of
\* a file that has it stay.
SetSize(p) ==
    /\ mpc[p] = "opened"
    /\ fsize' = [fsize EXCEPT ![fd[p]] = CtrlSize]
    /\ mpc' = [mpc EXCEPT ![p] = "sized"]
    /\ UNCHANGED <<path, created, fd, seg, unlinked>>

\* close(fd); unlink(file), whichever file has the name by now.
CreateFails(p) ==
    /\ mpc' = [mpc EXCEPT ![p] = "failed"]
    /\ fd' = [fd EXCEPT ![p] = 0]
    /\ path' = 0
    /\ unlinked' = TRUE
    /\ UNCHANGED <<created, fsize, seg>>

SetSizeFailed(p) == mpc[p] = "opened" /\ CreateFails(p)

\* pt_mmap_open_fd: the file must be as large as the segment.
MapFd(p) ==
    /\ mpc[p] = "sized"
    /\ fsize[fd[p]] >= CtrlSize
    /\ seg' = [seg EXCEPT ![p] = CtrlSize]
    /\ mpc' = [mpc EXCEPT ![p] = "mapped"]
    /\ UNCHANGED <<path, created, fsize, fd, unlinked>>

\* fstat or mmap fails, or the file is too short.
MapFdFailed(p) == mpc[p] = "sized" /\ CreateFails(p)

\* Mutant: the last user removes the file.
UnlinksAtClose(p) == 0

\* pt_mmap_close leaves the file where it is.
PathAfterClose(p) == path

\* pt_mmap_close, and the end of a process at any other place.
Unmap(p) ==
    /\ mpc[p] # "out"
    /\ mpc' = [mpc EXCEPT ![p] = "out"]
    /\ fd' = [fd EXCEPT ![p] = 0]
    /\ seg' = [seg EXCEPT ![p] = 0]
    /\ path' = PathAfterClose(p)
    /\ UNCHANGED <<created, fsize, unlinked>>

CreateStep(p) ==
    \/ CreateOpen(p) \/ CreateOpenFailed(p)
    \/ SetSize(p) \/ SetSizeFailed(p)
    \/ MapFd(p) \/ MapFdFailed(p)

FileStep(p) == CreateStep(p) \/ Unmap(p)

\* The control file by itself, with nothing said about who its users are.
FileSpec == FileInit /\ [][\E p \in Mappers : FileStep(p)]_fileVars

-----------------------------------------------------------------------------
\* Whoever has the control file mapped has the file the name leads to, at its
\* full size: a byte that a tool switches on is the byte the process reads.
\* Only a pt_mmap_create that failed (and took the shared file's name away,
\* trace_mmap.c:93, 100) can split the processes.
OneControlFile ==
    \A p \in Mappers :
        mpc[p] = "mapped" =>
            /\ fsize[fd[p]] = seg[p]
            /\ unlinked \/ fd[p] = path
=============================================================================
