------------------------------ MODULE Executor ------------------------------
(***************************************************************************)
(* The timing of frames in pt_execute_core (extension/trace.c): inclusive  *)
(* time from the clock, exclusive time by way of exc_time_table, which has *)
(* one cell per nesting level, is allocated once per process and lives on  *)
(* across requests and tracing sessions.                                   *)
(*                                                                         *)
(* The cell at level l collects the inclusive time of the traced frames    *)
(* that ended at level l; a traced frame ending at level l - 1 subtracts   *)
(* it and sets it back to 0.  Whether a frame is traced is decided when it *)
(* is entered (attached or not, filter match or not) and may differ from   *)
(* frame to frame.  A bailout unwinds through the same code as a return.   *)
(***************************************************************************)
EXTENDS Integers

CONSTANTS
    ExcLen,     \* PTG(exc_time_len), 4096 in PHP_MINIT
    MaxDepth,   \* BOUND: depth of the PHP call stack
    MaxClock    \* BOUND: the clock, in ticks

ASSUME ExecutorAssumption ==
    /\ ExcLen \in Nat \ {0}
    /\ MaxDepth \in Nat \ {0}
    /\ MaxClock \in Nat

VARIABLES
    clock,      \* pt_time_usec()
    level,      \* PTG(level)
    traced,     \* traced[l]: the local dotrace of the frame at level l
    began,      \* began[l]: frame.inc_time between entry and exit
    exc,        \* exc[l]: PTG(exc_time_table)[l]
    frame,      \* the times in the exit frame sent last
    kids,       \* history: kids[l] = inclusive time of the traced callees of
                \* the open traced frame at level l
    orphan      \* history: a traced frame was entered below an untraced one

vars == <<clock, level, traced, began, exc, frame, kids, orphan>>

Levels == 1..MaxDepth
Cells == 0..(ExcLen - 1)

TypeOK ==
    /\ clock \in Nat
    /\ level \in 0..MaxDepth
    /\ traced \in [Levels -> BOOLEAN]
    /\ began \in [Levels -> Nat]
    /\ exc \in [Cells -> Nat]
    /\ frame \in [level : 0..MaxDepth, inc_time : Nat, exc_time : Int, kids : Nat]
    /\ kids \in [Levels -> Nat]
    /\ orphan \in BOOLEAN

\* PHP_MINIT: the table comes from calloc().
Init ==
    /\ clock = 0
    /\ level = 0
    /\ traced = [l \in Levels |-> FALSE]
    /\ began = [l \in Levels |-> 0]
    /\ exc = [l \in Cells |-> 0]
    /\ frame = [level |-> 0, inc_time |-> 0, exc_time |-> 0, kids |-> 0]
    /\ kids = [l \in Levels |-> 0]
    /\ orphan = FALSE

\* Time passes; gettimeofday() is taken to be monotonic.
Tick ==
    /\ clock < MaxClock
    /\ clock' = clock + 1
    /\ UNCHANGED <<level, traced, began, exc, frame, kids, orphan>>

\* pt_execute_core up to the original function; dotrace is what filter_frame
\* returned for this call.
Call(dotrace) ==
    /\ level < MaxDepth
    /\ level' = level + 1
    /\ traced' = [traced EXCEPT ![level + 1] = dotrace]
    /\ began' = [began EXCEPT ![level + 1] = IF dotrace THEN clock ELSE 0]
    /\ orphan' = (orphan \/ (dotrace /\ level > 0 /\ ~traced[level]))
    /\ UNCHANGED <<clock, exc, frame, kids>>

\* Mutants: the table is one cell shorter; the operands are swapped.
InShorterTable(l) == l + 2 < ExcLen
SwappedTime(l) == began[l] - clock

\* Calculate exclusive time.  A frame outside of the table keeps the 0 that
\* frame_build gave it.
InTable(l) == l + 1 < ExcLen
inc_time(l) == clock - began[l]
exc_time(l) == IF InTable(l) THEN inc_time(l) - exc[l + 1] ELSE 0

\* Mutant of Charged: the cell that was subtracted is not set back.
ChargedNotReset(l) ==
    [k \in Cells |-> IF InTable(l) /\ k = l THEN exc[k] + inc_time(l) ELSE exc[k]]

Charged(l) ==
    [k \in Cells |-> IF ~InTable(l) THEN exc[k]
                     ELSE IF k = l THEN exc[k] + inc_time(l)
                     ELSE IF k = l + 1 THEN 0
                     ELSE exc[k]]

\* pt_execute_core after the original function returned to a traced frame.
ReturnTraced ==
    /\ level > 0
    /\ traced[level]
    /\ exc' = Charged(level)
    /\ frame' = [level |-> level, inc_time |-> inc_time(level),
                 exc_time |-> exc_time(level), kids |-> kids[level]]
    /\ kids' = [l \in Levels |-> IF l = level THEN 0
                                 ELSE IF l = level - 1 /\ traced[l]
                                 THEN kids[l] + inc_time(level)
                                 ELSE kids[l]]
    /\ traced' = [traced EXCEPT ![level] = FALSE]
    /\ began' = [began EXCEPT ![level] = 0]
    /\ level' = level - 1
    /\ UNCHANGED <<clock, orphan>>

\* The same for a frame that is not traced: only the level is kept.
ReturnUntraced ==
    /\ level > 0
    /\ ~traced[level]
    /\ level' = level - 1
    /\ UNCHANGED <<clock, traced, began, exc, frame, kids, orphan>>

Next == Tick \/ (\E b \in BOOLEAN : Call(b)) \/ ReturnTraced \/ ReturnUntraced

Spec == Init /\ [][Next]_vars

-----------------------------------------------------------------------------
\* The exclusive time of a frame is its inclusive time less that of the traced
\* frames it called, and never negative, no matter how many calls, requests
\* and sessions the table has served before: as long as no traced frame was
\* ever entered below an untraced one.  One level short of the end of the
\* table the callees are no longer charged, below it nothing is.
ExcExact ==
    ~orphan =>
        /\ frame.exc_time >= 0
        /\ frame.level + 2 < ExcLen => frame.exc_time = frame.inc_time - frame.kids
        /\ frame.level + 2 = ExcLen => frame.exc_time = frame.inc_time
        /\ frame.level + 2 > ExcLen => frame.exc_time = 0

\* The table holds what the open frames' callees cost and nothing else: with
\* no frame open, every cell that a later frame will subtract is 0 again.
TableClean ==
    ~orphan /\ level = 0 => \A k \in Cells : k >= 2 => exc[k] = 0

\* "exclusive wall time": a duration.
ExcNonNegative == frame.exc_time >= 0

-----------------------------------------------------------------------------
(* The inductive invariant *)

\* The clock never ran backwards past the start of a frame.
BeganPast == \A l \in Levels : began[l] <= clock

\* The cell below an open frame holds what its callees cost; the others are 0.
CellsExact ==
    \A k \in Cells : k >= 2 =>
        exc[k] = IF k - 1 <= level /\ k + 1 < ExcLen THEN kids[k - 1] ELSE 0

\* Only open traced frames are charged for callees.
OnlyTracedCharged ==
    \A l \in Levels : (l > level => ~traced[l]) /\ (~traced[l] => kids[l] = 0)

\* The caller of a traced frame is traced.
TracedNested == \A l \in Levels : l > 1 /\ traced[l] => traced[l - 1]

\* The callees of a frame ran, one after the other, since it began: up to
\* now, and up to the entry of the traced callee that is open.
KidsFit ==
    \A l \in Levels : traced[l] =>
        /\ began[l] + kids[l] <= clock
        /\ l > 1 => began[l - 1] + kids[l - 1] <= began[l]

ExcInv ==
    /\ BeganPast
    /\ ~orphan => CellsExact /\ OnlyTracedCharged /\ TracedNested /\ KidsFit
=============================================================================
