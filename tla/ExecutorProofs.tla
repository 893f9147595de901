--------------------------- MODULE ExecutorProofs ---------------------------
(***************************************************************************)
(* Exclusive times are exact for every table length, stack depth and       *)
(* history of calls (Executor), by the inductive invariant IndInv.         *)
(***************************************************************************)
EXTENDS Executor, TLAPS

IndInv == TypeOK /\ ExcInv /\ ExcExact

\* Charged leaves a table of naturals and touches two cells at most: what
\* pt_execute_core does to exc_time_table when a traced frame ends.
LEMMA ChargedCells ==
    ASSUME TypeOK, BeganPast, NEW l \in Levels
    PROVE  /\ inc_time(l) \in Nat
           /\ Charged(l) \in [Cells -> Nat]
           /\ \A k \in Cells : k # l /\ k # l + 1 => Charged(l)[k] = exc[k]
           /\ InTable(l) => /\ l \in Cells /\ l + 1 \in Cells
                            /\ Charged(l)[l] = exc[l] + inc_time(l)
                            /\ Charged(l)[l + 1] = 0
           /\ ~InTable(l) => Charged(l) = exc
<1>1. inc_time(l) \in Nat
  BY DEF TypeOK, BeganPast, inc_time
<1>2. l \in Nat /\ l >= 1
  BY ExecutorAssumption DEF Levels
<1>3. \A k \in Cells : exc[k] \in Nat
  BY DEF TypeOK
<1>4. Charged(l) \in [Cells -> Nat]
  BY <1>1, <1>2, <1>3 DEF Charged
<1>5. \A k \in Cells : k # l /\ k # l + 1 => Charged(l)[k] = exc[k]
  BY DEF Charged
<1>6. ASSUME InTable(l)
      PROVE  /\ l \in Cells /\ l + 1 \in Cells
             /\ Charged(l)[l] = exc[l] + inc_time(l)
             /\ Charged(l)[l + 1] = 0
  <2>1. l \in Cells /\ l + 1 \in Cells
    BY <1>2, <1>6, ExecutorAssumption DEF InTable, Cells
  <2>2. QED
    BY <1>2, <1>6, <2>1 DEF Charged
<1>7. ~InTable(l) => Charged(l) = exc
  BY DEF Charged, TypeOK
<1>8. QED
  BY <1>1, <1>4, <1>5, <1>6, <1>7

\* The invariant holds of the table that calloc() returns in PHP_MINIT.
LEMMA InitIndInv == Init => IndInv
<1>1. SUFFICES ASSUME Init PROVE IndInv
  OBVIOUS
<1>2. TypeOK
  <2>1. /\ traced \in [Levels -> BOOLEAN] /\ orphan \in BOOLEAN
        /\ began \in [Levels -> Nat] /\ kids \in [Levels -> Nat]
        /\ exc \in [Cells -> Nat]
    BY <1>1 DEF Init
  <2>2. /\ clock \in Nat /\ level \in 0..MaxDepth
        /\ frame \in [level : 0..MaxDepth, inc_time : Nat, exc_time : Int,
                      kids : Nat]
    BY <1>1, ExecutorAssumption DEF Init
  <2>3. QED
    BY <2>1, <2>2 DEF TypeOK
<1>3. BeganPast /\ OnlyTracedCharged /\ TracedNested /\ KidsFit
  BY <1>1, ExecutorAssumption
     DEF Init, BeganPast, OnlyTracedCharged, TracedNested, KidsFit, Levels
<1>4. CellsExact
  BY <1>1, ExecutorAssumption DEF Init, CellsExact, Cells, Levels
<1>5. ExcExact
  BY <1>1, ExecutorAssumption DEF Init, ExcExact
<1>6. QED
  BY <1>2, <1>3, <1>4, <1>5 DEF IndInv, ExcInv

\* Time passing keeps the invariant.
LEMMA TickIndInv == IndInv /\ Tick => IndInv'
<1>1. SUFFICES ASSUME IndInv, Tick PROVE IndInv'
  OBVIOUS
<1>2. TypeOK'
  BY <1>1 DEF IndInv, TypeOK, Tick
<1>3. ExcExact'
  BY <1>1 DEF IndInv, ExcExact, Tick
<1>4. BeganPast'
  BY <1>1 DEF IndInv, TypeOK, ExcInv, BeganPast, Tick
<1>5. ASSUME ~orphan' PROVE (CellsExact /\ OnlyTracedCharged /\ TracedNested)'
  BY <1>1, <1>5
     DEF IndInv, ExcInv, CellsExact, OnlyTracedCharged, TracedNested, Tick
<1>6. ASSUME ~orphan' PROVE KidsFit'
  <2>1. KidsFit
    BY <1>1, <1>6 DEF IndInv, ExcInv, Tick
  <2>2. \A l \in Levels : began[l] \in Nat /\ kids[l] \in Nat
    BY <1>1 DEF IndInv, TypeOK
  <2>3. clock \in Nat /\ clock' = clock + 1
    BY <1>1 DEF IndInv, TypeOK, Tick
  <2>4. QED
    BY <1>1, <2>1, <2>2, <2>3 DEF KidsFit, Tick
<1>7. QED
  BY <1>2, <1>3, <1>4, <1>5, <1>6 DEF IndInv, ExcInv

\* Entering a frame keeps the invariant: the new frame has cost nothing yet.
LEMMA CallIndInv == ASSUME NEW b \in BOOLEAN PROVE IndInv /\ Call(b) => IndInv'
<1>1. SUFFICES ASSUME IndInv, Call(b) PROVE IndInv'
  OBVIOUS
<1>2. /\ level \in Nat /\ level + 1 \in Levels
      /\ level' = level + 1
      /\ level > 0 => level \in Levels
  BY <1>1, ExecutorAssumption DEF IndInv, TypeOK, Call, Levels
<1>3. TypeOK'
  BY <1>1, <1>2, ExecutorAssumption DEF IndInv, TypeOK, Call, Levels
<1>4. ExcExact'
  BY <1>1 DEF IndInv, ExcExact, Call
<1>5. BeganPast'
  BY <1>1, <1>2 DEF IndInv, TypeOK, ExcInv, BeganPast, Call
<1>6. ASSUME ~orphan'
      PROVE  (CellsExact /\ OnlyTracedCharged /\ TracedNested /\ KidsFit)'
  <2>1. /\ ~orphan /\ CellsExact /\ OnlyTracedCharged
        /\ TracedNested /\ KidsFit
    BY <1>1, <1>6 DEF IndInv, ExcInv, Call
  <2>2. kids[level + 1] = 0 /\ ~traced[level + 1]
    BY <1>2, <2>1 DEF OnlyTracedCharged
  <2>3. b /\ level > 0 => traced[level]
    BY <1>1, <1>6 DEF Call
  <2>4. /\ traced' = [traced EXCEPT ![level + 1] = b]
        /\ began' = [began EXCEPT ![level + 1] = IF b THEN clock ELSE 0]
        /\ kids' = kids /\ exc' = exc /\ clock' = clock
    BY <1>1 DEF Call
  <2>5. /\ traced \in [Levels -> BOOLEAN] /\ began \in [Levels -> Nat]
        /\ kids \in [Levels -> Nat] /\ clock \in Nat
    BY <1>1 DEF IndInv, TypeOK
  <2>6. \A l \in Levels : l \in Nat /\ l >= 1 /\ (l > 1 => l - 1 \in Levels)
    BY ExecutorAssumption DEF Levels
  <2>7. CellsExact'
    <3>1. SUFFICES ASSUME NEW k \in Cells, k >= 2
                   PROVE  exc'[k] = IF k - 1 <= level' /\ k + 1 < ExcLen
                                    THEN kids'[k - 1] ELSE 0
      BY DEF CellsExact
    <3>2. k \in Nat
      BY ExecutorAssumption DEF Cells
    <3>3. exc[k] = IF k - 1 <= level /\ k + 1 < ExcLen THEN kids[k - 1] ELSE 0
      BY <2>1, <3>1 DEF CellsExact
    <3>4. CASE k - 1 = level + 1
      BY <1>2, <2>2, <2>4, <3>2, <3>3, <3>4
    <3>5. CASE k - 1 # level + 1
      BY <1>2, <2>4, <3>2, <3>3, <3>5, ExecutorAssumption
    <3>6. QED
      BY <3>4, <3>5
  <2>8. OnlyTracedCharged'
    <3>1. SUFFICES ASSUME NEW l \in Levels
                   PROVE  /\ l > level' => ~traced'[l]
                          /\ ~traced'[l] => kids'[l] = 0
      BY DEF OnlyTracedCharged
    <3>2. CASE l = level + 1
      BY <1>2, <2>2, <2>4, <2>6, <3>2
    <3>3. CASE l # level + 1
      <4>1. traced'[l] = traced[l]
        BY <2>4, <2>5, <3>3
      <4>2. l > level' => l > level
        BY <1>2, <2>6
      <4>3. QED
        BY <2>1, <2>4, <4>1, <4>2 DEF OnlyTracedCharged
    <3>4. QED
      BY <3>2, <3>3
  <2>9. TracedNested'
    <3>1. SUFFICES ASSUME NEW l \in Levels, l > 1, traced'[l]
                   PROVE  traced'[l - 1]
      BY DEF TracedNested
    <3>2. CASE l = level + 1
      BY <1>2, <2>3, <2>4, <2>5, <2>6, <3>1, <3>2
    <3>3. CASE l # level + 1
      <4>1. traced[l] /\ traced[l - 1]
        BY <2>1, <2>4, <2>5, <3>1, <3>3 DEF TracedNested
      <4>2. l <= level
        BY <1>2, <2>1, <2>6, <4>1 DEF OnlyTracedCharged
      <4>3. QED
        BY <1>2, <2>4, <2>5, <2>6, <4>1, <4>2
    <3>4. QED
      BY <3>2, <3>3
  <2>10. KidsFit'
    <3>1. SUFFICES ASSUME NEW l \in Levels, traced'[l]
                   PROVE  /\ began'[l] + kids'[l] <= clock'
                          /\ l > 1 => began'[l - 1] + kids'[l - 1] <= began'[l]
      BY DEF KidsFit
    <3>2. CASE l = level + 1
      <4>1. b /\ began'[l] = clock /\ kids'[l] = 0
        BY <2>2, <2>4, <2>5, <3>1, <3>2
      <4>2. ASSUME l > 1 PROVE began'[l - 1] + kids'[l - 1] <= began'[l]
        <5>1. l - 1 = level /\ level > 0 /\ traced[level] /\ level \in Levels
          BY <1>2, <2>3, <3>2, <4>1, <4>2
        <5>2. began[level] + kids[level] <= clock
          BY <2>1, <5>1 DEF KidsFit
        <5>3. began'[level] = began[level]
          BY <1>2, <2>4, <2>5, <5>1
        <5>4. QED
          BY <2>4, <4>1, <5>1, <5>2, <5>3
      <4>3. QED
        BY <2>4, <2>5, <4>1, <4>2
    <3>3. CASE l # level + 1
      <4>1. traced[l] /\ l <= level
        <5>1. traced[l]
          BY <2>4, <2>5, <3>1, <3>3
        <5>2. QED
          BY <1>2, <2>1, <2>6, <5>1 DEF OnlyTracedCharged
      <4>2. began'[l] = began[l] /\ (l > 1 => began'[l - 1] = began[l - 1])
        BY <1>2, <2>4, <2>5, <2>6, <3>3, <4>1
      <4>3. QED
        BY <2>1, <2>4, <4>1, <4>2 DEF KidsFit
    <3>4. QED
      BY <3>2, <3>3
  <2>11. QED
    BY <2>7, <2>8, <2>9, <2>10
<1>7. QED
  BY <1>3, <1>4, <1>5, <1>6 DEF IndInv, ExcInv

\* The end of an untraced frame keeps the invariant: under ~orphan it was
\* charged for nothing.
LEMMA ReturnUntracedIndInv == IndInv /\ ReturnUntraced => IndInv'
<1>1. SUFFICES ASSUME IndInv, ReturnUntraced PROVE IndInv'
  OBVIOUS
<1>2. /\ level \in Levels /\ level \in Nat /\ level - 1 \in 0..MaxDepth
      /\ level' = level - 1 /\ ~traced[level]
      /\ clock' = clock /\ traced' = traced /\ began' = began /\ exc' = exc
      /\ frame' = frame /\ kids' = kids /\ orphan' = orphan
  BY <1>1, ExecutorAssumption DEF IndInv, TypeOK, ReturnUntraced, Levels
<1>3. TypeOK' /\ ExcExact' /\ BeganPast'
  BY <1>1, <1>2 DEF IndInv, TypeOK, ExcExact, ExcInv, BeganPast
<1>4. ASSUME ~orphan'
      PROVE  (CellsExact /\ OnlyTracedCharged /\ TracedNested /\ KidsFit)'
  <2>1. CellsExact /\ OnlyTracedCharged /\ TracedNested /\ KidsFit
    BY <1>1, <1>2, <1>4 DEF IndInv, ExcInv
  <2>2. TracedNested' /\ KidsFit'
    BY <1>2, <2>1 DEF TracedNested, KidsFit
  <2>3. kids[level] = 0
    BY <1>2, <2>1 DEF OnlyTracedCharged
  <2>4. OnlyTracedCharged'
    <3>1. SUFFICES ASSUME NEW l \in Levels
                   PROVE  /\ l > level' => ~traced'[l]
                          /\ ~traced'[l] => kids'[l] = 0
      BY DEF OnlyTracedCharged
    <3>2. l > level' => l > level \/ l = level
      BY <1>2, ExecutorAssumption DEF Levels
    <3>3. QED
      BY <1>2, <2>1, <3>2 DEF OnlyTracedCharged
  <2>5. CellsExact'
    <3>1. SUFFICES ASSUME NEW k \in Cells, k >= 2
                   PROVE  exc'[k] = IF k - 1 <= level' /\ k + 1 < ExcLen
                                    THEN kids'[k - 1] ELSE 0
      BY DEF CellsExact
    <3>2. k \in Nat
      BY ExecutorAssumption DEF Cells
    <3>3. exc[k] = IF k - 1 <= level /\ k + 1 < ExcLen THEN kids[k - 1] ELSE 0
      BY <2>1, <3>1 DEF CellsExact
    <3>4. CASE k - 1 = level
      BY <1>2, <2>3, <3>2, <3>3, <3>4
    <3>5. CASE k - 1 # level
      BY <1>2, <3>2, <3>3, <3>5, ExecutorAssumption
    <3>6. QED
      BY <3>4, <3>5
  <2>6. QED
    BY <2>2, <2>4, <2>5
<1>5. QED
  BY <1>3, <1>4 DEF IndInv, ExcInv

\* The end of a traced frame keeps the invariant: its own cell is charged by
\* as much as its caller's kids, the cell below is emptied, and the times it
\* reports are exact.
LEMMA ReturnTracedIndInv == IndInv /\ ReturnTraced => IndInv'
<1>1. SUFFICES ASSUME IndInv, ReturnTraced PROVE IndInv'
  OBVIOUS
<1> DEFINE inc == inc_time(level)
<1>2. /\ level \in Levels /\ level \in Nat /\ level >= 1
      /\ level - 1 \in 0..MaxDepth /\ level \in 0..MaxDepth
      /\ level' = level - 1 /\ traced[level]
      /\ clock' = clock /\ orphan' = orphan
  BY <1>1, ExecutorAssumption DEF IndInv, TypeOK, ReturnTraced, Levels
<1>3. /\ inc \in Nat
      /\ Charged(level) \in [Cells -> Nat]
      /\ \A k \in Cells : k # level /\ k # level + 1
                           => Charged(level)[k] = exc[k]
      /\ InTable(level) => /\ level \in Cells /\ level + 1 \in Cells
                           /\ Charged(level)[level] = exc[level] + inc
                           /\ Charged(level)[level + 1] = 0
      /\ ~InTable(level) => Charged(level) = exc
  BY <1>1, <1>2, ChargedCells DEF IndInv, ExcInv
<1>4. /\ traced \in [Levels -> BOOLEAN] /\ began \in [Levels -> Nat]
      /\ kids \in [Levels -> Nat] /\ clock \in Nat
      /\ exc \in [Cells -> Nat]
  BY <1>1 DEF IndInv, TypeOK
<1>5. /\ exc' = Charged(level)
      /\ frame' = [level |-> level, inc_time |-> inc,
                   exc_time |-> exc_time(level), kids |-> kids[level]]
      /\ traced' = [traced EXCEPT ![level] = FALSE]
      /\ began' = [began EXCEPT ![level] = 0]
  BY <1>1 DEF ReturnTraced
<1>6. \A l \in Levels :
        /\ l \in Nat /\ l >= 1 /\ (l > 1 => l - 1 \in Levels)
        /\ kids'[l] = IF l = level THEN 0
                      ELSE IF l = level - 1 /\ traced[l] THEN kids[l] + inc
                      ELSE kids[l]
  BY <1>1, ExecutorAssumption DEF ReturnTraced, Levels
<1>7. kids' \in [Levels -> Nat]
  <2>1. kids' = [l \in Levels |-> IF l = level THEN 0
                                  ELSE IF l = level - 1 /\ traced[l]
                                  THEN kids[l] + inc ELSE kids[l]]
    BY <1>1 DEF ReturnTraced
  <2>2. \A l \in Levels : kids[l] \in Nat /\ kids[l] + inc \in Nat
    BY <1>3, <1>4
  <2>3. QED
    BY <2>1, <2>2
<1>8. \A l \in Levels : l # level =>
        traced'[l] = traced[l] /\ began'[l] = began[l]
  BY <1>4, <1>5
<1>9. traced'[level] = FALSE /\ began'[level] = 0
  BY <1>2, <1>4, <1>5
<1>10. TypeOK'
  <2>1. exc_time(level) \in Int
    BY <1>2, <1>3, <1>4 DEF exc_time
  <2>2. frame' \in [level : 0..MaxDepth, inc_time : Nat, exc_time : Int,
                    kids : Nat]
    BY <1>2, <1>3, <1>4, <1>5, <2>1
  <2>3. traced' \in [Levels -> BOOLEAN] /\ began' \in [Levels -> Nat]
    BY <1>4, <1>5
  <2>4. orphan' \in BOOLEAN
    BY <1>1, <1>2 DEF IndInv, TypeOK
  <2>5. QED
    BY <1>2, <1>3, <1>4, <1>5, <1>7, <2>2, <2>3, <2>4 DEF TypeOK
<1>11. BeganPast'
  BY <1>1, <1>2, <1>4, <1>8, <1>9 DEF IndInv, ExcInv, BeganPast
<1>12. ASSUME ~orphan'
       PROVE  (CellsExact /\ OnlyTracedCharged /\ TracedNested /\ KidsFit)'
  <2>1. CellsExact /\ OnlyTracedCharged /\ TracedNested /\ KidsFit
    BY <1>1, <1>2, <1>12 DEF IndInv, ExcInv
  <2>2. level > 1 => level - 1 \in Levels /\ traced[level - 1]
    BY <1>2, <1>6, <2>1 DEF TracedNested
  <2>3. CellsExact'
    <3>1. SUFFICES ASSUME NEW k \in Cells, k >= 2
                   PROVE  exc'[k] = IF k - 1 <= level' /\ k + 1 < ExcLen
                                    THEN kids'[k - 1] ELSE 0
      BY DEF CellsExact
    <3>2. k \in Nat /\ k < ExcLen
      BY ExecutorAssumption DEF Cells
    <3>3. exc[k] = IF k - 1 <= level /\ k + 1 < ExcLen THEN kids[k - 1] ELSE 0
      BY <2>1, <3>1 DEF CellsExact
    <3>4. CASE k = level + 1
      <4>1. InTable(level)
        BY <3>2, <3>4 DEF InTable
      <4>2. QED
        BY <1>2, <1>3, <1>5, <3>4, <4>1
    <3>5. CASE k = level
      <4>1. /\ k - 1 \in Levels /\ traced[k - 1]
            /\ kids'[k - 1] = kids[k - 1] + inc
        BY <1>2, <1>6, <2>2, <3>1, <3>2, <3>5
      <4>2. CASE InTable(level)
        BY <1>2, <1>3, <1>4, <1>5, <3>2, <3>3, <3>5, <4>1, <4>2 DEF InTable
      <4>3. CASE ~InTable(level)
        BY <1>2, <1>3, <1>5, <3>2, <3>3, <3>5, <4>3 DEF InTable
      <4>4. QED
        BY <4>2, <4>3
    <3>6. CASE k # level /\ k # level + 1
      <4>1. exc'[k] = exc[k]
        BY <1>3, <1>5, <3>6
      <4>2. CASE k - 1 <= level - 1
        <5>1. k - 1 \in Levels
          BY <1>2, <3>1, <3>2, <4>2, ExecutorAssumption DEF Levels
        <5>2. kids'[k - 1] = kids[k - 1]
          BY <1>2, <1>6, <3>2, <3>6, <4>2, <5>1
        <5>3. QED
          BY <1>2, <3>2, <3>3, <4>1, <4>2, <5>2
      <4>3. CASE ~(k - 1 <= level - 1)
        BY <1>2, <3>2, <3>3, <3>6, <4>1, <4>3
      <4>4. QED
        BY <4>2, <4>3
    <3>7. QED
      BY <3>4, <3>5, <3>6
  <2>4. OnlyTracedCharged'
    <3>1. SUFFICES ASSUME NEW l \in Levels
                   PROVE  /\ l > level' => ~traced'[l]
                          /\ ~traced'[l] => kids'[l] = 0
      BY DEF OnlyTracedCharged
    <3>2. CASE l = level
      BY <1>2, <1>6, <1>9, <3>2
    <3>3. CASE l # level
      <4>1. l > level' => l > level
        BY <1>2, <1>6, <3>3
      <4>2. ~traced[l] => kids'[l] = kids[l]
        BY <1>2, <1>6, <3>3
      <4>3. QED
        BY <1>8, <2>1, <3>3, <4>1, <4>2 DEF OnlyTracedCharged
    <3>4. QED
      BY <3>2, <3>3
  <2>5. \A l \in Levels : traced'[l] => l < level /\ traced[l]
    <3>1. SUFFICES ASSUME NEW l \in Levels, traced'[l]
                   PROVE  l < level /\ traced[l]
      OBVIOUS
    <3>2. l # level
      BY <1>9, <3>1
    <3>3. traced[l]
      BY <1>8, <3>1, <3>2
    <3>4. ~(l > level)
      BY <2>1, <3>3 DEF OnlyTracedCharged
    <3>5. QED
      BY <1>2, <1>6, <3>2, <3>3, <3>4
  <2>6. TracedNested'
    <3>1. SUFFICES ASSUME NEW l \in Levels, l > 1, traced'[l]
                   PROVE  traced'[l - 1]
      BY DEF TracedNested
    <3>2. l < level /\ traced[l] /\ l - 1 \in Levels /\ l - 1 # level
      BY <1>2, <1>6, <2>5, <3>1
    <3>3. traced[l - 1]
      BY <2>1, <3>1, <3>2 DEF TracedNested
    <3>4. QED
      BY <1>8, <3>2, <3>3
  <2>7. KidsFit'
    <3>1. SUFFICES ASSUME NEW l \in Levels, traced'[l]
                   PROVE  /\ began'[l] + kids'[l] <= clock'
                          /\ l > 1 => began'[l - 1] + kids'[l - 1] <= began'[l]
      BY DEF KidsFit
    <3>2. l < level /\ traced[l] /\ l # level /\ l \in Nat
      BY <1>2, <1>6, <2>5, <3>1
    <3>3. began'[l] = began[l]
      BY <1>8, <3>2
    <3>4. began'[l] + kids'[l] <= clock'
      <4>1. CASE l = level - 1
        <5>1. began[l] + kids[l] <= began[level]
          <6>1. level > 1
            BY <1>2, <1>6, <3>2, <4>1
          <6>2. QED
            BY <1>2, <2>1, <4>1, <6>1 DEF KidsFit
        <5>2. inc = clock - began[level]
          BY DEF inc_time
        <5>3. kids'[l] = kids[l] + inc
          BY <1>6, <3>2, <4>1
        <5>4. /\ began[l] \in Nat /\ kids[l] \in Nat
              /\ began[level] \in Nat /\ clock \in Nat
          BY <1>2, <1>4
        <5>5. QED
          BY <1>2, <3>3, <5>1, <5>2, <5>3, <5>4
      <4>2. CASE l # level - 1
        <5>1. kids'[l] = kids[l]
          BY <1>6, <3>2, <4>2
        <5>2. QED
          BY <1>2, <2>1, <3>2, <3>3, <5>1 DEF KidsFit
      <4>3. QED
        BY <4>1, <4>2
    <3>5. ASSUME l > 1 PROVE began'[l - 1] + kids'[l - 1] <= began'[l]
      <4>1. l - 1 \in Levels /\ l - 1 # level /\ l - 1 # level - 1
        BY <1>2, <1>6, <3>2, <3>5
      <4>2. kids'[l - 1] = kids[l - 1] /\ began'[l - 1] = began[l - 1]
        BY <1>6, <1>8, <4>1
      <4>3. QED
        BY <2>1, <3>2, <3>3, <3>5, <4>2 DEF KidsFit
    <3>6. QED
      BY <3>4, <3>5
  <2>8. QED
    BY <2>3, <2>4, <2>6, <2>7
<1>13. ExcExact'
  <2>1. SUFFICES ASSUME ~orphan'
                 PROVE  /\ exc_time(level) >= 0
                        /\ level + 2 < ExcLen =>
                              exc_time(level) = inc - kids[level]
                        /\ level + 2 = ExcLen => exc_time(level) = inc
                        /\ level + 2 > ExcLen => exc_time(level) = 0
    BY <1>5 DEF ExcExact
  <2>2. CellsExact /\ KidsFit
    BY <1>1, <1>2, <2>1 DEF IndInv, ExcInv
  <2>3. began[level] + kids[level] <= clock
    BY <1>2, <2>2 DEF KidsFit
  <2>4. kids[level] \in Nat /\ began[level] \in Nat
    BY <1>2, <1>4
  <2>5. inc = clock - began[level]
    BY DEF inc_time
  <2>6. inc >= kids[level]
    BY <1>4, <2>3, <2>4, <2>5
  <2>7. CASE InTable(level)
    <3>1. level + 1 \in Cells /\ level + 1 < ExcLen
      BY <1>3, <2>7 DEF InTable
    <3>2. exc[level + 1] = IF level + 2 < ExcLen THEN kids[level] ELSE 0
      <4>1. exc[level + 1] = IF (level + 1) - 1 <= level /\ (level + 1) + 1 < ExcLen
                             THEN kids[(level + 1) - 1] ELSE 0
        BY <1>2, <2>2, <3>1 DEF CellsExact
      <4>2. (level + 1) - 1 = level /\ (level + 1) + 1 = level + 2
        BY <1>2
      <4>3. QED
        BY <1>2, <4>1, <4>2
    <3>3. exc_time(level) = inc - exc[level + 1]
      BY <2>7 DEF exc_time
    <3>4. QED
      BY <1>2, <1>3, <2>4, <2>6, <3>1, <3>2, <3>3, ExecutorAssumption
  <2>8. CASE ~InTable(level)
    <3>1. exc_time(level) = 0
      BY <2>8 DEF exc_time
    <3>2. QED
      BY <1>2, <2>8, <3>1, ExecutorAssumption DEF InTable
  <2>9. QED
    BY <2>7, <2>8
<1>14. QED
  BY <1>10, <1>11, <1>12, <1>13 DEF IndInv, ExcInv

\* IndInv is an invariant: of the initial table, and of every step of
\* pt_execute_core and of the clock.
LEMMA SpecIndInv == Spec => []IndInv
<1>1. Init => IndInv
  BY InitIndInv
<1>2. IndInv /\ [Next]_vars => IndInv'
  <2>1. SUFFICES ASSUME IndInv, [Next]_vars PROVE IndInv'
    OBVIOUS
  <2>2. CASE Tick
    BY <2>1, <2>2, TickIndInv
  <2>3. ASSUME NEW b \in BOOLEAN, Call(b) PROVE IndInv'
    BY <2>1, <2>3, CallIndInv
  <2>4. CASE ReturnTraced
    BY <2>1, <2>4, ReturnTracedIndInv
  <2>5. CASE ReturnUntraced
    BY <2>1, <2>5, ReturnUntracedIndInv
  <2>6. CASE UNCHANGED vars
    <3>1. /\ clock' = clock /\ level' = level /\ traced' = traced
          /\ began' = began /\ exc' = exc /\ frame' = frame
          /\ kids' = kids /\ orphan' = orphan
      BY <2>6 DEF vars
    <3>2. TypeOK' /\ ExcExact' /\ BeganPast'
      BY <2>1, <3>1 DEF IndInv, ExcInv, TypeOK, ExcExact, BeganPast
    <3>3. ~orphan' => (CellsExact /\ OnlyTracedCharged /\ TracedNested /\ KidsFit)'
      BY <2>1, <3>1 DEF IndInv, ExcInv, CellsExact, OnlyTracedCharged,
                        TracedNested, KidsFit
    <3>4. QED
      BY <3>2, <3>3 DEF IndInv, ExcInv
  <2>7. QED
    BY <2>1, <2>2, <2>3, <2>4, <2>5, <2>6 DEF Next
<1>3. QED
  BY <1>1, <1>2, PTL DEF Spec

\* Every variable of the timing model keeps its type; in particular the cells
\* of exc_time_table never go below 0 and inc_time is never negative, even
\* after tracing was switched on in the middle of a call stack.
THEOREM ExecutorType == Spec => []TypeOK
<1>1. IndInv => TypeOK
  BY DEF IndInv
<1>2. QED
  BY <1>1, SpecIndInv, PTL

\* Exclusive times are exact for every table length, every stack depth and
\* every number of calls, under the stated condition on what is traced.
THEOREM ExclusiveTimeExact == Spec => []ExcExact
<1>1. IndInv => ExcExact
  BY DEF IndInv
<1>2. QED
  BY <1>1, SpecIndInv, PTL

\* Between requests nothing is left in the cells that later frames subtract.
THEOREM TableCleanBetweenRequests == Spec => []TableClean
<1>1. IndInv => TableClean
  <2>1. SUFFICES ASSUME IndInv, ~orphan, level = 0, NEW k \in Cells, k >= 2
                 PROVE  exc[k] = 0
    BY DEF TableClean
  <2>2. exc[k] = IF k - 1 <= level /\ k + 1 < ExcLen THEN kids[k - 1] ELSE 0
    BY <2>1 DEF IndInv, ExcInv, CellsExact
  <2>3. ~(k - 1 <= level)
    BY <2>1, ExecutorAssumption DEF Cells
  <2>4. QED
    BY <2>2, <2>3
<1>2. QED
  BY <1>1, SpecIndInv, PTL
=============================================================================
