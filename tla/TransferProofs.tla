--------------------------- MODULE TransferProofs ---------------------------
(***************************************************************************)
(* What is proved of the way from a call to what the tool shows of it, for *)
(* every stack, every argument, request and status, lists of any length:   *)
(*   - what is packed is as long as was announced;                         *)
(*   - what is unpacked is what was packed, wherever in the buffer;        *)
(*   - what is shown is the call that was made.                            *)
(* Induction over the lists is done by hand, from the well-foundedness of  *)
(* the natural numbers.                                                    *)
(***************************************************************************)
EXTENDS Transfer, WireProofs, WellFoundedInduction

-----------------------------------------------------------------------------
(* Induction *)

\* A set of natural numbers has a least one.
LEMMA LeastNumber ==
    ASSUME NEW T, T \subseteq Nat, T # {}
    PROVE  \E x \in T : \A y \in T : x <= y
<1> DEFINE R == OpToRel(<, Nat)
<1>1. \E x \in T : \A y \in T : ~(<<y, x>> \in R)
  BY NatLessThanWellFounded, WFMin
<1>2. \A x, y \in Nat : y < x => <<y, x>> \in R
  BY Zenon DEF OpToRel
<1> HIDE DEF R
<1>3. PICK x \in T : \A y \in T : ~(<<y, x>> \in R)
  BY <1>1
<1>4. ASSUME NEW y \in T PROVE x <= y
  <2>1. x \in Nat /\ y \in Nat
    OBVIOUS
  <2>2. ~(y < x)
    BY <1>2, <1>3, <2>1, Zenon
  <2>3. QED
    BY <2>1, <2>2
<1>5. QED
  BY <1>4

\* What holds of 0, and of n + 1 when it holds of n, holds of every number.
LEMMA Induction ==
    ASSUME NEW S, 0 \in S, \A n \in Nat : n \in S => n + 1 \in S
    PROVE  \A n \in Nat : n \in S
<1> DEFINE T == Nat \ S
<1>1. CASE T # {}
  <2>1. PICK x \in T : \A y \in T : x <= y
    BY <1>1, LeastNumber
  <2>2. x # 0 /\ x - 1 \in Nat /\ x - 1 \in S
    BY <2>1
  <2>3. QED
    BY <2>2
<1>2. QED
  BY <1>1

\* The same up to a bound.
LEMMA BoundedInduction ==
    ASSUME NEW N \in Nat, NEW S, 0 \in S,
           \A n \in 0..(N - 1) : n \in S => n + 1 \in S
    PROVE  \A n \in 0..N : n \in S
<1> DEFINE U == {n \in Nat : n <= N => n \in S}
<1>1. 0 \in U
  OBVIOUS
<1>2. ASSUME NEW n \in Nat, n \in U PROVE n + 1 \in U
  BY <1>2
<1>3. \A n \in Nat : n \in U
  <2> HIDE DEF U
  <2>1. QED
    BY <1>1, <1>2, Induction
<1>4. QED
  BY <1>3

-----------------------------------------------------------------------------
(* Lists laid out one behind the other *)

\* off[k] is where the parts after the k-th begin.
IsLayout(off, lens) ==
    /\ off \in [0..Len(lens) -> Nat]
    /\ off[0] = 0
    /\ \A k \in 1..Len(lens) : off[k] = off[k - 1] + lens[k]

IsSum(g, lens, n) == g = [k \in 0..n |-> IF k = 0 THEN 0 ELSE g[k - 1] + lens[k]]

\* The recursion in Total has a solution.
LEMMA SumExists ==
    ASSUME NEW lens \in Seq(Nat)
    PROVE  \A n \in 0..Len(lens) : \E g : IsSum(g, lens, n)
<1> DEFINE S == {n \in 0..Len(lens) : \E g : IsSum(g, lens, n)}
<1>1. 0 \in S
  <2> DEFINE g == [k \in 0..0 |-> 0]
  <2>1. IsSum(g, lens, 0)
    BY DEF IsSum
  <2>2. QED
    BY <2>1
<1>2. ASSUME NEW n \in 0..(Len(lens) - 1), n \in S PROVE n + 1 \in S
  <2>1. PICK g : IsSum(g, lens, n)
    BY <1>2
  <2> DEFINE h == [k \in 0..(n + 1) |-> IF k = n + 1 THEN g[n] + lens[n + 1] ELSE g[k]]
  <2>2. IsSum(h, lens, n + 1)
    BY <2>1 DEF IsSum
  <2> HIDE DEF h
  <2>3. QED
    BY <2>2
<1>3. QED
  <2> HIDE DEF S
  <2>1. \A n \in 0..Len(lens) : n \in S
    BY <1>1, <1>2, BoundedInduction, Len(lens) \in Nat
  <2>2. QED
    BY <2>1 DEF S

\* Total is the end of a layout.
LEMMA TotalIs ==
    ASSUME NEW lens \in Seq(Nat)
    PROVE  \E off : IsLayout(off, lens) /\ Total(lens) = off[Len(lens)]
<1> DEFINE f == CHOOSE f : f = [k \in 0..Len(lens) |->
                                  IF k = 0 THEN 0 ELSE f[k - 1] + lens[k]]
<1>1. \E g : g = [k \in 0..Len(lens) |-> IF k = 0 THEN 0 ELSE g[k - 1] + lens[k]]
  BY SumExists DEF IsSum
<1>2. f = [k \in 0..Len(lens) |-> IF k = 0 THEN 0 ELSE f[k - 1] + lens[k]]
  BY <1>1, Zenon
<1>3. Total(lens) = f[Len(lens)]
  BY Zenon DEF Total
<1> HIDE DEF f
<1>4. \A k \in 0..Len(lens) : f[k] \in Nat
  <2> DEFINE S == {k \in 0..Len(lens) : f[k] \in Nat}
  <2>1. 0 \in S
    BY <1>2
  <2>2. ASSUME NEW n \in 0..(Len(lens) - 1), n \in S PROVE n + 1 \in S
    <3>1. n + 1 \in 1..Len(lens) /\ (n + 1) - 1 = n
      OBVIOUS
    <3>2. f[n + 1] = f[n] + lens[n + 1]
      BY <1>2, <3>1
    <3>3. QED
      BY <2>2, <3>1, <3>2
  <2>3. \A n \in 0..Len(lens) : n \in S
    <3> HIDE DEF S
    <3>1. QED
      BY <2>1, <2>2, BoundedInduction, Len(lens) \in Nat
  <2>4. QED
    BY <2>3
<1>5. IsLayout(f, lens)
  <2>1. f[0] = 0 /\ \A k \in 1..Len(lens) : f[k] = f[k - 1] + lens[k]
    BY <1>2
  <2>2. f = [k \in 0..Len(lens) |-> f[k]]
    BY <1>2, Zenon
  <2>3. f \in [0..Len(lens) -> Nat]
    BY <1>4, <2>2, Zenon
  <2>4. QED
    BY <2>1, <2>3 DEF IsLayout
<1>6. QED
  BY <1>3, <1>5

\* There is only one layout.
LEMMA LayoutUnique ==
    ASSUME NEW lens \in Seq(Nat), NEW a, NEW b, IsLayout(a, lens), IsLayout(b, lens)
    PROVE  \A k \in 0..Len(lens) : a[k] = b[k]
<1> DEFINE S == {k \in 0..Len(lens) : a[k] = b[k]}
<1>1. 0 \in S
  BY DEF IsLayout
<1>2. ASSUME NEW n \in 0..(Len(lens) - 1), n \in S PROVE n + 1 \in S
  <2>1. n + 1 \in 1..Len(lens) /\ (n + 1) - 1 = n
    OBVIOUS
  <2>2. a[n + 1] = a[n] + lens[n + 1] /\ b[n + 1] = b[n] + lens[n + 1]
    BY <2>1 DEF IsLayout
  <2>3. QED
    BY <1>2, <2>1, <2>2
<1>3. \A n \in 0..Len(lens) : n \in S
  <2> HIDE DEF S
  <2>1. QED
    BY <1>1, <1>2, BoundedInduction, Len(lens) \in Nat
<1>4. QED
  BY <1>3

\* ... and Total is its end.
LEMMA TotalOf ==
    ASSUME NEW lens \in Seq(Nat), NEW off, IsLayout(off, lens)
    PROVE  Total(lens) = off[Len(lens)]
<1>1. PICK a : IsLayout(a, lens) /\ Total(lens) = a[Len(lens)]
  BY TotalIs
<1>2. QED
  BY <1>1, LayoutUnique, Len(lens) \in 0..Len(lens)

IsFlat(g, seqs, n) ==
    g = [i \in 1..n |-> IF i = 1 THEN seqs[i] ELSE g[i - 1] \o seqs[i]]

\* The recursion in FlattenSeq has a solution.
LEMMA FlatExists ==
    ASSUME NEW seqs \in Seq(Seq(Int))
    PROVE  \A n \in 0..Len(seqs) : \E g : IsFlat(g, seqs, n)
<1> DEFINE S == {n \in 0..Len(seqs) : \E g : IsFlat(g, seqs, n)}
<1>1. 0 \in S
  <2> DEFINE g == [i \in 1..0 |-> 0]
  <2>1. IsFlat(g, seqs, 0)
    BY DEF IsFlat
  <2>2. QED
    BY <2>1
<1>2. ASSUME NEW n \in 0..(Len(seqs) - 1), n \in S PROVE n + 1 \in S
  <2>1. PICK g : IsFlat(g, seqs, n)
    BY <1>2
  <2> DEFINE last == IF n = 0 THEN seqs[1] ELSE g[n] \o seqs[n + 1]
             h == [i \in 1..(n + 1) |-> IF i = n + 1 THEN last ELSE g[i]]
  <2>5. n = 0 => last = seqs[1]
    OBVIOUS
  <2>6. n # 0 => last = g[n] \o seqs[n + 1]
    OBVIOUS
  <2> HIDE DEF last
  <2>2. ASSUME NEW i \in 1..(n + 1)
        PROVE  h[i] = IF i = 1 THEN seqs[i] ELSE h[i - 1] \o seqs[i]
    <3>1. CASE i = n + 1
      <4>1. h[i] = last
        BY <3>1
      <4>2. i # 1 => n # 0 /\ h[i - 1] = g[n]
        BY <3>1
      <4>3. QED
        <5>1. CASE i = 1
          BY <2>5, <3>1, <4>1, <5>1, n = 0
        <5>2. CASE i # 1
          <6>1. h[i] = g[n] \o seqs[i]
            BY <2>6, <3>1, <4>1, <4>2, <5>2, Zenon
          <6>2. QED
            BY <4>2, <5>2, <6>1, Zenon
        <5>3. QED
          BY <5>1, <5>2, Zenon
    <3>2. CASE i # n + 1
      <4>1. i \in 1..n /\ h[i] = g[i]
        BY <3>2
      <4>2. g[i] = IF i = 1 THEN seqs[i] ELSE g[i - 1] \o seqs[i]
        BY <2>1, <4>1 DEF IsFlat
      <4>3. i # 1 => h[i - 1] = g[i - 1]
        BY <4>1
      <4>4. QED
        BY <4>1, <4>2, <4>3
    <3>3. QED
      BY <3>1, <3>2
  <2>3. IsFlat(h, seqs, n + 1)
    <3>1. h = [i \in 1..(n + 1) |-> h[i]]
      OBVIOUS
    <3> HIDE DEF h
    <3>2. QED
      BY <2>2, <3>1, Zenon DEF IsFlat
  <2> HIDE DEF h
  <2>4. QED
    BY <2>3
<1>3. QED
  <2> HIDE DEF S
  <2>1. \A n \in 0..Len(seqs) : n \in S
    BY <1>1, <1>2, BoundedInduction, Len(seqs) \in Nat
  <2>2. QED
    BY <2>1 DEF S

Lengths(seqs) == [i \in DOMAIN seqs |-> Len(seqs[i])]

\* s has the n first of seqs one behind the other.
Lays(s, seqs, off, n) ==
    /\ s \in Seq(Int) /\ Len(s) = off[n]
    /\ \A i \in 1..n : \A k \in 1..Len(seqs[i]) :
          off[i - 1] + k \in 1..off[n] /\ s[off[i - 1] + k] = seqs[i][k]

LEMMA LengthsType ==
    ASSUME NEW seqs \in Seq(Seq(Int))
    PROVE  /\ Lengths(seqs) \in Seq(Nat) /\ Len(Lengths(seqs)) = Len(seqs)
           /\ \A i \in 1..Len(seqs) : Lengths(seqs)[i] = Len(seqs[i])
<1>1. DOMAIN seqs = 1..Len(seqs) /\ Len(seqs) \in Nat
  OBVIOUS
<1>2. \A i \in 1..Len(seqs) : Len(seqs[i]) \in Nat
  OBVIOUS
<1>3. Lengths(seqs) = [i \in 1..Len(seqs) |-> Len(seqs[i])]
  BY <1>1, Zenon DEF Lengths
<1>4. QED
  BY <1>1, <1>2, <1>3

\* One more behind the others.
LEMMA LaysOneMore ==
    ASSUME NEW seqs \in Seq(Seq(Int)), NEW off, IsLayout(off, Lengths(seqs)),
           NEW n \in 1..(Len(seqs) - 1), NEW s, Lays(s, seqs, off, n)
    PROVE  Lays(s \o seqs[n + 1], seqs, off, n + 1)
<1> DEFINE t == seqs[n + 1]
           st == s \o t
<1>1. /\ n + 1 \in 1..Len(seqs) /\ (n + 1) - 1 = n /\ n \in Nat
      /\ n \in 0..Len(seqs) /\ n + 1 \in 0..Len(seqs)
  OBVIOUS
<1>2. t \in Seq(Int) /\ Len(t) \in Nat
  BY <1>1
<1>3. off[n + 1] = off[n] + Len(t) /\ off[n] \in Nat
  BY <1>1, LengthsType, ZenonT(40) DEF IsLayout
<1> HIDE DEF t
<1>4. /\ st \in Seq(Int) /\ Len(st) = off[n + 1]
      /\ \A k \in 1..off[n] : st[k] = s[k]
      /\ \A k \in 1..Len(t) : st[off[n] + k] = t[k]
  <2>1. s \in Seq(Int) /\ Len(s) = off[n]
    BY DEF Lays
  <2>2. /\ st \in Seq(Int) /\ Len(st) = Len(s) + Len(t)
        /\ \A k \in 1..Len(s) : st[k] = s[k]
        /\ \A k \in 1..Len(t) : st[Len(s) + k] = t[k]
    BY <1>2, <2>1, Join, Zenon
  <2>3. QED
    BY <1>3, <2>1, <2>2, Zenon
<1> HIDE DEF st
<1>5. ASSUME NEW i \in 1..(n + 1), NEW k \in 1..Len(seqs[i])
      PROVE  off[i - 1] + k \in 1..off[n + 1] /\ st[off[i - 1] + k] = seqs[i][k]
  <2>1. CASE i = n + 1
    <3>1. i - 1 = n /\ seqs[i] = t /\ k \in 1..Len(t)
      BY <1>1, <2>1 DEF t
    <3>2. off[n] + k \in 1..off[n + 1]
      BY <1>2, <1>3, <3>1, SMTT(40)
    <3>3. QED
      BY <1>4, <3>1, <3>2, Zenon
  <2>2. CASE i # n + 1
    <3>1. i \in 1..n
      BY <2>2
    <3>2. off[i - 1] + k \in 1..off[n] /\ s[off[i - 1] + k] = seqs[i][k]
      BY <3>1 DEF Lays
    <3>3. QED
      <4>1. off[i - 1] + k \in 1..off[n + 1]
        <5>1. \A x \in 1..off[n] : x \in 1..off[n + 1]
          BY <1>2, <1>3
        <5>2. QED
          BY <3>2, <5>1, Zenon
      <4>2. QED
        BY <1>4, <3>2, <4>1, Zenon
  <2>3. QED
    BY <2>1, <2>2
<1>6. QED
  BY <1>4, <1>5 DEF Lays, st, t

\* FlattenSeq puts its parts one behind the other.
LEMMA FlattenIs ==
    ASSUME NEW seqs \in Seq(Seq(Int))
    PROVE  \E off : IsLayout(off, Lengths(seqs)) /\ Lays(FlattenSeq(seqs), seqs, off, Len(seqs))
<1> DEFINE N == Len(seqs)
<1>1. PICK off : IsLayout(off, Lengths(seqs))
  BY LengthsType, TotalIs
<1>2. N \in Nat
  OBVIOUS
<1>3. CASE N = 0
  <2>1. FlattenSeq(seqs) = seqs /\ seqs \in Seq(Int) /\ seqs = <<>>
    BY <1>3 DEF FlattenSeq
  <2>2. off[0] = 0
    BY <1>1 DEF IsLayout
  <2>3. QED
    BY <1>1, <1>3, <2>1, <2>2 DEF Lays
<1>4. CASE N # 0
  <2> DEFINE f == CHOOSE f : f = [i \in 1..N |-> IF i = 1 THEN seqs[i] ELSE f[i - 1] \o seqs[i]]
  <2>1. \E g : g = [i \in 1..N |-> IF i = 1 THEN seqs[i] ELSE g[i - 1] \o seqs[i]]
    BY FlatExists, N \in 0..N DEF IsFlat
  <2>2. f = [i \in 1..N |-> IF i = 1 THEN seqs[i] ELSE f[i - 1] \o seqs[i]]
    BY <2>1, Zenon
  <2>3. FlattenSeq(seqs) = f[N]
    BY <1>4, Zenon DEF FlattenSeq
  <2> HIDE DEF f
  <2> DEFINE S == {n \in 0..N : n = 0 \/ Lays(f[n], seqs, off, n)}
  <2>4. 0 \in S
    BY <1>2
  <2>5. ASSUME NEW n \in 0..(N - 1), n \in S PROVE n + 1 \in S
    <3>1. CASE n = 0
      <4>1. f[1] = seqs[1] /\ seqs[1] \in Seq(Int) /\ 1 \in 1..N /\ 1 - 1 = 0
        BY <1>2, <1>4, <2>2
      <4>2. off[1] = off[0] + Len(seqs[1]) /\ off[0] = 0
        BY <1>1, <4>1, LengthsType DEF IsLayout
      <4>3. Lays(seqs[1], seqs, off, 1)
        BY <4>1, <4>2 DEF Lays
      <4>4. QED
        BY <1>2, <1>4, <3>1, <4>1, <4>3
    <3>2. CASE n # 0
      <4>1. n \in 1..(N - 1) /\ n + 1 \in 1..N /\ n + 1 # 1 /\ (n + 1) - 1 = n
        BY <1>2, <3>2
      <4>2. f[n + 1] = f[n] \o seqs[n + 1]
        BY <2>2, <4>1
      <4>3. Lays(f[n], seqs, off, n)
        BY <2>5, <3>2
      <4>4. Lays(f[n] \o seqs[n + 1], seqs, off, n + 1)
        BY <1>1, <4>1, <4>3, LaysOneMore
      <4>5. QED
        <5>1. Lays(f[n + 1], seqs, off, n + 1) /\ n + 1 \in 0..N
          BY <1>2, <4>1, <4>2, <4>4
        <5>2. QED
          BY <5>1, Zenon
    <3>3. QED
      BY <3>1, <3>2
  <2>6. \A n \in 0..N : n \in S
    <3> HIDE DEF S
    <3>1. QED
      BY <1>2, <2>4, <2>5, BoundedInduction
  <2>7. Lays(f[N], seqs, off, N)
    BY <1>2, <1>4, <2>6
  <2>8. QED
    BY <1>1, <2>3, <2>7
<1>5. QED
  BY <1>3, <1>4

-----------------------------------------------------------------------------
(* Numbers and strings in memory *)

\* The bytes from p on are those of s.
Spells(buf, p, s) == \A k \in 1..Len(s) : ByteAt(buf, p + k - 1) = s[k]

\* What is spelt one behind the other is spelt one by one.
LEMMA SpellsJoin ==
    ASSUME NEW buf, NEW p \in Int, NEW s \in Seq(Int), NEW t \in Seq(Int),
           Spells(buf, p, s \o t)
    PROVE  Spells(buf, p, s) /\ Spells(buf, p + Len(s), t)
<1> DEFINE st == s \o t
<1>1. /\ Len(st) = Len(s) + Len(t)
      /\ \A k \in 1..Len(s) : st[k] = s[k]
      /\ \A k \in 1..Len(t) : st[Len(s) + k] = t[k]
      /\ Len(s) \in Nat /\ Len(t) \in Nat
  BY Join
<1>2. \A k \in 1..Len(st) : ByteAt(buf, p + k - 1) = st[k]
  BY DEF Spells
<1> HIDE DEF st
<1>3. ASSUME NEW k \in 1..Len(s) PROVE ByteAt(buf, p + k - 1) = s[k]
  <2>1. k \in 1..Len(st)
    BY <1>1
  <2>2. QED
    BY <1>1, <1>2, <2>1, Zenon
<1>4. ASSUME NEW k \in 1..Len(t) PROVE ByteAt(buf, (p + Len(s)) + k - 1) = t[k]
  <2>1. Len(s) + k \in 1..Len(st) /\ (p + Len(s)) + k - 1 = p + (Len(s) + k) - 1
    BY <1>1
  <2>2. QED
    BY <1>1, <1>2, <2>1, Zenon
<1>5. QED
  BY <1>3, <1>4, Zenon DEF Spells

\* A number and its fillers.
LEMMA NumberIs ==
    ASSUME NEW w \in Nat \ {0}, NEW v \in Int
    PROVE  /\ Packed(w, v) \in Seq(Int) /\ Len(Packed(w, v)) = w
           /\ Packed(w, v)[1] = IF w = 1 THEN v % 256 ELSE v
<1> DEFINE x == IF w = 1 THEN v % 256 ELSE v
           fill == [i \in 1..(w - 1) |-> Pad]
<1>1. x \in Int /\ w - 1 \in Nat
  OBVIOUS
<1>2. Packed(w, v) = <<x>> \o fill
  BY DEF Packed
<1> HIDE DEF x
<1>3. fill \in Seq(Int) /\ Len(fill) = w - 1
  BY <1>1, Fill DEF Pad
<1> HIDE DEF fill
<1>4. <<x>> \in Seq(Int) /\ Len(<<x>>) = 1 /\ <<x>>[1] = x /\ 1 \in 1..1
  BY <1>1
<1>5. /\ <<x>> \o fill \in Seq(Int) /\ Len(<<x>> \o fill) = 1 + (w - 1)
      /\ (<<x>> \o fill)[1] = x
  BY <1>3, <1>4, Join
<1>6. 1 + (w - 1) = w
  OBVIOUS
<1>7. QED
  BY <1>2, <1>5, <1>6 DEF x

\* ... is read where it was written.
LEMMA NumberRead ==
    ASSUME NEW buf, NEW p \in Int, NEW w \in Nat \ {0}, NEW v \in Int,
           Spells(buf, p, Packed(w, v))
    PROVE  ByteAt(buf, p) = IF w = 1 THEN v % 256 ELSE v
<1>1. 1 \in 1..Len(Packed(w, v)) /\ p + 1 - 1 = p
  BY NumberIs
<1>2. ByteAt(buf, p + 1 - 1) = Packed(w, v)[1]
  BY <1>1, Zenon DEF Spells
<1>3. QED
  BY <1>1, <1>2, NumberIs, Zenon

LEMMA StrLenType ==
    ASSUME NEW s \in Seq(Int)
    PROVE  StrLen(s) \in Nat /\ LEN_STR(s) \in Nat
BY DEF StrLen, LEN_STR

\* A string is as long as LEN_STR says.
LEMMA StrIs ==
    ASSUME NEW s \in Seq(Int)
    PROVE  PACK_STR(s) \in Seq(Int) /\ Len(PACK_STR(s)) = LEN_STR(s)
<1> DEFINE body == IF s = NULL THEN <<>> ELSE s
           head == Packed(4, StrLen(s))
<1>1. body \in Seq(Int) /\ Len(body) = StrLen(s)
  BY DEF StrLen
<1>2. StrLen(s) \in Int /\ 4 \in Nat \ {0}
  BY StrLenType
<1>3. head \in Seq(Int) /\ Len(head) = 4
  BY <1>2, NumberIs
<1>4. PACK_STR(s) = head \o body
  BY DEF PACK_STR
<1> HIDE DEF head, body
<1>5. QED
  <2>1. head \o body \in Seq(Int) /\ Len(head \o body) = Len(head) + Len(body)
    BY <1>1, <1>3, Join
  <2>2. Len(head \o body) = LEN_STR(s)
    BY <1>1, <1>3, <2>1 DEF LEN_STR
  <2>3. QED
    BY <1>4, <2>1, <2>2, Zenon

\* A string is read where it was written; an empty one comes out as NULL.
LEMMA StrRead ==
    ASSUME NEW buf, NEW p \in Int, NEW s \in Seq(Int), Spells(buf, p, PACK_STR(s))
    PROVE  /\ UNPACK_STR(buf, p) = OrNull(s)
           /\ AfterStr(buf, p) = p + LEN_STR(s)
<1> DEFINE body == IF s = NULL THEN <<>> ELSE s
           head == Packed(4, StrLen(s))
<1>1. body \in Seq(Int) /\ Len(body) = StrLen(s)
  BY DEF StrLen
<1>2. StrLen(s) \in Nat /\ StrLen(s) \in Int /\ 4 \in Nat \ {0}
  BY StrLenType
<1>3. head \in Seq(Int) /\ Len(head) = 4
  BY <1>2, NumberIs
<1>4. PACK_STR(s) = head \o body
  BY DEF PACK_STR
<1>5. Spells(buf, p, head) /\ Spells(buf, p + 4, body)
  <2> HIDE DEF head, body
  <2>1. QED
    BY <1>1, <1>3, <1>4, SpellsJoin, Zenon
<1>6. ByteAt(buf, p) = StrLen(s)
  BY <1>2, <1>5, NumberRead, 4 # 1
<1>7. LenAt(buf, p) = StrLen(s)
  BY <1>2, <1>6 DEF LenAt
<1>8. AfterStr(buf, p) = p + LEN_STR(s)
  BY <1>2, <1>7 DEF AfterStr, LEN_STR
<1>9. CASE StrLen(s) = 0
  <2>1. s = NULL \/ s = <<>>
    BY <1>9 DEF StrLen
  <2>2. OrNull(s) = NULL
    BY <2>1 DEF OrNull
  <2>3. QED
    BY <1>7, <1>8, <1>9, <2>2 DEF UNPACK_STR
<1>10. CASE StrLen(s) # 0
  <2>1. s # NULL /\ body = s /\ StrLen(s) = Len(s)
    BY <1>10 DEF StrLen
  <2>2. OrNull(s) = s
    BY <1>10, <2>1 DEF OrNull
  <2>3. \A k \in 1..Len(s) : ByteAt(buf, (p + 4) + k - 1) = s[k]
    BY <1>5, <2>1 DEF Spells
  <2>4. ASSUME NEW k \in 1..Len(s) PROVE ByteAt(buf, p + 3 + k) = s[k]
    <3>1. p + 3 + k = (p + 4) + k - 1
      OBVIOUS
    <3>2. QED
      BY <2>3, <3>1, Zenon
  <2>5. s = [k \in 1..Len(s) |-> s[k]]
    OBVIOUS
  <2>6. UNPACK_STR(buf, p) = [k \in 1..Len(s) |-> ByteAt(buf, p + 3 + k)]
    BY <1>7, <1>10, <2>1, Zenon DEF UNPACK_STR
  <2>7. QED
    BY <1>8, <2>2, <2>4, <2>5, <2>6, Zenon
<1>11. QED
  BY <1>9, <1>10

IsWalk(g, buf, p, n) == g = [k \in 0..n |-> IF k = 0 THEN p ELSE AfterStr(buf, g[k - 1])]

\* The recursion in UNPACK_STRS has a solution.
LEMMA WalkExists ==
    ASSUME NEW buf, NEW p, NEW N \in Nat
    PROVE  \A n \in 0..N : \E g : IsWalk(g, buf, p, n)
<1> DEFINE S == {n \in 0..N : \E g : IsWalk(g, buf, p, n)}
<1>1. 0 \in S
  <2> DEFINE g == [k \in 0..0 |-> p]
  <2>1. IsWalk(g, buf, p, 0)
    BY DEF IsWalk
  <2>2. QED
    BY <2>1
<1>2. ASSUME NEW n \in 0..(N - 1), n \in S PROVE n + 1 \in S
  <2>1. PICK g : IsWalk(g, buf, p, n)
    BY <1>2
  <2> DEFINE h == [k \in 0..(n + 1) |-> IF k = n + 1 THEN AfterStr(buf, g[n]) ELSE g[k]]
  <2>2. IsWalk(h, buf, p, n + 1)
    BY <2>1 DEF IsWalk
  <2> HIDE DEF h
  <2>3. QED
    BY <2>2
<1>3. QED
  <2> HIDE DEF S
  <2>1. \A n \in 0..N : n \in S
    BY <1>1, <1>2, BoundedInduction
  <2>2. QED
    BY <2>1 DEF S

\* at[k] is where UNPACK_STRS has got after k strings.
StrsTrail(at, buf, p, n) ==
    /\ at[0] = p
    /\ \A k \in 1..n : at[k] = AfterStr(buf, at[k - 1])
    /\ UNPACK_STRS(buf, p, n) =
          [vals |-> [k \in 1..n |-> UNPACK_STR(buf, at[k - 1])], end |-> at[n]]

\* UNPACK_STRS goes from string to string.
LEMMA StrsAre ==
    ASSUME NEW buf, NEW p, NEW n \in Nat
    PROVE  \E at : StrsTrail(at, buf, p, n)
<1> DEFINE f == CHOOSE f : f = [k \in 0..n |-> IF k = 0 THEN p ELSE AfterStr(buf, f[k - 1])]
<1>1. \E g : g = [k \in 0..n |-> IF k = 0 THEN p ELSE AfterStr(buf, g[k - 1])]
  <2>1. n \in 0..n
    OBVIOUS
  <2>2. \E g : IsWalk(g, buf, p, n)
    BY <2>1, WalkExists, Zenon
  <2>3. QED
    BY <2>2, Zenon DEF IsWalk
<1>2. f = [k \in 0..n |-> IF k = 0 THEN p ELSE AfterStr(buf, f[k - 1])]
  BY <1>1, Zenon
<1>3. UNPACK_STRS(buf, p, n) =
        [vals |-> [k \in 1..n |-> UNPACK_STR(buf, f[k - 1])], end |-> f[n]]
  BY Zenon DEF UNPACK_STRS
<1> HIDE DEF f
<1>4. f[0] = p /\ \A k \in 1..n : f[k] = AfterStr(buf, f[k - 1])
  BY <1>2
<1>5. StrsTrail(f, buf, p, n)
  BY <1>3, <1>4, Zenon DEF StrsTrail
<1>6. QED
  BY <1>5, Zenon

-----------------------------------------------------------------------------
(* Lists of strings *)

Strs(ss) == [i \in DOMAIN ss |-> PACK_STR(ss[i])]

StrLens(ss) == [i \in DOMAIN ss |-> LEN_STR(ss[i])]

LEMMA StrsType ==
    ASSUME NEW ss \in Seq(Seq(Int))
    PROVE  /\ Strs(ss) \in Seq(Seq(Int)) /\ Len(Strs(ss)) = Len(ss)
           /\ \A i \in 1..Len(ss) : Strs(ss)[i] = PACK_STR(ss[i])
           /\ Lengths(Strs(ss)) = StrLens(ss)
           /\ StrLens(ss) \in Seq(Nat) /\ Len(StrLens(ss)) = Len(ss)
           /\ \A i \in 1..Len(ss) : StrLens(ss)[i] = LEN_STR(ss[i])
<1>1. DOMAIN ss = 1..Len(ss) /\ Len(ss) \in Nat
  OBVIOUS
<1>2. ASSUME NEW i \in 1..Len(ss)
      PROVE  /\ PACK_STR(ss[i]) \in Seq(Int) /\ Len(PACK_STR(ss[i])) = LEN_STR(ss[i])
             /\ LEN_STR(ss[i]) \in Nat
  <2>1. ss[i] \in Seq(Int)
    OBVIOUS
  <2>2. QED
    BY <2>1, StrIs, StrLenType
<1>3. Strs(ss) = [i \in 1..Len(ss) |-> PACK_STR(ss[i])]
  BY <1>1, Zenon DEF Strs
<1>4. StrLens(ss) = [i \in 1..Len(ss) |-> LEN_STR(ss[i])]
  BY <1>1, Zenon DEF StrLens
<1>5. /\ Strs(ss) \in Seq(Seq(Int)) /\ Len(Strs(ss)) = Len(ss)
      /\ \A i \in 1..Len(ss) : Strs(ss)[i] = PACK_STR(ss[i])
  BY <1>1, <1>2, <1>3
<1>6. /\ StrLens(ss) \in Seq(Nat) /\ Len(StrLens(ss)) = Len(ss)
      /\ \A i \in 1..Len(ss) : StrLens(ss)[i] = LEN_STR(ss[i])
  BY <1>1, <1>2, <1>4
<1>7. Lengths(Strs(ss)) = StrLens(ss)
  <2>1. DOMAIN Strs(ss) = 1..Len(ss)
    BY <1>3, Zenon
  <2>2. Lengths(Strs(ss)) = [i \in 1..Len(ss) |-> Len(Strs(ss)[i])]
    BY <2>1, Zenon DEF Lengths
  <2>3. \A i \in 1..Len(ss) : Len(Strs(ss)[i]) = LEN_STR(ss[i])
    BY <1>2, <1>5, Zenon
  <2>4. QED
    BY <1>4, <2>2, <2>3, Zenon
<1>8. QED
  BY <1>5, <1>6, <1>7, Zenon

\* A list of strings is as long as their lengths say.
LEMMA ListIs ==
    ASSUME NEW ss \in Seq(Seq(Int))
    PROVE  /\ PackAll(PACK_STR, ss) \in Seq(Int)
           /\ Len(PackAll(PACK_STR, ss)) = SumOver(LEN_STR, ss)
           /\ SumOver(LEN_STR, ss) \in Nat
<1>1. PackAll(PACK_STR, ss) = FlattenSeq(Strs(ss))
  BY DEF PackAll, Strs
<1>2. SumOver(LEN_STR, ss) = Total(StrLens(ss))
  BY DEF SumOver, StrLens
<1>3. PICK off : /\ IsLayout(off, Lengths(Strs(ss)))
                 /\ Lays(FlattenSeq(Strs(ss)), Strs(ss), off, Len(Strs(ss)))
  BY StrsType, FlattenIs
<1>4. IsLayout(off, StrLens(ss))
  BY <1>3, StrsType, Zenon
<1>5. Total(StrLens(ss)) = off[Len(ss)]
  BY <1>4, StrsType, TotalOf
<1>6. FlattenSeq(Strs(ss)) \in Seq(Int) /\ Len(FlattenSeq(Strs(ss))) = off[Len(ss)]
  BY <1>3, StrsType, Zenon DEF Lays
<1>7. QED
  BY <1>1, <1>2, <1>5, <1>6

\* A list of strings is read where it was written.
LEMMA ListRead ==
    ASSUME NEW buf, NEW p \in Int, NEW ss \in Seq(Seq(Int)),
           Spells(buf, p, PackAll(PACK_STR, ss))
    PROVE  UNPACK_STRS(buf, p, Len(ss)) =
              [vals |-> OrNulls(ss), end |-> p + SumOver(LEN_STR, ss)]
<1> DEFINE n == Len(ss)
           flat == FlattenSeq(Strs(ss))
<1>1. flat = PackAll(PACK_STR, ss)
  BY DEF PackAll, Strs
<1>2. SumOver(LEN_STR, ss) = Total(StrLens(ss))
  BY DEF SumOver, StrLens
<1>3. PICK off : /\ IsLayout(off, Lengths(Strs(ss)))
                 /\ Lays(flat, Strs(ss), off, Len(Strs(ss)))
  BY StrsType, FlattenIs
<1>4. IsLayout(off, StrLens(ss)) /\ Lays(flat, Strs(ss), off, n)
  BY <1>3, StrsType, Zenon
<1>5. SumOver(LEN_STR, ss) = off[n]
  BY <1>2, <1>4, StrsType, TotalOf
<1>6. n \in Nat /\ DOMAIN ss = 1..n
  OBVIOUS
<1>19. PICK at : StrsTrail(at, buf, p, n)
  <2> HIDE DEF n
  <2>1. QED
    BY <1>6, StrsAre
<1>7. /\ at[0] = p
      /\ \A k \in 1..n : at[k] = AfterStr(buf, at[k - 1])
      /\ UNPACK_STRS(buf, p, n) =
            [vals |-> [k \in 1..n |-> UNPACK_STR(buf, at[k - 1])], end |-> at[n]]
  BY <1>19, Zenon DEF StrsTrail
<1>8. off \in [0..n -> Nat] /\ off[0] = 0 /\ \A k \in 1..n : off[k] = off[k - 1] + LEN_STR(ss[k])
  <2>1. Len(StrLens(ss)) = n /\ \A i \in 1..n : StrLens(ss)[i] = LEN_STR(ss[i])
    BY StrsType
  <2>2. QED
    BY <1>4, <2>1, Zenon DEF IsLayout
<1>18. \A k \in 0..n : off[k] \in Nat
  BY <1>8, Zenon
<1>9. ASSUME NEW k \in 1..n PROVE Spells(buf, p + off[k - 1], PACK_STR(ss[k]))
  <2>1. off[k - 1] \in Int
    BY <1>6, <1>18, k - 1 \in 0..n
  <2>2. Strs(ss)[k] = PACK_STR(ss[k])
    BY StrsType
  <2>3. ASSUME NEW j \in 1..Len(PACK_STR(ss[k]))
        PROVE  ByteAt(buf, (p + off[k - 1]) + j - 1) = PACK_STR(ss[k])[j]
    <3>1. off[k - 1] + j \in 1..off[n] /\ flat[off[k - 1] + j] = PACK_STR(ss[k])[j]
      BY <1>4, <2>2, Zenon DEF Lays
    <3>2. off[k - 1] + j \in 1..Len(flat)
      BY <1>4, <3>1, Zenon DEF Lays
    <3>3. ByteAt(buf, p + (off[k - 1] + j) - 1) = flat[off[k - 1] + j]
      BY <1>1, <3>2, Zenon DEF Spells
    <3>4. j \in Int
      <4>1. PACK_STR(ss[k]) \in Seq(Int)
        BY StrIs
      <4>2. QED
        BY <4>1
    <3>5. p + (off[k - 1] + j) - 1 = (p + off[k - 1]) + j - 1
      BY <2>1, <3>4
    <3>6. QED
      BY <3>1, <3>3, <3>5, Zenon
  <2>4. QED
    BY <2>3, Zenon DEF Spells
<1> HIDE DEF n, flat
<1> DEFINE S == {k \in 0..n : at[k] = p + off[k]}
<1>10. 0 \in S
  BY <1>6, <1>7, <1>8
<1>11. ASSUME NEW k \in 0..(n - 1), k \in S PROVE k + 1 \in S
  <2>1. k + 1 \in 1..n /\ (k + 1) - 1 = k
    BY <1>6
  <2>2. at[k + 1] = AfterStr(buf, p + off[k])
    BY <1>7, <1>11, <2>1
  <2>3. Spells(buf, p + off[k], PACK_STR(ss[k + 1]))
    BY <1>9, <2>1, Zenon
  <2>4. ss[k + 1] \in Seq(Int) /\ off[k] \in Nat
    BY <1>6, <1>18, <2>1 DEF n
  <2>5. AfterStr(buf, p + off[k]) = (p + off[k]) + LEN_STR(ss[k + 1])
    BY <2>3, <2>4, StrRead, p + off[k] \in Int
  <2>6. off[k + 1] = off[k] + LEN_STR(ss[k + 1])
    BY <1>8, <2>1, Zenon
  <2>7. LEN_STR(ss[k + 1]) \in Nat
    BY <2>4, StrLenType
  <2>8. QED
    BY <1>6, <2>1, <2>2, <2>4, <2>5, <2>6, <2>7
<1>12. \A k \in 0..n : k \in S
  <2> HIDE DEF S
  <2>1. QED
    BY <1>6, <1>10, <1>11, BoundedInduction
<1>13. ASSUME NEW k \in 1..n PROVE UNPACK_STR(buf, at[k - 1]) = OrNull(ss[k])
  <2>1. k - 1 \in 0..n
    BY <1>6
  <2>2. at[k - 1] = p + off[k - 1] /\ p + off[k - 1] \in Int
    BY <1>18, <1>12, <2>1
  <2>3. ss[k] \in Seq(Int)
    BY <1>6 DEF n
  <2>4. QED
    BY <1>9, <2>2, <2>3, StrRead
<1>14. at[n] = p + off[n]
  BY <1>6, <1>12
<1>15. OrNulls(ss) = [k \in 1..n |-> OrNull(ss[k])]
  BY <1>6, Zenon DEF OrNulls
<1>16. [k \in 1..n |-> UNPACK_STR(buf, at[k - 1])] = OrNulls(ss)
  BY <1>13, <1>15, Zenon
<1>17. QED
  BY <1>5, <1>7, <1>14, <1>16, Zenon DEF n

-----------------------------------------------------------------------------
(* Frames *)

LEMMA JoinLen ==
    ASSUME NEW s \in Seq(Int), NEW t \in Seq(Int), NEW m \in Nat, NEW n \in Nat,
           Len(s) = m, Len(t) = n
    PROVE  s \o t \in Seq(Int) /\ Len(s \o t) = m + n /\ m + n \in Nat
<1>1. s \o t \in Seq(Int) /\ Len(s \o t) = Len(s) + Len(t)
  BY Join, Zenon
<1>2. m + n \in Nat
  OBVIOUS
<1>3. QED
  BY <1>1, <1>2, Zenon

FrameType ==
    [type : 0..255, functype : 0..255, lineno : Int,
     filename : Seq(Int), class : Seq(Int), function : Seq(Int), level : Int,
     args : Seq(Seq(Int)), retval : Seq(Int), inc_time : Int, exc_time : Int]

LEMMA FrameTypeFields ==
    ASSUME NEW f \in FrameType
    PROVE  /\ f.type \in Int /\ f.functype \in Int /\ f.lineno \in Int
           /\ f.type % 256 = f.type /\ f.functype % 256 = f.functype
           /\ f.filename \in Seq(Int) /\ f.class \in Seq(Int) /\ f.function \in Seq(Int)
           /\ f.level \in Int
           /\ f.args \in Seq(Seq(Int)) /\ Len(f.args) \in Nat /\ Len(f.args) \in Int
           /\ f.retval \in Seq(Int) /\ f.inc_time \in Int /\ f.exc_time \in Int
<1>1. /\ f.type \in 0..255 /\ f.functype \in 0..255 /\ f.lineno \in Int
      /\ f.filename \in Seq(Int) /\ f.class \in Seq(Int) /\ f.function \in Seq(Int)
      /\ f.level \in Int /\ f.args \in Seq(Seq(Int))
      /\ f.retval \in Seq(Int) /\ f.inc_time \in Int /\ f.exc_time \in Int
  BY Zenon DEF FrameType
<1>2. Len(f.args) \in Nat
  BY <1>1
<1>3. \A x \in 0..255 : x \in Int /\ x % 256 = x
  OBVIOUS
<1>4. \A x \in Nat : x \in Int
  OBVIOUS
<1>5. QED
  BY <1>1, <1>2, <1>3, <1>4, Zenon

\* A packed frame is as long as pt_type_len_frame says, and its parts are
\* where they are one behind the other.
LEMMA FrameLaid ==
    ASSUME NEW f \in FrameType
    PROVE  /\ pt_type_pack_frame(f) \in Seq(Int)
           /\ Len(pt_type_pack_frame(f)) = pt_type_len_frame(f)
           /\ pt_type_len_frame(f) \in Nat
           /\ \A buf : \A p \in Int : Spells(buf, p, pt_type_pack_frame(f)) =>
                 /\ Spells(buf, p, Packed(1, f.type))
                 /\ Spells(buf, p + 1, Packed(1, f.functype))
                 /\ Spells(buf, p + (1 + 1), Packed(4, f.lineno))
                 /\ Spells(buf, p + (1 + 1 + 4), PACK_STR(f.filename))
                 /\ Spells(buf, p + (1 + 1 + 4 + LEN_STR(f.filename)), PACK_STR(f.class))
                 /\ Spells(buf, p + (1 + 1 + 4 + LEN_STR(f.filename) + LEN_STR(f.class)), PACK_STR(f.function))
                 /\ Spells(buf, p + (1 + 1 + 4 + LEN_STR(f.filename) + LEN_STR(f.class) + LEN_STR(f.function)), Packed(4, f.level))
                 /\ Spells(buf, p + (1 + 1 + 4 + LEN_STR(f.filename) + LEN_STR(f.class) + LEN_STR(f.function) + 4), Packed(4, Len(f.args)))
                 /\ Spells(buf, p + (1 + 1 + 4 + LEN_STR(f.filename) + LEN_STR(f.class) + LEN_STR(f.function) + 4 + 4), PackAll(PACK_STR, f.args))
                 /\ Spells(buf, p + (1 + 1 + 4 + LEN_STR(f.filename) + LEN_STR(f.class) + LEN_STR(f.function) + 4 + 4 + SumOver(LEN_STR, f.args)), PACK_STR(f.retval))
                 /\ Spells(buf, p + (1 + 1 + 4 + LEN_STR(f.filename) + LEN_STR(f.class) + LEN_STR(f.function) + 4 + 4 + SumOver(LEN_STR, f.args) + LEN_STR(f.retval)), Packed(8, f.inc_time))
                 /\ Spells(buf, p + (1 + 1 + 4 + LEN_STR(f.filename) + LEN_STR(f.class) + LEN_STR(f.function) + 4 + 4 + SumOver(LEN_STR, f.args) + LEN_STR(f.retval) + 8), Packed(8, f.exc_time))
<1>1. /\ f.type \in Int
      /\ f.functype \in Int
      /\ f.lineno \in Int
      /\ f.filename \in Seq(Int)
      /\ f.class \in Seq(Int)
      /\ f.function \in Seq(Int)
      /\ f.level \in Int
      /\ Len(f.args) \in Int
      /\ f.args \in Seq(Seq(Int))
      /\ f.retval \in Seq(Int)
      /\ f.inc_time \in Int
      /\ f.exc_time \in Int
  BY FrameTypeFields
<1> DEFINE a1 == Packed(1, f.type)
           a2 == Packed(1, f.functype)
           a3 == Packed(4, f.lineno)
           a4 == PACK_STR(f.filename)
           a5 == PACK_STR(f.class)
           a6 == PACK_STR(f.function)
           a7 == Packed(4, f.level)
           a8 == Packed(4, Len(f.args))
           a9 == PackAll(PACK_STR, f.args)
           a10 == PACK_STR(f.retval)
           a11 == Packed(8, f.inc_time)
           a12 == Packed(8, f.exc_time)
           c2 == a1 \o a2
           c3 == c2 \o a3
           c4 == c3 \o a4
           c5 == c4 \o a5
           c6 == c5 \o a6
           c7 == c6 \o a7
           c8 == c7 \o a8
           c9 == c8 \o a9
           c10 == c9 \o a10
           c11 == c10 \o a11
           c12 == c11 \o a12
<1>2. pt_type_pack_frame(f) = c12
  BY Zenon DEF pt_type_pack_frame
<1>3. a1 \in Seq(Int) /\ Len(a1) = 1 /\ 1 \in Nat
  BY <1>1, NumberIs, 1 \in Nat \ {0}
<1>4. a2 \in Seq(Int) /\ Len(a2) = 1 /\ 1 \in Nat
  BY <1>1, NumberIs, 1 \in Nat \ {0}
<1>5. a3 \in Seq(Int) /\ Len(a3) = 4 /\ 4 \in Nat
  BY <1>1, NumberIs, 4 \in Nat \ {0}
<1>6. a4 \in Seq(Int) /\ Len(a4) = LEN_STR(f.filename) /\ LEN_STR(f.filename) \in Nat
  BY <1>1, StrIs, StrLenType
<1>7. a5 \in Seq(Int) /\ Len(a5) = LEN_STR(f.class) /\ LEN_STR(f.class) \in Nat
  BY <1>1, StrIs, StrLenType
<1>8. a6 \in Seq(Int) /\ Len(a6) = LEN_STR(f.function) /\ LEN_STR(f.function) \in Nat
  BY <1>1, StrIs, StrLenType
<1>9. a7 \in Seq(Int) /\ Len(a7) = 4 /\ 4 \in Nat
  BY <1>1, NumberIs, 4 \in Nat \ {0}
<1>10. a8 \in Seq(Int) /\ Len(a8) = 4 /\ 4 \in Nat
  BY <1>1, NumberIs, 4 \in Nat \ {0}
<1>11. a9 \in Seq(Int) /\ Len(a9) = SumOver(LEN_STR, f.args) /\ SumOver(LEN_STR, f.args) \in Nat
  BY <1>1, ListIs
<1>12. a10 \in Seq(Int) /\ Len(a10) = LEN_STR(f.retval) /\ LEN_STR(f.retval) \in Nat
  BY <1>1, StrIs, StrLenType
<1>13. a11 \in Seq(Int) /\ Len(a11) = 8 /\ 8 \in Nat
  BY <1>1, NumberIs, 8 \in Nat \ {0}
<1>14. a12 \in Seq(Int) /\ Len(a12) = 8 /\ 8 \in Nat
  BY <1>1, NumberIs, 8 \in Nat \ {0}
<1> HIDE DEF a1, a2, a3, a4, a5, a6, a7, a8, a9, a10, a11, a12,
            c2, c3, c4, c5, c6, c7, c8, c9, c10, c11, c12
<1>15. /\ c2 \in Seq(Int)
      /\ Len(c2) = 1 + 1
      /\ 1 + 1 \in Nat
  BY <1>3, <1>4, JoinLen, Zenon DEF c2
<1>16. /\ c3 \in Seq(Int)
      /\ Len(c3) = 1 + 1 + 4
      /\ 1 + 1 + 4 \in Nat
  BY <1>15, <1>5, JoinLen, Zenon DEF c3
<1>17. /\ c4 \in Seq(Int)
      /\ Len(c4) = 1 + 1 + 4 + LEN_STR(f.filename)
      /\ 1 + 1 + 4 + LEN_STR(f.filename) \in Nat
  BY <1>16, <1>6, JoinLen, Zenon DEF c4
<1>18. /\ c5 \in Seq(Int)
      /\ Len(c5) = 1 + 1 + 4 + LEN_STR(f.filename) + LEN_STR(f.class)
      /\ 1 + 1 + 4 + LEN_STR(f.filename) + LEN_STR(f.class) \in Nat
  BY <1>17, <1>7, JoinLen, Zenon DEF c5
<1>19. /\ c6 \in Seq(Int)
      /\ Len(c6) = 1 + 1 + 4 + LEN_STR(f.filename) + LEN_STR(f.class) + LEN_STR(f.function)
      /\ 1 + 1 + 4 + LEN_STR(f.filename) + LEN_STR(f.class) + LEN_STR(f.function) \in Nat
  BY <1>18, <1>8, JoinLen, Zenon DEF c6
<1>20. /\ c7 \in Seq(Int)
      /\ Len(c7) = 1 + 1 + 4 + LEN_STR(f.filename) + LEN_STR(f.class) + LEN_STR(f.function) + 4
      /\ 1 + 1 + 4 + LEN_STR(f.filename) + LEN_STR(f.class) + LEN_STR(f.function) + 4 \in Nat
  BY <1>19, <1>9, JoinLen, Zenon DEF c7
<1>21. /\ c8 \in Seq(Int)
      /\ Len(c8) = 1 + 1 + 4 + LEN_STR(f.filename) + LEN_STR(f.class) + LEN_STR(f.function) + 4 + 4
      /\ 1 + 1 + 4 + LEN_STR(f.filename) + LEN_STR(f.class) + LEN_STR(f.function) + 4 + 4 \in Nat
  BY <1>20, <1>10, JoinLen, Zenon DEF c8
<1>22. /\ c9 \in Seq(Int)
      /\ Len(c9) = 1 + 1 + 4 + LEN_STR(f.filename) + LEN_STR(f.class) + LEN_STR(f.function) + 4 + 4 + SumOver(LEN_STR, f.args)
      /\ 1 + 1 + 4 + LEN_STR(f.filename) + LEN_STR(f.class) + LEN_STR(f.function) + 4 + 4 + SumOver(LEN_STR, f.args) \in Nat
  BY <1>21, <1>11, JoinLen, Zenon DEF c9
<1>23. /\ c10 \in Seq(Int)
      /\ Len(c10) = 1 + 1 + 4 + LEN_STR(f.filename) + LEN_STR(f.class) + LEN_STR(f.function) + 4 + 4 + SumOver(LEN_STR, f.args) + LEN_STR(f.retval)
      /\ 1 + 1 + 4 + LEN_STR(f.filename) + LEN_STR(f.class) + LEN_STR(f.function) + 4 + 4 + SumOver(LEN_STR, f.args) + LEN_STR(f.retval) \in Nat
  BY <1>22, <1>12, JoinLen, Zenon DEF c10
<1>24. /\ c11 \in Seq(Int)
      /\ Len(c11) = 1 + 1 + 4 + LEN_STR(f.filename) + LEN_STR(f.class) + LEN_STR(f.function) + 4 + 4 + SumOver(LEN_STR, f.args) + LEN_STR(f.retval) + 8
      /\ 1 + 1 + 4 + LEN_STR(f.filename) + LEN_STR(f.class) + LEN_STR(f.function) + 4 + 4 + SumOver(LEN_STR, f.args) + LEN_STR(f.retval) + 8 \in Nat
  BY <1>23, <1>13, JoinLen, Zenon DEF c11
<1>25. /\ c12 \in Seq(Int)
      /\ Len(c12) = 1 + 1 + 4 + LEN_STR(f.filename) + LEN_STR(f.class) + LEN_STR(f.function) + 4 + 4 + SumOver(LEN_STR, f.args) + LEN_STR(f.retval) + 8 + 8
      /\ 1 + 1 + 4 + LEN_STR(f.filename) + LEN_STR(f.class) + LEN_STR(f.function) + 4 + 4 + SumOver(LEN_STR, f.args) + LEN_STR(f.retval) + 8 + 8 \in Nat
  BY <1>24, <1>14, JoinLen, Zenon DEF c12
<1>26. Len(c12) = pt_type_len_frame(f) /\ pt_type_len_frame(f) \in Nat
  BY <1>25, Zenon DEF pt_type_len_frame
<1>27. ASSUME NEW buf, NEW p \in Int, Spells(buf, p, c12)
      PROVE  /\ Spells(buf, p, a1)
             /\ Spells(buf, p + 1, a2)
             /\ Spells(buf, p + (1 + 1), a3)
             /\ Spells(buf, p + (1 + 1 + 4), a4)
             /\ Spells(buf, p + (1 + 1 + 4 + LEN_STR(f.filename)), a5)
             /\ Spells(buf, p + (1 + 1 + 4 + LEN_STR(f.filename) + LEN_STR(f.class)), a6)
             /\ Spells(buf, p + (1 + 1 + 4 + LEN_STR(f.filename) + LEN_STR(f.class) + LEN_STR(f.function)), a7)
             /\ Spells(buf, p + (1 + 1 + 4 + LEN_STR(f.filename) + LEN_STR(f.class) + LEN_STR(f.function) + 4), a8)
             /\ Spells(buf, p + (1 + 1 + 4 + LEN_STR(f.filename) + LEN_STR(f.class) + LEN_STR(f.function) + 4 + 4), a9)
             /\ Spells(buf, p + (1 + 1 + 4 + LEN_STR(f.filename) + LEN_STR(f.class) + LEN_STR(f.function) + 4 + 4 + SumOver(LEN_STR, f.args)), a10)
             /\ Spells(buf, p + (1 + 1 + 4 + LEN_STR(f.filename) + LEN_STR(f.class) + LEN_STR(f.function) + 4 + 4 + SumOver(LEN_STR, f.args) + LEN_STR(f.retval)), a11)
             /\ Spells(buf, p + (1 + 1 + 4 + LEN_STR(f.filename) + LEN_STR(f.class) + LEN_STR(f.function) + 4 + 4 + SumOver(LEN_STR, f.args) + LEN_STR(f.retval) + 8), a12)
  <2>1. Spells(buf, p, c11) /\ Spells(buf, p + (1 + 1 + 4 + LEN_STR(f.filename) + LEN_STR(f.class) + LEN_STR(f.function) + 4 + 4 + SumOver(LEN_STR, f.args) + LEN_STR(f.retval) + 8), a12)
    BY <1>27, <1>24, <1>14, SpellsJoin, Zenon DEF c12
  <2>2. Spells(buf, p, c10) /\ Spells(buf, p + (1 + 1 + 4 + LEN_STR(f.filename) + LEN_STR(f.class) + LEN_STR(f.function) + 4 + 4 + SumOver(LEN_STR, f.args) + LEN_STR(f.retval)), a11)
    BY <2>1, <1>23, <1>13, SpellsJoin, Zenon DEF c11
  <2>3. Spells(buf, p, c9) /\ Spells(buf, p + (1 + 1 + 4 + LEN_STR(f.filename) + LEN_STR(f.class) + LEN_STR(f.function) + 4 + 4 + SumOver(LEN_STR, f.args)), a10)
    BY <2>2, <1>22, <1>12, SpellsJoin, Zenon DEF c10
  <2>4. Spells(buf, p, c8) /\ Spells(buf, p + (1 + 1 + 4 + LEN_STR(f.filename) + LEN_STR(f.class) + LEN_STR(f.function) + 4 + 4), a9)
    BY <2>3, <1>21, <1>11, SpellsJoin, Zenon DEF c9
  <2>5. Spells(buf, p, c7) /\ Spells(buf, p + (1 + 1 + 4 + LEN_STR(f.filename) + LEN_STR(f.class) + LEN_STR(f.function) + 4), a8)
    BY <2>4, <1>20, <1>10, SpellsJoin, Zenon DEF c8
  <2>6. Spells(buf, p, c6) /\ Spells(buf, p + (1 + 1 + 4 + LEN_STR(f.filename) + LEN_STR(f.class) + LEN_STR(f.function)), a7)
    BY <2>5, <1>19, <1>9, SpellsJoin, Zenon DEF c7
  <2>7. Spells(buf, p, c5) /\ Spells(buf, p + (1 + 1 + 4 + LEN_STR(f.filename) + LEN_STR(f.class)), a6)
    BY <2>6, <1>18, <1>8, SpellsJoin, Zenon DEF c6
  <2>8. Spells(buf, p, c4) /\ Spells(buf, p + (1 + 1 + 4 + LEN_STR(f.filename)), a5)
    BY <2>7, <1>17, <1>7, SpellsJoin, Zenon DEF c5
  <2>9. Spells(buf, p, c3) /\ Spells(buf, p + (1 + 1 + 4), a4)
    BY <2>8, <1>16, <1>6, SpellsJoin, Zenon DEF c4
  <2>10. Spells(buf, p, c2) /\ Spells(buf, p + (1 + 1), a3)
    BY <2>9, <1>15, <1>5, SpellsJoin, Zenon DEF c3
  <2>11. Spells(buf, p, a1) /\ Spells(buf, p + 1, a2)
    BY <2>10, <1>3, <1>4, SpellsJoin, Zenon DEF c2
  <2>12. QED
    BY <2>1, <2>2, <2>3, <2>4, <2>5, <2>6, <2>7, <2>8, <2>9, <2>10, <2>11, Zenon
<1>28. QED
  BY <1>2, <1>25, <1>26, <1>27, Zenon DEF a1, a2, a3, a4, a5, a6, a7, a8, a9, a10, a11, a12

\* Two strings one behind the other ...
LEMMA TwoRead ==
    ASSUME NEW buf, NEW p \in Int, NEW s \in Seq(Int), NEW t \in Seq(Int),
           Spells(buf, p, PACK_STR(s)), Spells(buf, p + LEN_STR(s), PACK_STR(t))
    PROVE  /\ UNPACK_STRS(buf, p, 2).vals[1] = OrNull(s)
           /\ UNPACK_STRS(buf, p, 2).vals[2] = OrNull(t)
           /\ UNPACK_STRS(buf, p, 2).end = p + LEN_STR(s) + LEN_STR(t)
<1>1. PICK at : StrsTrail(at, buf, p, 2)
  BY StrsAre
<1>2. /\ at[0] = p /\ at[1] = AfterStr(buf, at[0]) /\ at[2] = AfterStr(buf, at[1])
      /\ UNPACK_STRS(buf, p, 2).vals[1] = UNPACK_STR(buf, at[0])
      /\ UNPACK_STRS(buf, p, 2).vals[2] = UNPACK_STR(buf, at[1])
      /\ UNPACK_STRS(buf, p, 2).end = at[2]
  BY <1>1 DEF StrsTrail
<1>3. p + LEN_STR(s) \in Int
  BY StrLenType
<1>4. at[1] = p + LEN_STR(s) /\ UNPACK_STR(buf, at[0]) = OrNull(s)
  BY <1>2, StrRead, Zenon
<1>5. /\ AfterStr(buf, p + LEN_STR(s)) = p + LEN_STR(s) + LEN_STR(t)
      /\ UNPACK_STR(buf, p + LEN_STR(s)) = OrNull(t)
  BY <1>3, StrRead, Zenon
<1>6. QED
  BY <1>2, <1>4, <1>5, Zenon

\* ... and three.
LEMMA ThreeRead ==
    ASSUME NEW buf, NEW p \in Int,
           NEW s \in Seq(Int), NEW t \in Seq(Int), NEW u \in Seq(Int),
           Spells(buf, p, PACK_STR(s)), Spells(buf, p + LEN_STR(s), PACK_STR(t)),
           Spells(buf, p + LEN_STR(s) + LEN_STR(t), PACK_STR(u))
    PROVE  /\ UNPACK_STRS(buf, p, 3).vals[1] = OrNull(s)
           /\ UNPACK_STRS(buf, p, 3).vals[2] = OrNull(t)
           /\ UNPACK_STRS(buf, p, 3).vals[3] = OrNull(u)
           /\ UNPACK_STRS(buf, p, 3).end = p + LEN_STR(s) + LEN_STR(t) + LEN_STR(u)
<1>1. PICK at : StrsTrail(at, buf, p, 3)
  BY StrsAre
<1>2. /\ at[0] = p /\ at[1] = AfterStr(buf, at[0])
      /\ at[2] = AfterStr(buf, at[1]) /\ at[3] = AfterStr(buf, at[2])
      /\ UNPACK_STRS(buf, p, 3).vals[1] = UNPACK_STR(buf, at[0])
      /\ UNPACK_STRS(buf, p, 3).vals[2] = UNPACK_STR(buf, at[1])
      /\ UNPACK_STRS(buf, p, 3).vals[3] = UNPACK_STR(buf, at[2])
      /\ UNPACK_STRS(buf, p, 3).end = at[3]
  BY <1>1 DEF StrsTrail
<1>3. p + LEN_STR(s) \in Int /\ p + LEN_STR(s) + LEN_STR(t) \in Int
  BY StrLenType
<1>4. at[1] = p + LEN_STR(s) /\ UNPACK_STR(buf, at[0]) = OrNull(s)
  BY <1>2, StrRead, Zenon
<1>5. /\ AfterStr(buf, p + LEN_STR(s)) = p + LEN_STR(s) + LEN_STR(t)
      /\ UNPACK_STR(buf, p + LEN_STR(s)) = OrNull(t)
  BY <1>3, StrRead, Zenon
<1>6. /\ AfterStr(buf, p + LEN_STR(s) + LEN_STR(t)) = p + LEN_STR(s) + LEN_STR(t) + LEN_STR(u)
      /\ UNPACK_STR(buf, p + LEN_STR(s) + LEN_STR(t)) = OrNull(u)
  BY <1>3, StrRead, Zenon
<1>7. QED
  BY <1>2, <1>4, <1>5, <1>6, Zenon

LEMMA NormalFrameIs ==
    ASSUME NEW f \in FrameType
    PROVE  NormalFrame(f) =
             [type |-> f.type, functype |-> f.functype, lineno |-> f.lineno,
              filename |-> OrNull(f.filename), class |-> OrNull(f.class),
              function |-> OrNull(f.function), level |-> f.level,
              args |-> OrNulls(f.args), retval |-> OrNull(f.retval),
              inc_time |-> f.inc_time, exc_time |-> f.exc_time]
<1>1. f = [type |-> f.type, functype |-> f.functype, lineno |-> f.lineno,
           filename |-> f.filename, class |-> f.class,
           function |-> f.function, level |-> f.level,
           args |-> f.args, retval |-> f.retval,
           inc_time |-> f.inc_time, exc_time |-> f.exc_time]
  BY DEF FrameType
<1>2. NormalFrame(f) \in
         [type : {f.type}, functype : {f.functype}, lineno : {f.lineno},
          filename : {OrNull(f.filename)}, class : {OrNull(f.class)},
          function : {OrNull(f.function)}, level : {f.level},
          args : {OrNulls(f.args)}, retval : {OrNull(f.retval)},
          inc_time : {f.inc_time}, exc_time : {f.exc_time}]
  BY <1>1 DEF NormalFrame
<1>3. QED
  BY <1>2

\* A frame is read as it was built, and behind it is where it ends.
LEMMA FrameRead ==
    ASSUME NEW buf, NEW p \in Int, NEW f \in FrameType,
           Spells(buf, p, pt_type_pack_frame(f))
    PROVE  pt_type_unpack_frame(buf, p) =
              [val |-> NormalFrame(f), end |-> p + pt_type_len_frame(f)]
<1> DEFINE L1 == LEN_STR(f.filename)
           L2 == LEN_STR(f.class)
           L3 == LEN_STR(f.function)
           LA == SumOver(LEN_STR, f.args)
           LR == LEN_STR(f.retval)
           q == p + 6
           e == q + L1 + L2 + L3
           r == e + 8
           u == r + LA
           t == u + LR
<1>1. /\ L1 \in Nat /\ L2 \in Nat /\ L3 \in Nat /\ LA \in Nat /\ LR \in Nat
  BY FrameTypeFields, StrLenType, ListIs, ZenonT(40)
<1>2. /\ Spells(buf, p, Packed(1, f.type))
      /\ Spells(buf, p + 1, Packed(1, f.functype))
      /\ Spells(buf, p + (1 + 1), Packed(4, f.lineno))
      /\ Spells(buf, p + (1 + 1 + 4), PACK_STR(f.filename))
      /\ Spells(buf, p + (1 + 1 + 4 + L1), PACK_STR(f.class))
      /\ Spells(buf, p + (1 + 1 + 4 + L1 + L2), PACK_STR(f.function))
      /\ Spells(buf, p + (1 + 1 + 4 + L1 + L2 + L3), Packed(4, f.level))
      /\ Spells(buf, p + (1 + 1 + 4 + L1 + L2 + L3 + 4), Packed(4, Len(f.args)))
      /\ Spells(buf, p + (1 + 1 + 4 + L1 + L2 + L3 + 4 + 4), PackAll(PACK_STR, f.args))
      /\ Spells(buf, p + (1 + 1 + 4 + L1 + L2 + L3 + 4 + 4 + LA), PACK_STR(f.retval))
      /\ Spells(buf, p + (1 + 1 + 4 + L1 + L2 + L3 + 4 + 4 + LA + LR), Packed(8, f.inc_time))
      /\ Spells(buf, p + (1 + 1 + 4 + L1 + L2 + L3 + 4 + 4 + LA + LR + 8), Packed(8, f.exc_time))
  BY FrameLaid, Zenon
<1>3. pt_type_len_frame(f) = 1 + 1 + 4 + L1 + L2 + L3 + 4 + 4 + LA + LR + 8 + 8
  BY Zenon DEF pt_type_len_frame
<1> HIDE DEF L1, L2, L3, LA, LR
<1>4. /\ p + 1 \in Int /\ p + (1 + 1) = p + 2 /\ p + 2 \in Int
      /\ p + (1 + 1 + 4) = q /\ p + (1 + 1 + 4 + L1) = q + L1
      /\ p + (1 + 1 + 4 + L1 + L2) = q + L1 + L2
      /\ p + (1 + 1 + 4 + L1 + L2 + L3) = e
      /\ p + (1 + 1 + 4 + L1 + L2 + L3 + 4) = e + 4
      /\ p + (1 + 1 + 4 + L1 + L2 + L3 + 4 + 4) = r
  BY <1>1
<1>5. /\ p + (1 + 1 + 4 + L1 + L2 + L3 + 4 + 4 + LA) = u
      /\ p + (1 + 1 + 4 + L1 + L2 + L3 + 4 + 4 + LA + LR) = t
      /\ p + (1 + 1 + 4 + L1 + L2 + L3 + 4 + 4 + LA + LR + 8) = t + 8
      /\ p + (1 + 1 + 4 + L1 + L2 + L3 + 4 + 4 + LA + LR + 8 + 8) = t + 16
  BY <1>1
<1>6. /\ q \in Int /\ e \in Int /\ e + 4 \in Int /\ r \in Int /\ u \in Int /\ t \in Int
      /\ t + 8 \in Int
  BY <1>1
<1> HIDE DEF q, e, r, u, t
<1>7. /\ ByteAt(buf, p) = f.type /\ ByteAt(buf, p + 1) = f.functype
      /\ ByteAt(buf, p + 2) = f.lineno
  <2>1. /\ Spells(buf, p, Packed(1, f.type)) /\ Spells(buf, p + 1, Packed(1, f.functype))
        /\ Spells(buf, p + 2, Packed(4, f.lineno))
    BY <1>2, <1>4, Zenon
  <2>2. ByteAt(buf, p) = f.type % 256 /\ ByteAt(buf, p + 1) = f.functype % 256
    BY <2>1, <1>4, NumberRead, FrameTypeFields, 1 \in Nat \ {0}
  <2>3. ByteAt(buf, p + 2) = f.lineno
    BY <2>1, <1>4, NumberRead, FrameTypeFields, 4 \in Nat \ {0}, 4 # 1
  <2>4. QED
    BY <2>2, <2>3, FrameTypeFields, Zenon
<1>8. /\ UNPACK_STRS(buf, q, 3).vals[1] = OrNull(f.filename)
      /\ UNPACK_STRS(buf, q, 3).vals[2] = OrNull(f.class)
      /\ UNPACK_STRS(buf, q, 3).vals[3] = OrNull(f.function)
      /\ UNPACK_STRS(buf, q, 3).end = e
  <2>1. /\ Spells(buf, q, PACK_STR(f.filename)) /\ Spells(buf, q + L1, PACK_STR(f.class))
        /\ Spells(buf, q + L1 + L2, PACK_STR(f.function))
    BY <1>2, <1>4, Zenon
  <2>2. f.filename \in Seq(Int) /\ f.class \in Seq(Int) /\ f.function \in Seq(Int)
    BY FrameTypeFields, Zenon
  <2>3. QED
    BY <2>1, <2>2, <1>6, ThreeRead DEF L1, L2, L3, e
<1>9. ByteAt(buf, e) = f.level
  <2>1. Spells(buf, e, Packed(4, f.level))
    BY <1>2, <1>4, Zenon
  <2>2. QED
    BY <2>1, <1>6, NumberRead, FrameTypeFields, 4 \in Nat \ {0}, 4 # 1
<1>10. LenAt(buf, e + 4) = Len(f.args)
  <2>1. Spells(buf, e + 4, Packed(4, Len(f.args)))
    BY <1>2, <1>4, Zenon
  <2>2. ByteAt(buf, e + 4) = Len(f.args)
    BY <2>1, <1>6, NumberRead, FrameTypeFields, 4 \in Nat \ {0}, 4 # 1
  <2>3. QED
    BY <2>2, FrameTypeFields DEF LenAt
<1>11. UNPACK_STRS(buf, r, Len(f.args)) = [vals |-> OrNulls(f.args), end |-> u]
  <2>1. Spells(buf, r, PackAll(PACK_STR, f.args))
    BY <1>2, <1>4, Zenon
  <2>2. QED
    BY <2>1, <1>6, ListRead, FrameTypeFields, ZenonT(40) DEF LA, u
<1>12. UNPACK_STR(buf, u) = OrNull(f.retval) /\ AfterStr(buf, u) = t
  <2>1. Spells(buf, u, PACK_STR(f.retval))
    BY <1>2, <1>5, Zenon
  <2>2. QED
    BY <2>1, <1>6, StrRead, FrameTypeFields, ZenonT(40) DEF LR, t
<1>13. ByteAt(buf, t) = f.inc_time /\ ByteAt(buf, t + 8) = f.exc_time
  <2>1. /\ Spells(buf, t, Packed(8, f.inc_time))
        /\ Spells(buf, t + 8, Packed(8, f.exc_time))
    BY <1>2, <1>5, Zenon
  <2>2. QED
    BY <2>1, <1>6, NumberRead, FrameTypeFields, 8 \in Nat \ {0}, 8 # 1
<1>14. p + pt_type_len_frame(f) = t + 16
  BY <1>3, <1>5, Zenon
<1>15. p + 6 = q /\ e + 8 = r
  BY DEF q, r
<1>16. /\ UNPACK_STRS(buf, r, Len(f.args)).vals = OrNulls(f.args)
       /\ UNPACK_STRS(buf, r, Len(f.args)).end = u
  BY <1>11
<1>17. QED
  BY <1>7, <1>8, <1>9, <1>10, <1>12, <1>13, <1>14, <1>15, <1>16, NormalFrameIs, Zenon
     DEF pt_type_unpack_frame

-----------------------------------------------------------------------------
(* Requests *)

RequestType ==
    [type : 0..255, sapi : Seq(Int), script : Seq(Int), time : Int,
     method : Seq(Int), uri : Seq(Int), argv : Seq(Seq(Int))]

LEMMA RequestTypeFields ==
    ASSUME NEW r \in RequestType
    PROVE  /\ r.type \in Int /\ r.type % 256 = r.type /\ r.time \in Int
           /\ r.sapi \in Seq(Int) /\ r.script \in Seq(Int)
           /\ r.method \in Seq(Int) /\ r.uri \in Seq(Int)
           /\ r.argv \in Seq(Seq(Int)) /\ Len(r.argv) \in Nat /\ Len(r.argv) \in Int
<1>1. /\ r.type \in 0..255 /\ r.time \in Int
      /\ r.sapi \in Seq(Int) /\ r.script \in Seq(Int)
      /\ r.method \in Seq(Int) /\ r.uri \in Seq(Int) /\ r.argv \in Seq(Seq(Int))
  BY Zenon DEF RequestType
<1>2. Len(r.argv) \in Nat
  BY <1>1
<1>3. \A x \in 0..255 : x \in Int /\ x % 256 = x
  OBVIOUS
<1>4. \A x \in Nat : x \in Int
  OBVIOUS
<1>5. QED
  BY <1>1, <1>2, <1>3, <1>4, Zenon

\* A packed request is as long as pt_type_len_request says, its parts one
\* behind the other.
LEMMA RequestLaid ==
    ASSUME NEW r \in RequestType
    PROVE  /\ pt_type_pack_request(r) \in Seq(Int)
           /\ Len(pt_type_pack_request(r)) = pt_type_len_request(r)
           /\ pt_type_len_request(r) \in Nat
           /\ \A buf : \A p \in Int : Spells(buf, p, pt_type_pack_request(r)) =>
                 /\ Spells(buf, p, Packed(1, r.type))
                 /\ Spells(buf, p + 1, PACK_STR(r.sapi))
                 /\ Spells(buf, p + (1 + LEN_STR(r.sapi)), PACK_STR(r.script))
                 /\ Spells(buf, p + (1 + LEN_STR(r.sapi) + LEN_STR(r.script)), Packed(8, r.time))
                 /\ Spells(buf, p + (1 + LEN_STR(r.sapi) + LEN_STR(r.script) + 8), PACK_STR(r.method))
                 /\ Spells(buf, p + (1 + LEN_STR(r.sapi) + LEN_STR(r.script) + 8 + LEN_STR(r.method)), PACK_STR(r.uri))
                 /\ Spells(buf, p + (1 + LEN_STR(r.sapi) + LEN_STR(r.script) + 8 + LEN_STR(r.method) + LEN_STR(r.uri)), Packed(4, Len(r.argv)))
                 /\ Spells(buf, p + (1 + LEN_STR(r.sapi) + LEN_STR(r.script) + 8 + LEN_STR(r.method) + LEN_STR(r.uri) + 4), PackAll(PACK_STR, r.argv))
<1>1. /\ r.type \in Int
      /\ r.sapi \in Seq(Int)
      /\ r.script \in Seq(Int)
      /\ r.time \in Int
      /\ r.method \in Seq(Int)
      /\ r.uri \in Seq(Int)
      /\ Len(r.argv) \in Int
      /\ r.argv \in Seq(Seq(Int))
  BY RequestTypeFields
<1> DEFINE a1 == Packed(1, r.type)
           a2 == PACK_STR(r.sapi)
           a3 == PACK_STR(r.script)
           a4 == Packed(8, r.time)
           a5 == PACK_STR(r.method)
           a6 == PACK_STR(r.uri)
           a7 == Packed(4, Len(r.argv))
           a8 == PackAll(PACK_STR, r.argv)
           c2 == a1 \o a2
           c3 == c2 \o a3
           c4 == c3 \o a4
           c5 == c4 \o a5
           c6 == c5 \o a6
           c7 == c6 \o a7
           c8 == c7 \o a8
<1>2. pt_type_pack_request(r) = c8
  BY Zenon DEF pt_type_pack_request
<1>3. a1 \in Seq(Int) /\ Len(a1) = 1 /\ 1 \in Nat
  BY <1>1, NumberIs, 1 \in Nat \ {0}
<1>4. a2 \in Seq(Int) /\ Len(a2) = LEN_STR(r.sapi) /\ LEN_STR(r.sapi) \in Nat
  BY <1>1, StrIs, StrLenType
<1>5. a3 \in Seq(Int) /\ Len(a3) = LEN_STR(r.script) /\ LEN_STR(r.script) \in Nat
  BY <1>1, StrIs, StrLenType
<1>6. a4 \in Seq(Int) /\ Len(a4) = 8 /\ 8 \in Nat
  BY <1>1, NumberIs, 8 \in Nat \ {0}
<1>7. a5 \in Seq(Int) /\ Len(a5) = LEN_STR(r.method) /\ LEN_STR(r.method) \in Nat
  BY <1>1, StrIs, StrLenType
<1>8. a6 \in Seq(Int) /\ Len(a6) = LEN_STR(r.uri) /\ LEN_STR(r.uri) \in Nat
  BY <1>1, StrIs, StrLenType
<1>9. a7 \in Seq(Int) /\ Len(a7) = 4 /\ 4 \in Nat
  BY <1>1, NumberIs, 4 \in Nat \ {0}
<1>10. a8 \in Seq(Int) /\ Len(a8) = SumOver(LEN_STR, r.argv) /\ SumOver(LEN_STR, r.argv) \in Nat
  BY <1>1, ListIs
<1> HIDE DEF a1, a2, a3, a4, a5, a6, a7, a8,
            c2, c3, c4, c5, c6, c7, c8
<1>11. /\ c2 \in Seq(Int)
      /\ Len(c2) = 1 + LEN_STR(r.sapi)
      /\ 1 + LEN_STR(r.sapi) \in Nat
  BY <1>3, <1>4, JoinLen, Zenon DEF c2
<1>12. /\ c3 \in Seq(Int)
      /\ Len(c3) = 1 + LEN_STR(r.sapi) + LEN_STR(r.script)
      /\ 1 + LEN_STR(r.sapi) + LEN_STR(r.script) \in Nat
  BY <1>11, <1>5, JoinLen, Zenon DEF c3
<1>13. /\ c4 \in Seq(Int)
      /\ Len(c4) = 1 + LEN_STR(r.sapi) + LEN_STR(r.script) + 8
      /\ 1 + LEN_STR(r.sapi) + LEN_STR(r.script) + 8 \in Nat
  BY <1>12, <1>6, JoinLen, Zenon DEF c4
<1>14. /\ c5 \in Seq(Int)
      /\ Len(c5) = 1 + LEN_STR(r.sapi) + LEN_STR(r.script) + 8 + LEN_STR(r.method)
      /\ 1 + LEN_STR(r.sapi) + LEN_STR(r.script) + 8 + LEN_STR(r.method) \in Nat
  BY <1>13, <1>7, JoinLen, Zenon DEF c5
<1>15. /\ c6 \in Seq(Int)
      /\ Len(c6) = 1 + LEN_STR(r.sapi) + LEN_STR(r.script) + 8 + LEN_STR(r.method) + LEN_STR(r.uri)
      /\ 1 + LEN_STR(r.sapi) + LEN_STR(r.script) + 8 + LEN_STR(r.method) + LEN_STR(r.uri) \in Nat
  BY <1>14, <1>8, JoinLen, Zenon DEF c6
<1>16. /\ c7 \in Seq(Int)
      /\ Len(c7) = 1 + LEN_STR(r.sapi) + LEN_STR(r.script) + 8 + LEN_STR(r.method) + LEN_STR(r.uri) + 4
      /\ 1 + LEN_STR(r.sapi) + LEN_STR(r.script) + 8 + LEN_STR(r.method) + LEN_STR(r.uri) + 4 \in Nat
  BY <1>15, <1>9, JoinLen, Zenon DEF c7
<1>17. /\ c8 \in Seq(Int)
      /\ Len(c8) = 1 + LEN_STR(r.sapi) + LEN_STR(r.script) + 8 + LEN_STR(r.method) + LEN_STR(r.uri) + 4 + SumOver(LEN_STR, r.argv)
      /\ 1 + LEN_STR(r.sapi) + LEN_STR(r.script) + 8 + LEN_STR(r.method) + LEN_STR(r.uri) + 4 + SumOver(LEN_STR, r.argv) \in Nat
  BY <1>16, <1>10, JoinLen, Zenon DEF c8
<1>18. Len(c8) = pt_type_len_request(r) /\ pt_type_len_request(r) \in Nat
  BY <1>17, Zenon DEF pt_type_len_request
<1>19. ASSUME NEW buf, NEW p \in Int, Spells(buf, p, c8)
      PROVE  /\ Spells(buf, p, a1)
             /\ Spells(buf, p + 1, a2)
             /\ Spells(buf, p + (1 + LEN_STR(r.sapi)), a3)
             /\ Spells(buf, p + (1 + LEN_STR(r.sapi) + LEN_STR(r.script)), a4)
             /\ Spells(buf, p + (1 + LEN_STR(r.sapi) + LEN_STR(r.script) + 8), a5)
             /\ Spells(buf, p + (1 + LEN_STR(r.sapi) + LEN_STR(r.script) + 8 + LEN_STR(r.method)), a6)
             /\ Spells(buf, p + (1 + LEN_STR(r.sapi) + LEN_STR(r.script) + 8 + LEN_STR(r.method) + LEN_STR(r.uri)), a7)
             /\ Spells(buf, p + (1 + LEN_STR(r.sapi) + LEN_STR(r.script) + 8 + LEN_STR(r.method) + LEN_STR(r.uri) + 4), a8)
  <2>1. Spells(buf, p, c7) /\ Spells(buf, p + (1 + LEN_STR(r.sapi) + LEN_STR(r.script) + 8 + LEN_STR(r.method) + LEN_STR(r.uri) + 4), a8)
    BY <1>19, <1>16, <1>10, SpellsJoin, Zenon DEF c8
  <2>2. Spells(buf, p, c6) /\ Spells(buf, p + (1 + LEN_STR(r.sapi) + LEN_STR(r.script) + 8 + LEN_STR(r.method) + LEN_STR(r.uri)), a7)
    BY <2>1, <1>15, <1>9, SpellsJoin, Zenon DEF c7
  <2>3. Spells(buf, p, c5) /\ Spells(buf, p + (1 + LEN_STR(r.sapi) + LEN_STR(r.script) + 8 + LEN_STR(r.method)), a6)
    BY <2>2, <1>14, <1>8, SpellsJoin, Zenon DEF c6
  <2>4. Spells(buf, p, c4) /\ Spells(buf, p + (1 + LEN_STR(r.sapi) + LEN_STR(r.script) + 8), a5)
    BY <2>3, <1>13, <1>7, SpellsJoin, Zenon DEF c5
  <2>5. Spells(buf, p, c3) /\ Spells(buf, p + (1 + LEN_STR(r.sapi) + LEN_STR(r.script)), a4)
    BY <2>4, <1>12, <1>6, SpellsJoin, Zenon DEF c4
  <2>6. Spells(buf, p, c2) /\ Spells(buf, p + (1 + LEN_STR(r.sapi)), a3)
    BY <2>5, <1>11, <1>5, SpellsJoin, Zenon DEF c3
  <2>7. Spells(buf, p, a1) /\ Spells(buf, p + 1, a2)
    BY <2>6, <1>3, <1>4, SpellsJoin, Zenon DEF c2
  <2>8. QED
    BY <2>1, <2>2, <2>3, <2>4, <2>5, <2>6, <2>7, Zenon
<1>20. QED
  BY <1>2, <1>17, <1>18, <1>19, Zenon DEF a1, a2, a3, a4, a5, a6, a7, a8

LEMMA NormalRequestIs ==
    ASSUME NEW r \in RequestType
    PROVE  NormalRequest(r) =
             [type |-> r.type, sapi |-> OrNull(r.sapi), script |-> OrNull(r.script),
              time |-> r.time, method |-> OrNull(r.method), uri |-> OrNull(r.uri),
              argv |-> OrNulls(r.argv)]
<1>1. r = [type |-> r.type, sapi |-> r.sapi, script |-> r.script, time |-> r.time,
           method |-> r.method, uri |-> r.uri, argv |-> r.argv]
  BY DEF RequestType
<1>2. NormalRequest(r) \in
         [type : {r.type}, sapi : {OrNull(r.sapi)}, script : {OrNull(r.script)},
          time : {r.time}, method : {OrNull(r.method)}, uri : {OrNull(r.uri)},
          argv : {OrNulls(r.argv)}]
  BY <1>1 DEF NormalRequest
<1>3. QED
  BY <1>2

\* A request is read as it was built, and behind it is where it ends.
LEMMA RequestRead ==
    ASSUME NEW buf, NEW p \in Int, NEW r \in RequestType,
           Spells(buf, p, pt_type_pack_request(r))
    PROVE  pt_type_unpack_request(buf, p) =
              [val |-> NormalRequest(r), end |-> p + pt_type_len_request(r)]
<1> DEFINE L1 == LEN_STR(r.sapi)
           L2 == LEN_STR(r.script)
           L3 == LEN_STR(r.method)
           L4 == LEN_STR(r.uri)
           LA == SumOver(LEN_STR, r.argv)
           q == p + 1
           e == q + L1 + L2
           u == e + 8
           t == u + L3 + L4
           x == t + 4
<1>1. L1 \in Nat /\ L2 \in Nat /\ L3 \in Nat /\ L4 \in Nat /\ LA \in Nat
  BY RequestTypeFields, StrLenType, ListIs, Zenon
<1>2. /\ Spells(buf, p, Packed(1, r.type))
      /\ Spells(buf, p + 1, PACK_STR(r.sapi))
      /\ Spells(buf, p + (1 + L1), PACK_STR(r.script))
      /\ Spells(buf, p + (1 + L1 + L2), Packed(8, r.time))
      /\ Spells(buf, p + (1 + L1 + L2 + 8), PACK_STR(r.method))
      /\ Spells(buf, p + (1 + L1 + L2 + 8 + L3), PACK_STR(r.uri))
      /\ Spells(buf, p + (1 + L1 + L2 + 8 + L3 + L4), Packed(4, Len(r.argv)))
      /\ Spells(buf, p + (1 + L1 + L2 + 8 + L3 + L4 + 4), PackAll(PACK_STR, r.argv))
  BY RequestLaid, Zenon
<1>3. pt_type_len_request(r) = 1 + L1 + L2 + 8 + L3 + L4 + 4 + LA
  BY Zenon DEF pt_type_len_request
<1> HIDE DEF L1, L2, L3, L4, LA
<1>4. /\ p + 1 = q /\ p + (1 + L1) = q + L1
      /\ p + (1 + L1 + L2) = e /\ p + (1 + L1 + L2 + 8) = u
      /\ p + (1 + L1 + L2 + 8 + L3) = u + L3
      /\ p + (1 + L1 + L2 + 8 + L3 + L4) = t
      /\ p + (1 + L1 + L2 + 8 + L3 + L4 + 4) = x
      /\ p + (1 + L1 + L2 + 8 + L3 + L4 + 4 + LA) = x + LA
  BY <1>1
<1>5. q \in Int /\ e \in Int /\ u \in Int /\ t \in Int /\ x \in Int
  BY <1>1
<1>6. e + 8 = u /\ t + 4 = x
  BY Zenon
<1> HIDE DEF q, e, u, t, x
<1>7. ByteAt(buf, p) = r.type
  <2>1. ByteAt(buf, p) = r.type % 256
    BY <1>2, NumberRead, RequestTypeFields, 1 \in Nat \ {0}
  <2>2. QED
    BY <2>1, RequestTypeFields, Zenon
<1>8. /\ UNPACK_STRS(buf, q, 2).vals[1] = OrNull(r.sapi)
      /\ UNPACK_STRS(buf, q, 2).vals[2] = OrNull(r.script)
      /\ UNPACK_STRS(buf, q, 2).end = e
  <2>1. Spells(buf, q, PACK_STR(r.sapi)) /\ Spells(buf, q + L1, PACK_STR(r.script))
    BY <1>2, <1>4, Zenon
  <2>2. r.sapi \in Seq(Int) /\ r.script \in Seq(Int)
    BY RequestTypeFields, Zenon
  <2>3. QED
    BY <2>1, <2>2, <1>5, TwoRead DEF L1, L2, e
<1>9. ByteAt(buf, e) = r.time
  <2>1. Spells(buf, e, Packed(8, r.time))
    BY <1>2, <1>4, Zenon
  <2>2. QED
    BY <2>1, <1>5, NumberRead, RequestTypeFields, 8 \in Nat \ {0}, 8 # 1
<1>10. /\ UNPACK_STRS(buf, u, 2).vals[1] = OrNull(r.method)
       /\ UNPACK_STRS(buf, u, 2).vals[2] = OrNull(r.uri)
       /\ UNPACK_STRS(buf, u, 2).end = t
  <2>1. Spells(buf, u, PACK_STR(r.method)) /\ Spells(buf, u + L3, PACK_STR(r.uri))
    BY <1>2, <1>4, Zenon
  <2>2. r.method \in Seq(Int) /\ r.uri \in Seq(Int)
    BY RequestTypeFields, Zenon
  <2>3. QED
    BY <2>1, <2>2, <1>5, TwoRead DEF L3, L4, t
<1>11. LenAt(buf, t) = Len(r.argv)
  <2>1. Spells(buf, t, Packed(4, Len(r.argv)))
    BY <1>2, <1>4, Zenon
  <2>2. ByteAt(buf, t) = Len(r.argv)
    BY <2>1, <1>5, NumberRead, RequestTypeFields, 4 \in Nat \ {0}, 4 # 1
  <2>3. QED
    BY <2>2, RequestTypeFields DEF LenAt
<1>12. UNPACK_STRS(buf, x, Len(r.argv)) = [vals |-> OrNulls(r.argv), end |-> x + LA]
  <2>1. Spells(buf, x, PackAll(PACK_STR, r.argv))
    BY <1>2, <1>4, Zenon
  <2>2. QED
    BY <2>1, <1>5, ListRead, RequestTypeFields, Zenon DEF LA
<1>13. /\ UNPACK_STRS(buf, x, Len(r.argv)).vals = OrNulls(r.argv)
       /\ UNPACK_STRS(buf, x, Len(r.argv)).end = x + LA
  BY <1>12
<1>14. p + pt_type_len_request(r) = x + LA
  BY <1>3, <1>4, Zenon
<1>15. QED
  BY <1>4, <1>6, <1>7, <1>8, <1>9, <1>10, <1>11, <1>13, <1>14, NormalRequestIs, Zenon
     DEF pt_type_unpack_request

-----------------------------------------------------------------------------
(* Lists of frames *)

FrameVal(buf, p) == pt_type_unpack_frame(buf, p).val

FrameEnd(buf, p) == pt_type_unpack_frame(buf, p).end

NormalFrames(fs) == [i \in DOMAIN fs |-> NormalFrame(fs[i])]

LEMMA FrameReadParts ==
    ASSUME NEW buf, NEW p \in Int, NEW f \in FrameType,
           Spells(buf, p, pt_type_pack_frame(f))
    PROVE  /\ FrameVal(buf, p) = NormalFrame(f)
           /\ FrameEnd(buf, p) = p + pt_type_len_frame(f)
<1>1. pt_type_unpack_frame(buf, p) =
        [val |-> NormalFrame(f), end |-> p + pt_type_len_frame(f)]
  BY FrameRead, Zenon
<1>2. QED
  BY <1>1 DEF FrameVal, FrameEnd

IsFrameWalk(g, buf, p, n) == g = [k \in 0..n |-> IF k = 0 THEN p ELSE FrameEnd(buf, g[k - 1])]

\* The recursion in UnpackFrames has a solution.
LEMMA FrameWalkExists ==
    ASSUME NEW buf, NEW p, NEW N \in Nat
    PROVE  \A n \in 0..N : \E g : IsFrameWalk(g, buf, p, n)
<1> DEFINE S == {n \in 0..N : \E g : IsFrameWalk(g, buf, p, n)}
<1>1. 0 \in S
  <2> DEFINE g == [k \in 0..0 |-> p]
  <2>1. IsFrameWalk(g, buf, p, 0)
    BY DEF IsFrameWalk
  <2>2. QED
    BY <2>1
<1>2. ASSUME NEW n \in 0..(N - 1), n \in S PROVE n + 1 \in S
  <2>1. PICK g : IsFrameWalk(g, buf, p, n)
    BY <1>2
  <2> DEFINE h == [k \in 0..(n + 1) |-> IF k = n + 1 THEN FrameEnd(buf, g[n]) ELSE g[k]]
  <2>2. IsFrameWalk(h, buf, p, n + 1)
    BY <2>1 DEF IsFrameWalk
  <2> HIDE DEF h
  <2>3. QED
    BY <2>2
<1>3. QED
  <2> HIDE DEF S
  <2>1. \A n \in 0..N : n \in S
    BY <1>1, <1>2, BoundedInduction
  <2>2. QED
    BY <2>1 DEF S

\* at[k] is where UnpackFrames has got after k frames.
FramesTrail(at, buf, p, n) ==
    /\ at[0] = p
    /\ \A k \in 1..n : at[k] = FrameEnd(buf, at[k - 1])
    /\ UnpackFrames(buf, p, n) =
          [vals |-> [k \in 1..n |-> FrameVal(buf, at[k - 1])], end |-> at[n]]

\* UnpackFrames goes from frame to frame.
LEMMA FramesAre ==
    ASSUME NEW buf, NEW p, NEW n \in Nat
    PROVE  \E at : FramesTrail(at, buf, p, n)
<1> DEFINE f == CHOOSE f : f = [k \in 0..n |-> IF k = 0 THEN p ELSE FrameEnd(buf, f[k - 1])]
<1>1. \E g : g = [k \in 0..n |-> IF k = 0 THEN p ELSE FrameEnd(buf, g[k - 1])]
  <2>1. n \in 0..n
    OBVIOUS
  <2>2. \E g : IsFrameWalk(g, buf, p, n)
    BY <2>1, FrameWalkExists, Zenon
  <2>3. QED
    BY <2>2, Zenon DEF IsFrameWalk
<1>2. f = [k \in 0..n |-> IF k = 0 THEN p ELSE FrameEnd(buf, f[k - 1])]
  BY <1>1, Zenon
<1>3. UnpackFrames(buf, p, n) =
        [vals |-> [k \in 1..n |-> FrameVal(buf, f[k - 1])], end |-> f[n]]
  BY Zenon DEF UnpackFrames, FrameVal, FrameEnd
<1> HIDE DEF f
<1>4. f[0] = p /\ \A k \in 1..n : f[k] = FrameEnd(buf, f[k - 1])
  BY <1>2
<1>5. FramesTrail(f, buf, p, n)
  BY <1>3, <1>4, Zenon DEF FramesTrail
<1>6. QED
  BY <1>5, Zenon

Packs(fs) == [i \in DOMAIN fs |-> pt_type_pack_frame(fs[i])]

FrameLens(fs) == [i \in DOMAIN fs |-> pt_type_len_frame(fs[i])]

LEMMA PacksType ==
    ASSUME NEW fs \in Seq(FrameType)
    PROVE  /\ Packs(fs) \in Seq(Seq(Int)) /\ Len(Packs(fs)) = Len(fs)
           /\ \A i \in 1..Len(fs) : Packs(fs)[i] = pt_type_pack_frame(fs[i])
           /\ Lengths(Packs(fs)) = FrameLens(fs)
           /\ FrameLens(fs) \in Seq(Nat) /\ Len(FrameLens(fs)) = Len(fs)
           /\ \A i \in 1..Len(fs) : FrameLens(fs)[i] = pt_type_len_frame(fs[i])
<1>1. DOMAIN fs = 1..Len(fs) /\ Len(fs) \in Nat
  OBVIOUS
<1>2. ASSUME NEW i \in 1..Len(fs)
      PROVE  /\ pt_type_pack_frame(fs[i]) \in Seq(Int) /\ Len(pt_type_pack_frame(fs[i])) = pt_type_len_frame(fs[i])
             /\ pt_type_len_frame(fs[i]) \in Nat
  <2>1. fs[i] \in FrameType
    OBVIOUS
  <2>2. QED
    BY <2>1, FrameLaid
<1>3. Packs(fs) = [i \in 1..Len(fs) |-> pt_type_pack_frame(fs[i])]
  BY <1>1, Zenon DEF Packs
<1>4. FrameLens(fs) = [i \in 1..Len(fs) |-> pt_type_len_frame(fs[i])]
  BY <1>1, Zenon DEF FrameLens
<1>5. /\ Packs(fs) \in Seq(Seq(Int)) /\ Len(Packs(fs)) = Len(fs)
      /\ \A i \in 1..Len(fs) : Packs(fs)[i] = pt_type_pack_frame(fs[i])
  BY <1>1, <1>2, <1>3
<1>6. /\ FrameLens(fs) \in Seq(Nat) /\ Len(FrameLens(fs)) = Len(fs)
      /\ \A i \in 1..Len(fs) : FrameLens(fs)[i] = pt_type_len_frame(fs[i])
  BY <1>1, <1>2, <1>4
<1>7. Lengths(Packs(fs)) = FrameLens(fs)
  <2>1. DOMAIN Packs(fs) = 1..Len(fs)
    BY <1>3, Zenon
  <2>2. Lengths(Packs(fs)) = [i \in 1..Len(fs) |-> Len(Packs(fs)[i])]
    BY <2>1, Zenon DEF Lengths
  <2>3. \A i \in 1..Len(fs) : Len(Packs(fs)[i]) = pt_type_len_frame(fs[i])
    BY <1>2, <1>5, Zenon
  <2>4. QED
    BY <1>4, <2>2, <2>3, Zenon
<1>8. QED
  BY <1>5, <1>6, <1>7, Zenon

\* A list of frames is as long as their lengths say.
LEMMA FramesIs ==
    ASSUME NEW fs \in Seq(FrameType)
    PROVE  /\ PackAll(pt_type_pack_frame, fs) \in Seq(Int)
           /\ Len(PackAll(pt_type_pack_frame, fs)) = SumOver(pt_type_len_frame, fs)
           /\ SumOver(pt_type_len_frame, fs) \in Nat
<1>1. PackAll(pt_type_pack_frame, fs) = FlattenSeq(Packs(fs))
  BY DEF PackAll, Packs
<1>2. SumOver(pt_type_len_frame, fs) = Total(FrameLens(fs))
  BY DEF SumOver, FrameLens
<1>3. PICK off : /\ IsLayout(off, Lengths(Packs(fs)))
                 /\ Lays(FlattenSeq(Packs(fs)), Packs(fs), off, Len(Packs(fs)))
  BY PacksType, FlattenIs
<1>4. IsLayout(off, FrameLens(fs))
  BY <1>3, PacksType, Zenon
<1>5. Total(FrameLens(fs)) = off[Len(fs)]
  BY <1>4, PacksType, TotalOf
<1>6. FlattenSeq(Packs(fs)) \in Seq(Int) /\ Len(FlattenSeq(Packs(fs))) = off[Len(fs)]
  BY <1>3, PacksType, Zenon DEF Lays
<1>7. QED
  BY <1>1, <1>2, <1>5, <1>6

\* A list of frames is read where it was written.
LEMMA FramesRead ==
    ASSUME NEW buf, NEW p \in Int, NEW fs \in Seq(FrameType),
           Spells(buf, p, PackAll(pt_type_pack_frame, fs))
    PROVE  UnpackFrames(buf, p, Len(fs)) =
              [vals |-> NormalFrames(fs), end |-> p + SumOver(pt_type_len_frame, fs)]
<1> DEFINE n == Len(fs)
           flat == FlattenSeq(Packs(fs))
<1>1. flat = PackAll(pt_type_pack_frame, fs)
  BY DEF PackAll, Packs
<1>2. SumOver(pt_type_len_frame, fs) = Total(FrameLens(fs))
  BY DEF SumOver, FrameLens
<1>3. PICK off : /\ IsLayout(off, Lengths(Packs(fs)))
                 /\ Lays(flat, Packs(fs), off, Len(Packs(fs)))
  BY PacksType, FlattenIs
<1>4. IsLayout(off, FrameLens(fs)) /\ Lays(flat, Packs(fs), off, n)
  BY <1>3, PacksType, Zenon
<1>5. SumOver(pt_type_len_frame, fs) = off[n]
  BY <1>2, <1>4, PacksType, TotalOf
<1>6. n \in Nat /\ DOMAIN fs = 1..n
  OBVIOUS
<1>19. PICK at : FramesTrail(at, buf, p, n)
  <2> HIDE DEF n
  <2>1. QED
    BY <1>6, FramesAre
<1>7. /\ at[0] = p
      /\ \A k \in 1..n : at[k] = FrameEnd(buf, at[k - 1])
      /\ UnpackFrames(buf, p, n) =
            [vals |-> [k \in 1..n |-> FrameVal(buf, at[k - 1])], end |-> at[n]]
  BY <1>19, Zenon DEF FramesTrail
<1>8. off \in [0..n -> Nat] /\ off[0] = 0 /\ \A k \in 1..n : off[k] = off[k - 1] + pt_type_len_frame(fs[k])
  <2>1. Len(FrameLens(fs)) = n /\ \A i \in 1..n : FrameLens(fs)[i] = pt_type_len_frame(fs[i])
    BY PacksType
  <2>2. QED
    BY <1>4, <2>1, Zenon DEF IsLayout
<1>18. \A k \in 0..n : off[k] \in Nat
  BY <1>8, Zenon
<1>9. ASSUME NEW k \in 1..n PROVE Spells(buf, p + off[k - 1], pt_type_pack_frame(fs[k]))
  <2>1. off[k - 1] \in Int
    BY <1>6, <1>18, k - 1 \in 0..n
  <2>5. fs[k] \in FrameType
    OBVIOUS
  <2>2. Packs(fs)[k] = pt_type_pack_frame(fs[k])
    BY PacksType
  <2>3. ASSUME NEW j \in 1..Len(pt_type_pack_frame(fs[k]))
        PROVE  ByteAt(buf, (p + off[k - 1]) + j - 1) = pt_type_pack_frame(fs[k])[j]
    <3>1. off[k - 1] + j \in 1..off[n] /\ flat[off[k - 1] + j] = pt_type_pack_frame(fs[k])[j]
      BY <1>4, <2>2, Zenon DEF Lays
    <3>2. off[k - 1] + j \in 1..Len(flat)
      BY <1>4, <3>1, Zenon DEF Lays
    <3>3. ByteAt(buf, p + (off[k - 1] + j) - 1) = flat[off[k - 1] + j]
      BY <1>1, <3>2, Zenon DEF Spells
    <3>4. j \in Int
      <4>1. pt_type_pack_frame(fs[k]) \in Seq(Int)
        BY <2>5, FrameLaid
      <4>2. QED
        BY <4>1
    <3>5. p + (off[k - 1] + j) - 1 = (p + off[k - 1]) + j - 1
      BY <2>1, <3>4
    <3>6. QED
      BY <3>1, <3>3, <3>5, Zenon
  <2>4. QED
    BY <2>3, Zenon DEF Spells
<1> HIDE DEF n, flat
<1> DEFINE S == {k \in 0..n : at[k] = p + off[k]}
<1>10. 0 \in S
  BY <1>6, <1>7, <1>8
<1>11. ASSUME NEW k \in 0..(n - 1), k \in S PROVE k + 1 \in S
  <2>1. k + 1 \in 1..n /\ (k + 1) - 1 = k
    BY <1>6
  <2>2. at[k + 1] = FrameEnd(buf, p + off[k])
    BY <1>7, <1>11, <2>1
  <2>3. Spells(buf, p + off[k], pt_type_pack_frame(fs[k + 1]))
    BY <1>9, <2>1, Zenon
  <2>4. fs[k + 1] \in FrameType /\ off[k] \in Nat
    BY <1>6, <1>18, <2>1 DEF n
  <2>5. FrameEnd(buf, p + off[k]) = (p + off[k]) + pt_type_len_frame(fs[k + 1])
    BY <2>3, <2>4, FrameReadParts, p + off[k] \in Int
  <2>6. off[k + 1] = off[k] + pt_type_len_frame(fs[k + 1])
    BY <1>8, <2>1, Zenon
  <2>7. pt_type_len_frame(fs[k + 1]) \in Nat
    BY <2>4, FrameLaid
  <2>8. QED
    BY <1>6, <2>1, <2>2, <2>4, <2>5, <2>6, <2>7
<1>12. \A k \in 0..n : k \in S
  <2> HIDE DEF S
  <2>1. QED
    BY <1>6, <1>10, <1>11, BoundedInduction
<1>13. ASSUME NEW k \in 1..n PROVE FrameVal(buf, at[k - 1]) = NormalFrame(fs[k])
  <2>1. k - 1 \in 0..n
    BY <1>6
  <2>2. at[k - 1] = p + off[k - 1] /\ p + off[k - 1] \in Int
    BY <1>18, <1>12, <2>1
  <2>3. fs[k] \in FrameType
    BY <1>6 DEF n
  <2>4. QED
    BY <1>9, <2>2, <2>3, FrameReadParts
<1>14. at[n] = p + off[n]
  BY <1>6, <1>12
<1>15. NormalFrames(fs) = [k \in 1..n |-> NormalFrame(fs[k])]
  BY <1>6, Zenon DEF NormalFrames
<1>16. [k \in 1..n |-> FrameVal(buf, at[k - 1])] = NormalFrames(fs)
  BY <1>13, <1>15, Zenon
<1>17. QED
  BY <1>5, <1>7, <1>14, <1>16, Zenon DEF n

-----------------------------------------------------------------------------
(* Status *)

StatusType ==
    [php_version : Seq(Int), mem : Int, mempeak : Int, mem_real : Int,
     mempeak_real : Int, request : RequestType, frames : Seq(FrameType)]

LEMMA StatusTypeFields ==
    ASSUME NEW s \in StatusType
    PROVE  /\ s.php_version \in Seq(Int) /\ s.mem \in Int /\ s.mempeak \in Int
           /\ s.mem_real \in Int /\ s.mempeak_real \in Int
           /\ s.request \in RequestType /\ s.frames \in Seq(FrameType)
           /\ Len(s.frames) \in Nat /\ Len(s.frames) \in Int
<1>1. /\ s.php_version \in Seq(Int) /\ s.mem \in Int /\ s.mempeak \in Int
      /\ s.mem_real \in Int /\ s.mempeak_real \in Int
      /\ s.request \in RequestType /\ s.frames \in Seq(FrameType)
  BY Zenon DEF StatusType
<1>2. Len(s.frames) \in Nat
  BY <1>1
<1>3. \A x \in Nat : x \in Int
  OBVIOUS
<1>4. QED
  BY <1>1, <1>2, <1>3, Zenon

LEMMA FourEights ==
    ASSUME NEW x \in Nat, NEW y \in Nat, NEW z \in Nat
    PROVE  x + 8 + 8 + 8 + 8 + y + 4 + z = x + 4 * 8 + y + 4 + z
OBVIOUS

\* A packed status is as long as pt_type_len_status says, its parts one
\* behind the other.
LEMMA StatusLaid ==
    ASSUME NEW s \in StatusType
    PROVE  /\ pt_type_pack_status(s) \in Seq(Int)
           /\ Len(pt_type_pack_status(s)) = pt_type_len_status(s)
           /\ pt_type_len_status(s) \in Nat
           /\ \A buf : \A p \in Int : Spells(buf, p, pt_type_pack_status(s)) =>
                 /\ Spells(buf, p, PACK_STR(s.php_version))
                 /\ Spells(buf, p + LEN_STR(s.php_version), Packed(8, s.mem))
                 /\ Spells(buf, p + (LEN_STR(s.php_version) + 8), Packed(8, s.mempeak))
                 /\ Spells(buf, p + (LEN_STR(s.php_version) + 8 + 8), Packed(8, s.mem_real))
                 /\ Spells(buf, p + (LEN_STR(s.php_version) + 8 + 8 + 8), Packed(8, s.mempeak_real))
                 /\ Spells(buf, p + (LEN_STR(s.php_version) + 8 + 8 + 8 + 8), pt_type_pack_request(s.request))
                 /\ Spells(buf, p + (LEN_STR(s.php_version) + 8 + 8 + 8 + 8 + pt_type_len_request(s.request)), Packed(4, Len(s.frames)))
                 /\ Spells(buf, p + (LEN_STR(s.php_version) + 8 + 8 + 8 + 8 + pt_type_len_request(s.request) + 4), PackAll(pt_type_pack_frame, s.frames))
<1>1. /\ s.php_version \in Seq(Int)
      /\ s.mem \in Int
      /\ s.mempeak \in Int
      /\ s.mem_real \in Int
      /\ s.mempeak_real \in Int
      /\ s.request \in RequestType
      /\ Len(s.frames) \in Int
      /\ s.frames \in Seq(FrameType)
  BY StatusTypeFields
<1> DEFINE a1 == PACK_STR(s.php_version)
           a2 == Packed(8, s.mem)
           a3 == Packed(8, s.mempeak)
           a4 == Packed(8, s.mem_real)
           a5 == Packed(8, s.mempeak_real)
           a6 == pt_type_pack_request(s.request)
           a7 == Packed(4, Len(s.frames))
           a8 == PackAll(pt_type_pack_frame, s.frames)
           c2 == a1 \o a2
           c3 == c2 \o a3
           c4 == c3 \o a4
           c5 == c4 \o a5
           c6 == c5 \o a6
           c7 == c6 \o a7
           c8 == c7 \o a8
<1>2. pt_type_pack_status(s) = c8
  BY Zenon DEF pt_type_pack_status
<1>3. a1 \in Seq(Int) /\ Len(a1) = LEN_STR(s.php_version) /\ LEN_STR(s.php_version) \in Nat
  BY <1>1, StrIs, StrLenType
<1>4. a2 \in Seq(Int) /\ Len(a2) = 8 /\ 8 \in Nat
  BY <1>1, NumberIs, 8 \in Nat \ {0}
<1>5. a3 \in Seq(Int) /\ Len(a3) = 8 /\ 8 \in Nat
  BY <1>1, NumberIs, 8 \in Nat \ {0}
<1>6. a4 \in Seq(Int) /\ Len(a4) = 8 /\ 8 \in Nat
  BY <1>1, NumberIs, 8 \in Nat \ {0}
<1>7. a5 \in Seq(Int) /\ Len(a5) = 8 /\ 8 \in Nat
  BY <1>1, NumberIs, 8 \in Nat \ {0}
<1>8. a6 \in Seq(Int) /\ Len(a6) = pt_type_len_request(s.request) /\ pt_type_len_request(s.request) \in Nat
  BY <1>1, RequestLaid
<1>9. a7 \in Seq(Int) /\ Len(a7) = 4 /\ 4 \in Nat
  BY <1>1, NumberIs, 4 \in Nat \ {0}
<1>10. a8 \in Seq(Int) /\ Len(a8) = SumOver(pt_type_len_frame, s.frames) /\ SumOver(pt_type_len_frame, s.frames) \in Nat
  BY <1>1, FramesIs
<1> HIDE DEF a1, a2, a3, a4, a5, a6, a7, a8,
            c2, c3, c4, c5, c6, c7, c8
<1>11. /\ c2 \in Seq(Int)
      /\ Len(c2) = LEN_STR(s.php_version) + 8
      /\ LEN_STR(s.php_version) + 8 \in Nat
  BY <1>3, <1>4, JoinLen, Zenon DEF c2
<1>12. /\ c3 \in Seq(Int)
      /\ Len(c3) = LEN_STR(s.php_version) + 8 + 8
      /\ LEN_STR(s.php_version) + 8 + 8 \in Nat
  BY <1>11, <1>5, JoinLen, Zenon DEF c3
<1>13. /\ c4 \in Seq(Int)
      /\ Len(c4) = LEN_STR(s.php_version) + 8 + 8 + 8
      /\ LEN_STR(s.php_version) + 8 + 8 + 8 \in Nat
  BY <1>12, <1>6, JoinLen, Zenon DEF c4
<1>14. /\ c5 \in Seq(Int)
      /\ Len(c5) = LEN_STR(s.php_version) + 8 + 8 + 8 + 8
      /\ LEN_STR(s.php_version) + 8 + 8 + 8 + 8 \in Nat
  BY <1>13, <1>7, JoinLen, Zenon DEF c5
<1>15. /\ c6 \in Seq(Int)
      /\ Len(c6) = LEN_STR(s.php_version) + 8 + 8 + 8 + 8 + pt_type_len_request(s.request)
      /\ LEN_STR(s.php_version) + 8 + 8 + 8 + 8 + pt_type_len_request(s.request) \in Nat
  BY <1>14, <1>8, JoinLen, Zenon DEF c6
<1>16. /\ c7 \in Seq(Int)
      /\ Len(c7) = LEN_STR(s.php_version) + 8 + 8 + 8 + 8 + pt_type_len_request(s.request) + 4
      /\ LEN_STR(s.php_version) + 8 + 8 + 8 + 8 + pt_type_len_request(s.request) + 4 \in Nat
  BY <1>15, <1>9, JoinLen, Zenon DEF c7
<1>17. /\ c8 \in Seq(Int)
      /\ Len(c8) = LEN_STR(s.php_version) + 8 + 8 + 8 + 8 + pt_type_len_request(s.request) + 4 + SumOver(pt_type_len_frame, s.frames)
      /\ LEN_STR(s.php_version) + 8 + 8 + 8 + 8 + pt_type_len_request(s.request) + 4 + SumOver(pt_type_len_frame, s.frames) \in Nat
  BY <1>16, <1>10, JoinLen, Zenon DEF c8
<1>18. Len(c8) = pt_type_len_status(s) /\ pt_type_len_status(s) \in Nat
  BY <1>3, <1>8, <1>10, FourEights, <1>17, Zenon DEF pt_type_len_status
<1>19. ASSUME NEW buf, NEW p \in Int, Spells(buf, p, c8)
      PROVE  /\ Spells(buf, p, a1)
             /\ Spells(buf, p + LEN_STR(s.php_version), a2)
             /\ Spells(buf, p + (LEN_STR(s.php_version) + 8), a3)
             /\ Spells(buf, p + (LEN_STR(s.php_version) + 8 + 8), a4)
             /\ Spells(buf, p + (LEN_STR(s.php_version) + 8 + 8 + 8), a5)
             /\ Spells(buf, p + (LEN_STR(s.php_version) + 8 + 8 + 8 + 8), a6)
             /\ Spells(buf, p + (LEN_STR(s.php_version) + 8 + 8 + 8 + 8 + pt_type_len_request(s.request)), a7)
             /\ Spells(buf, p + (LEN_STR(s.php_version) + 8 + 8 + 8 + 8 + pt_type_len_request(s.request) + 4), a8)
  <2>1. Spells(buf, p, c7) /\ Spells(buf, p + (LEN_STR(s.php_version) + 8 + 8 + 8 + 8 + pt_type_len_request(s.request) + 4), a8)
    BY <1>19, <1>16, <1>10, SpellsJoin, Zenon DEF c8
  <2>2. Spells(buf, p, c6) /\ Spells(buf, p + (LEN_STR(s.php_version) + 8 + 8 + 8 + 8 + pt_type_len_request(s.request)), a7)
    BY <2>1, <1>15, <1>9, SpellsJoin, Zenon DEF c7
  <2>3. Spells(buf, p, c5) /\ Spells(buf, p + (LEN_STR(s.php_version) + 8 + 8 + 8 + 8), a6)
    BY <2>2, <1>14, <1>8, SpellsJoin, Zenon DEF c6
  <2>4. Spells(buf, p, c4) /\ Spells(buf, p + (LEN_STR(s.php_version) + 8 + 8 + 8), a5)
    BY <2>3, <1>13, <1>7, SpellsJoin, Zenon DEF c5
  <2>5. Spells(buf, p, c3) /\ Spells(buf, p + (LEN_STR(s.php_version) + 8 + 8), a4)
    BY <2>4, <1>12, <1>6, SpellsJoin, Zenon DEF c4
  <2>6. Spells(buf, p, c2) /\ Spells(buf, p + (LEN_STR(s.php_version) + 8), a3)
    BY <2>5, <1>11, <1>5, SpellsJoin, Zenon DEF c3
  <2>7. Spells(buf, p, a1) /\ Spells(buf, p + LEN_STR(s.php_version), a2)
    BY <2>6, <1>3, <1>4, SpellsJoin, Zenon DEF c2
  <2>8. QED
    BY <2>1, <2>2, <2>3, <2>4, <2>5, <2>6, <2>7, Zenon
<1>20. QED
  BY <1>2, <1>17, <1>18, <1>19, Zenon DEF a1, a2, a3, a4, a5, a6, a7, a8

LEMMA NormalStatusIs ==
    ASSUME NEW s \in StatusType
    PROVE  NormalStatus(s) =
             [php_version |-> OrNull(s.php_version), mem |-> s.mem,
              mempeak |-> s.mempeak, mem_real |-> s.mem_real,
              mempeak_real |-> s.mempeak_real,
              request |-> NormalRequest(s.request), frames |-> NormalFrames(s.frames)]
<1>1. s = [php_version |-> s.php_version, mem |-> s.mem, mempeak |-> s.mempeak,
           mem_real |-> s.mem_real, mempeak_real |-> s.mempeak_real,
           request |-> s.request, frames |-> s.frames]
  BY DEF StatusType
<1>2. NormalStatus(s) = [s EXCEPT !.php_version = OrNull(s.php_version),
                                  !.request = NormalRequest(s.request),
                                  !.frames = NormalFrames(s.frames)]
  BY Zenon DEF NormalStatus, NormalFrames
<1>3. NormalStatus(s) \in
         [php_version : {OrNull(s.php_version)}, mem : {s.mem},
          mempeak : {s.mempeak}, mem_real : {s.mem_real},
          mempeak_real : {s.mempeak_real},
          request : {NormalRequest(s.request)}, frames : {NormalFrames(s.frames)}]
  BY <1>1, <1>2
<1>4. QED
  BY <1>3

\* A status is read as it was built, and behind it is where it ends.
LEMMA StatusRead ==
    ASSUME NEW buf, NEW p \in Int, NEW s \in StatusType,
           Spells(buf, p, pt_type_pack_status(s))
    PROVE  pt_type_unpack_status(buf, p) =
              [val |-> NormalStatus(s), end |-> p + pt_type_len_status(s)]
<1> DEFINE LV == LEN_STR(s.php_version)
           LQ == pt_type_len_request(s.request)
           LF == SumOver(pt_type_len_frame, s.frames)
           m == p + LV
           q == m + 32
           e == q + LQ
           x == e + 4
<1>1. LV \in Nat /\ LQ \in Nat /\ LF \in Nat
  BY StatusTypeFields, StrLenType, RequestLaid, FramesIs, Zenon
<1>2. /\ Spells(buf, p, PACK_STR(s.php_version))
      /\ Spells(buf, p + LV, Packed(8, s.mem))
      /\ Spells(buf, p + (LV + 8), Packed(8, s.mempeak))
      /\ Spells(buf, p + (LV + 8 + 8), Packed(8, s.mem_real))
      /\ Spells(buf, p + (LV + 8 + 8 + 8), Packed(8, s.mempeak_real))
      /\ Spells(buf, p + (LV + 8 + 8 + 8 + 8), pt_type_pack_request(s.request))
      /\ Spells(buf, p + (LV + 8 + 8 + 8 + 8 + LQ), Packed(4, Len(s.frames)))
      /\ Spells(buf, p + (LV + 8 + 8 + 8 + 8 + LQ + 4), PackAll(pt_type_pack_frame, s.frames))
  BY StatusLaid, Zenon
<1>3. pt_type_len_status(s) = LV + 4 * 8 + LQ + 4 + LF
  BY Zenon DEF pt_type_len_status
<1> HIDE DEF LV, LQ, LF
<1>4. /\ p + LV = m /\ p + (LV + 8) = m + 8 /\ p + (LV + 8 + 8) = m + 16
      /\ p + (LV + 8 + 8 + 8) = m + 24 /\ p + (LV + 8 + 8 + 8 + 8) = q
      /\ p + (LV + 8 + 8 + 8 + 8 + LQ) = e
      /\ p + (LV + 8 + 8 + 8 + 8 + LQ + 4) = x
      /\ p + (LV + 4 * 8 + LQ + 4 + LF) = x + LF
  BY <1>1
<1>5. /\ m \in Int /\ m + 8 \in Int /\ m + 16 \in Int /\ m + 24 \in Int
      /\ q \in Int /\ e \in Int /\ x \in Int
  BY <1>1
<1>6. m + 32 = q /\ e + 4 = x
  BY Zenon
<1> HIDE DEF m, q, e, x
<1>7. UNPACK_STR(buf, p) = OrNull(s.php_version) /\ AfterStr(buf, p) = m
  <2>1. AfterStr(buf, p) = p + LEN_STR(s.php_version) /\ UNPACK_STR(buf, p) = OrNull(s.php_version)
    BY <1>2, StrRead, StatusTypeFields, Zenon
  <2>2. QED
    BY <2>1, <1>4, Zenon DEF LV
<1>8. /\ ByteAt(buf, m) = s.mem /\ ByteAt(buf, m + 8) = s.mempeak
      /\ ByteAt(buf, m + 16) = s.mem_real /\ ByteAt(buf, m + 24) = s.mempeak_real
  <2>1. /\ Spells(buf, m, Packed(8, s.mem)) /\ Spells(buf, m + 8, Packed(8, s.mempeak))
        /\ Spells(buf, m + 16, Packed(8, s.mem_real))
        /\ Spells(buf, m + 24, Packed(8, s.mempeak_real))
    BY <1>2, <1>4, Zenon
  <2>2. \A z \in Int, v \in Int : Spells(buf, z, Packed(8, v)) => ByteAt(buf, z) = v
    BY NumberRead, 8 \in Nat \ {0}, 8 # 1
  <2>3. QED
    BY <2>1, <2>2, <1>5, StatusTypeFields, Zenon
<1>9. /\ pt_type_unpack_request(buf, q).val = NormalRequest(s.request)
      /\ pt_type_unpack_request(buf, q).end = e
  <2>1. Spells(buf, q, pt_type_pack_request(s.request))
    BY <1>2, <1>4, Zenon
  <2>2. pt_type_unpack_request(buf, q) = [val |-> NormalRequest(s.request), end |-> e]
    BY <2>1, <1>5, RequestRead, StatusTypeFields, Zenon DEF LQ, e
  <2>3. QED
    BY <2>2
<1>10. LenAt(buf, e) = Len(s.frames)
  <2>1. Spells(buf, e, Packed(4, Len(s.frames)))
    BY <1>2, <1>4, Zenon
  <2>2. ByteAt(buf, e) = Len(s.frames)
    BY <2>1, <1>5, NumberRead, StatusTypeFields, 4 \in Nat \ {0}, 4 # 1
  <2>3. QED
    BY <2>2, StatusTypeFields DEF LenAt
<1>11. /\ UnpackFrames(buf, x, Len(s.frames)).vals = NormalFrames(s.frames)
       /\ UnpackFrames(buf, x, Len(s.frames)).end = x + LF
  <2>1. Spells(buf, x, PackAll(pt_type_pack_frame, s.frames))
    BY <1>2, <1>4, Zenon
  <2>2. UnpackFrames(buf, x, Len(s.frames)) = [vals |-> NormalFrames(s.frames), end |-> x + LF]
    BY <2>1, <1>5, FramesRead, StatusTypeFields, Zenon DEF LF
  <2>3. QED
    BY <2>2
<1>12. p + pt_type_len_status(s) = x + LF
  BY <1>3, <1>4, Zenon
<1>13. QED
  BY <1>4, <1>6, <1>7, <1>8, <1>9, <1>10, <1>11, <1>12, NormalStatusIs, Zenon
     DEF pt_type_unpack_status

-----------------------------------------------------------------------------
(* What the extension reports has these types, and no empty name *)

\* A text that tells something.
Texts == Seq(Int) \ {<<>>}

LEMMA TextJoin ==
    ASSUME NEW s \in Texts, NEW t \in Seq(Int)
    PROVE  s \o t \in Texts
<1>1. s \in Seq(Int) /\ Len(s) # 0 /\ Len(s) \in Nat /\ Len(t) \in Nat
  BY DEF Texts
<1>2. s \o t \in Seq(Int) /\ Len(s \o t) = Len(s) + Len(t)
  BY <1>1, Join, Zenon
<1>3. Len(s \o t) # 0
  BY <1>1, <1>2
<1>4. QED
  BY <1>2, <1>3 DEF Texts

\* An escaped string is a text.
LEMMA ReprIs ==
    ASSUME NEW s \in Seq(Int)
    PROVE  sdscatrepr(s) \in Texts
<1> DEFINE part(c) == IF c < 32 THEN <<92, 120, c, c>> ELSE <<c>>
           parts == [i \in DOMAIN s |-> part(s[i])]
<1>1. \A c \in Int : part(c) \in Seq(Int)
  OBVIOUS
<1>2. DOMAIN s = 1..Len(s) /\ Len(s) \in Nat /\ \A i \in 1..Len(s) : s[i] \in Int
  OBVIOUS
<1>3. sdscatrepr(s) = <<34>> \o FlattenSeq(parts) \o <<34>>
  BY Zenon DEF sdscatrepr
<1> HIDE DEF part
<1>4. parts \in Seq(Seq(Int))
  BY <1>1, <1>2
<1> HIDE DEF parts
<1>5. FlattenSeq(parts) \in Seq(Int)
  BY <1>4, FlattenIs DEF Lays
<1>6. <<34>> \in Texts /\ <<34>> \in Seq(Int)
  BY DEF Texts
<1>7. QED
  BY <1>3, <1>5, <1>6, TextJoin, Zenon

LEMMA ReprStringIs ==
    ASSUME NEW s \in Seq(Int)
    PROVE  repr_string(s) \in Texts
<1> DEFINE tlen == IF Len(s) < Limit THEN Len(s) ELSE Limit
           dots == IF Len(s) > Limit THEN Dots ELSE <<>>
<1>1. Limit \in Nat /\ Len(s) \in Nat
  BY ReportAssumption
<1>2. tlen \in 0..Len(s) /\ 1 \in 1..(Len(s) + 1)
  BY <1>1
<1>3. dots \in Seq(Int)
  BY DEF Dots
<1>4. repr_string(s) = sdscatrepr(SubSeq(s, 1, tlen)) \o dots
  BY Zenon DEF repr_string
<1> HIDE DEF tlen, dots
<1>5. SubSeq(s, 1, tlen) \in Seq(Int)
  <2>1. 1 - 1 = 0
    OBVIOUS
  <2>2. QED
    BY <1>2, <2>1, SubSeqProperties
<1>6. QED
  BY <1>3, <1>4, <1>5, ReprIs, TextJoin, Zenon

LEMMA TextIs ==
    ASSUME NEW t \in DOMAIN Text
    PROVE  Text[t] \in Int
BY DEF Text

\* A value is shown by a text.
LEMMA ReprPlainIs ==
    ASSUME NEW v, IsPlainValue(v)
    PROVE  repr_zval(v) \in Texts
<1>1. v.type \in DOMAIN Text \cup {"STRING"} /\ v.str \in Seq(Int) /\ v.num \in Int
  BY DEF IsPlainValue
<1>2. v.type # "REFERENCE"
  BY <1>1 DEF Text
<1>3. repr_zval(v) =
        CASE v.type = "STRING" -> repr_string(v.str)
          [] v.type \in {"LONG", "DOUBLE", "ARRAY"} -> <<Text[v.type], v.num>>
          [] v.type \in {"OBJECT", "RESOURCE"} -> <<Text[v.type]>> \o v.str \o <<v.num>>
          [] OTHER -> <<Text[v.type]>>
  BY <1>2 DEF repr_zval
<1>4. CASE v.type = "STRING"
  <2>1. repr_zval(v) = repr_string(v.str)
    BY <1>3, <1>4
  <2>2. QED
    BY <1>1, <2>1, ReprStringIs
<1>5. CASE v.type # "STRING"
  <2>1. v.type \in DOMAIN Text
    BY <1>1, <1>5
  <2>2. Text[v.type] \in Int
    BY <2>1, TextIs
  <2> DEFINE x == Text[v.type]
  <2> HIDE DEF x
  <2>3. x \in Int
    BY <2>2 DEF x
  <2>4. <<x>> \in Texts /\ <<x, v.num>> \in Texts /\ <<v.num>> \in Seq(Int)
    BY <1>1, <2>3 DEF Texts
  <2>5. <<x>> \o v.str \o <<v.num>> \in Texts
    BY <1>1, <2>4, TextJoin, Zenon
  <2>6. repr_zval(v) \in {<<x>>, <<x, v.num>>, <<x>> \o v.str \o <<v.num>>}
    BY <1>3, <1>5 DEF x
  <2>7. QED
    BY <2>4, <2>5, <2>6
<1>6. QED
  BY <1>4, <1>5

LEMMA ReprValueIs ==
    ASSUME NEW v, IsValue(v)
    PROVE  repr_zval(v) \in Texts
<1>1. CASE IsPlainValue(v)
  BY <1>1, ReprPlainIs
<1>2. CASE v.type = "REFERENCE" /\ IsPlainValue(v.ref)
  <2>1. v.ref.type # "REFERENCE"
    BY <1>2 DEF IsPlainValue, Text
  <2>2. repr_zval(v) = repr_zval(v.ref)
    BY <1>2, <2>1, Zenon DEF repr_zval
  <2>3. QED
    BY <1>2, <2>2, ReprPlainIs
<1>3. QED
  BY <1>1, <1>2 DEF IsValue

LEMMA UndefIs == IsValue(Undef)
BY DEF IsValue, IsPlainValue, Undef, Text

\* The elements of a sequence, as its set.
LEMMA ToSetIs ==
    ASSUME NEW S, NEW s \in Seq(S)
    PROVE  /\ \A i \in DOMAIN s : s[i] \in ToSet(s)
           /\ \A x \in ToSet(s) : \E i \in DOMAIN s : s[i] = x
BY DEF ToSet

\* a with d times x behind its n first elements.
Spread(a, n, d, x) ==
    SubSeq(a, 1, n) \o [j \in 1..d |-> x] \o SubSeq(a, n + 1, Len(a))

IsSpread(s, S, a, n, d) ==
    /\ s \in Seq(S)
    /\ DOMAIN s = 1..(d + Len(a))
    /\ \A j \in 1..n : s[j] = a[j]
    /\ \A j \in (n + 1)..Len(a) : s[d + j] = a[j]

LEMMA SpreadIs ==
    ASSUME NEW S, NEW a \in Seq(S), NEW x \in S, NEW n \in Nat, NEW d \in Nat,
           n <= Len(a)
    PROVE  IsSpread(Spread(a, n, d, x), S, a, n, d)
<1> DEFINE N == Len(a)
           A == SubSeq(a, 1, n)
           F == [j \in 1..d |-> x]
           B == SubSeq(a, n + 1, N)
<1>1. N \in Nat
  OBVIOUS
<1>2. Spread(a, n, d, x) = A \o F \o B
  BY DEF Spread
<1>3. A \in Seq(S) /\ Len(A) = n /\ \A j \in 1..n : A[j] = a[j]
  OBVIOUS
<1>4. F \in Seq(S) /\ Len(F) = d
  OBVIOUS
<1>5. B \in Seq(S) /\ Len(B) = N - n /\ \A j \in 1..(N - n) : B[j] = a[n + j]
  OBVIOUS
<1> HIDE DEF N, A, F, B
<1>6. /\ A \o F \in Seq(S) /\ Len(A \o F) = n + d
      /\ \A j \in 1..n : (A \o F)[j] = A[j]
  BY <1>3, <1>4
<1> DEFINE C == A \o F
<1> HIDE DEF C
<1>7. C \in Seq(S) /\ Len(C) = n + d /\ \A j \in 1..n : C[j] = A[j]
  BY <1>6 DEF C
<1>8. /\ C \o B \in Seq(S) /\ Len(C \o B) = n + d + Len(B)
      /\ \A j \in 1..(n + d) : (C \o B)[j] = C[j]
      /\ \A j \in 1..Len(B) : (C \o B)[n + d + j] = B[j]
  <2>1. /\ C \o B \in Seq(S) /\ Len(C \o B) = Len(C) + Len(B)
        /\ \A j \in 1..Len(C) : (C \o B)[j] = C[j]
        /\ \A j \in 1..Len(B) : (C \o B)[Len(C) + j] = B[j]
    <3>1. C \in Seq(S) /\ B \in Seq(S)
      BY <1>5, <1>7
    <3>2. QED
      BY <3>1
  <2>2. QED
    BY <1>7, <2>1, Zenon
<1> DEFINE s == C \o B
<1>9. Spread(a, n, d, x) = s
  BY <1>2 DEF C
<1> HIDE DEF s
<1>10. s \in Seq(S) /\ DOMAIN s = 1..(d + N)
  <2>1. s \in Seq(S) /\ Len(s) = n + d + Len(B)
    BY <1>8 DEF s
  <2>2. n + d + Len(B) = d + N
    BY <1>1, <1>5
  <2>3. DOMAIN s = 1..Len(s)
    BY <2>1
  <2>4. QED
    BY <2>1, <2>2, <2>3, Zenon
<1>11. ASSUME NEW j \in 1..n PROVE s[j] = a[j]
  <2>1. j \in 1..(n + d)
    OBVIOUS
  <2>2. QED
    BY <1>3, <1>7, <1>8, <2>1, Zenon DEF s
<1>12. ASSUME NEW j \in (n + 1)..N PROVE s[d + j] = a[j]
  <2>1. j - n \in 1..Len(B) /\ j - n \in 1..(N - n) /\ n + d + (j - n) = d + j /\ n + (j - n) = j
    BY <1>1, <1>5
  <2>2. s[n + d + (j - n)] = B[j - n] /\ B[j - n] = a[n + (j - n)]
    BY <1>5, <1>8, <2>1, Zenon DEF s
  <2>3. QED
    BY <2>1, <2>2, Zenon
<1>13. QED
  BY <1>9, <1>10, <1>11, <1>12, Zenon DEF IsSpread, N

\* The slots of a call: the arguments, or the arguments spread.
LEMMA SlotsAre ==
    ASSUME NEW ex, IsExecuteData(ex)
    PROVE  /\ ex.args \in Seq(ToSet(ex.args) \cup {Undef})
           /\ \/ /\ ex.func.user /\ Len(ex.args) > ex.func.num_args
                 /\ ex.func.num_args \in Nat /\ ex.func.nvars \in Nat
                 /\ ex.func.nvars - ex.func.num_args \in Nat
                 /\ Slots(ex) = Spread(ex.args, ex.func.num_args,
                                       ex.func.nvars - ex.func.num_args, Undef)
              \/ /\ ~(ex.func.user /\ Len(ex.args) > ex.func.num_args)
                 /\ ex.func.num_args \in Nat
                 /\ Slots(ex) = ex.args
<1>1. ex.args \in Seq(ToSet(ex.args) \cup {Undef})
  BY DEF IsExecuteData
<1>2. IsFunc(ex.func) \/ ex.func = NoFunc
  BY DEF IsExecuteData
<1>3. ex.func.num_args \in Nat
  BY <1>2 DEF IsFunc, NoFunc
<1>4. CASE ex.func.user /\ Len(ex.args) > ex.func.num_args
  <2>1. ex.func # NoFunc
    BY <1>4 DEF NoFunc
  <2>2. ex.func.nvars \in Nat /\ ex.func.num_args <= ex.func.nvars
    BY <1>2, <1>4, <2>1 DEF IsFunc
  <2>3. ex.func.nvars - ex.func.num_args \in Nat
    BY <1>3, <2>2
  <2>4. Slots(ex) = Spread(ex.args, ex.func.num_args,
                           ex.func.nvars - ex.func.num_args, Undef)
    BY <1>4, Zenon DEF Slots, Spread
  <2>5. QED
    BY <1>1, <1>3, <1>4, <2>2, <2>3, <2>4, Zenon
<1>5. CASE ~(ex.func.user /\ Len(ex.args) > ex.func.num_args)
  <2>1. Slots(ex) = ex.args
    BY <1>5, Zenon DEF Slots
  <2>2. QED
    BY <1>1, <1>3, <1>5, <2>1, Zenon
<1>6. QED
  BY <1>4, <1>5, Zenon

LEMMA IsMore ==
    ASSUME NEW n \in Nat, NEW m \in Nat, m > n
    PROVE  n <= m
OBVIOUS

\* What frame_build reads in any slot is a value.
LEMMA SlotIs ==
    ASSUME NEW ex, IsExecuteData(ex), NEW k
    PROVE  IsValue(SlotAt(ex, k))
<1> DEFINE V == ToSet(ex.args) \cup {Undef}
<1>1. ex.args \in Seq(ToSet(ex.args)) /\ \A i \in DOMAIN ex.args : IsValue(ex.args[i])
  BY DEF IsExecuteData
<1>2. \A x \in V : IsValue(x)
  BY <1>1, UndefIs, ToSetIs
<1>3. ex.args \in Seq(V) /\ Undef \in V
  BY <1>1
<1> HIDE DEF V
<1>8. Len(ex.args) \in Nat
  BY <1>3
<1>4. Slots(ex) \in Seq(V)
  <2>1. CASE ex.func.user /\ Len(ex.args) > ex.func.num_args
    <3> DEFINE n == ex.func.num_args
               d == ex.func.nvars - n
    <3>1. n \in Nat /\ d \in Nat /\ Slots(ex) = Spread(ex.args, n, d, Undef)
      BY <2>1, SlotsAre, Zenon
    <3> HIDE DEF d
    <3>2. n <= Len(ex.args)
      BY <1>8, <2>1, <3>1, IsMore
    <3> HIDE DEF n
    <3>3. Spread(ex.args, n, d, Undef) \in Seq(V)
      BY <1>3, <3>1, <3>2, SpreadIs DEF IsSpread
    <3>4. QED
      BY <3>1, <3>3, Zenon
  <2>2. CASE ~(ex.func.user /\ Len(ex.args) > ex.func.num_args)
    BY <1>3, <2>2, SlotsAre, Zenon
  <2>3. QED
    BY <2>1, <2>2, Zenon
<1>5. CASE k \in DOMAIN Slots(ex)
  <2>1. SlotAt(ex, k) = Slots(ex)[k]
    BY <1>5 DEF SlotAt
  <2>2. Slots(ex)[k] \in V
    BY <1>4, <1>5
  <2>3. QED
    BY <1>2, <2>1, <2>2
<1>6. CASE k \notin DOMAIN Slots(ex)
  BY <1>6, UndefIs DEF SlotAt
<1>7. QED
  BY <1>5, <1>6

LEMMA ArgsAre ==
    ASSUME NEW ex, IsExecuteData(ex)
    PROVE  Args(ex) \in Seq(Texts)
<1>1. Len(ex.args) \in Nat /\ DOMAIN ex.args = 1..Len(ex.args)
  BY DEF IsExecuteData
<1>2. Args(ex) = [i \in 1..Len(ex.args) |-> repr_zval(SlotAt(ex, SlotOf(ex, i)))]
  BY <1>1, Zenon DEF Args
<1>3. \A i \in 1..Len(ex.args) : repr_zval(SlotAt(ex, SlotOf(ex, i))) \in Texts
  BY SlotIs, ReprValueIs
<1>4. QED
  BY <1>1, <1>2, <1>3

\* The slot that frame_build reads is the one where the argument is: the first
\* parameters in place, the others behind the variables.  (Not of a user
\* function without parameters.)
LEMMA SlotHolds ==
    ASSUME NEW ex, IsExecuteData(ex), ex.func.user => ex.func.num_args > 0,
           NEW i \in DOMAIN ex.args
    PROVE  SlotAt(ex, SlotOf(ex, i)) = ex.args[i]
<1> DEFINE a == ex.args
           N == Len(a)
           n == ex.func.num_args
           v == ex.func.nvars
           d == v - n
           S == ToSet(ex.args) \cup {Undef}
<1>1. a \in Seq(S) /\ n \in Nat /\ Undef \in S
  BY SlotsAre, Zenon
<1>2. N \in Nat /\ i \in 1..N
  BY <1>1
<1>3. CASE ex.func.user /\ N > n
  <2>1. v \in Nat /\ d \in Nat /\ Slots(ex) = Spread(a, n, d, Undef)
    BY <1>3, SlotsAre, Zenon
  <2>2. SlotOf(ex, i) = IF n # 0 /\ i > n THEN v + i - n ELSE i
    BY <1>3, Zenon DEF SlotOf
  <2>3. n > 0
    BY <1>3, Zenon
  <2>4. v - n = d
    BY Zenon
  <2> HIDE DEF S, a, N, n, v, d
  <2>5. n <= N
    BY <1>1, <1>2, <1>3
  <2>6. /\ DOMAIN Slots(ex) = 1..(d + N)
        /\ \A j \in 1..n : Slots(ex)[j] = a[j]
        /\ \A j \in (n + 1)..N : Slots(ex)[d + j] = a[j]
    <3>1. n <= Len(a)
      BY <2>5 DEF N
    <3>2. IsSpread(Spread(a, n, d, Undef), S, a, n, d)
      BY <1>1, <2>1, <3>1, SpreadIs
    <3>3. QED
      BY <2>1, <3>2, Zenon DEF IsSpread, N
  <2>7. CASE i > n
    <3>1. SlotOf(ex, i) = d + i /\ d + i \in 1..(d + N) /\ i \in (n + 1)..N
      BY <1>1, <1>2, <2>1, <2>2, <2>3, <2>4, <2>7
    <3>2. QED
      BY <2>6, <3>1, Zenon DEF SlotAt, a
  <2>8. CASE ~(i > n)
    <3>1. SlotOf(ex, i) = i /\ i \in 1..(d + N) /\ i \in 1..n
      BY <1>1, <1>2, <2>1, <2>2, <2>3, <2>5, <2>8
    <3>2. QED
      BY <2>6, <3>1, Zenon DEF SlotAt, a
  <2>9. QED
    BY <2>7, <2>8, Zenon
<1>4. CASE ~(ex.func.user /\ N > n)
  <2>1. Slots(ex) = a
    BY <1>4, SlotsAre, Zenon
  <2>2. SlotOf(ex, i) = IF ex.func.user /\ n # 0 /\ i > n THEN v + i - n ELSE i
    BY Zenon DEF SlotOf
  <2> HIDE DEF S, a, N, n, v, d
  <2>3. SlotOf(ex, i) = i
    <3>1. ex.func.user => ~(i > n)
      BY <1>1, <1>2, <1>4
    <3>2. QED
      BY <2>2, <3>1, Zenon
  <2>4. QED
    BY <2>1, <2>3, Zenon DEF SlotAt, a
<1>5. QED
  BY <1>3, <1>4, Zenon

\* A frame of which nothing is empty.
WholeFrame ==
    [type : 0..255, functype : 0..255, lineno : Int,
     filename : Texts, class : Texts, function : Texts, level : Int,
     args : Seq(Texts), retval : Texts, inc_time : Int, exc_time : Int]

LEMMA NullIs == NULL \in Texts
BY DEF NULL, Texts

\* The code that is taken for the caller is on the stack.
LEMMA CallerIs ==
    ASSUME NEW stack, IsStack(stack), NEW c \in 1..Len(stack)
    PROVE  Caller(stack, c) \in 1..Len(stack)
<1>1. Len(stack) \in Nat
  BY DEF IsStack
<1> DEFINE c1 == IF stack[c].opline.set /\ HasPrev(stack, c)
                       /\ stack[c].func # NoFunc /\ ~stack[c].func.user
                 THEN c + 1 ELSE c
<1>2. c1 \in 1..Len(stack)
  BY <1>1 DEF HasPrev
<1>3. Caller(stack, c) = IF stack[c1].opline.set /\ HasPrev(stack, c1) /\ ~stack[c1].opline.call
                         THEN c1 + 1 ELSE c1
  BY Zenon DEF Caller
<1> HIDE DEF c1
<1>4. QED
  BY <1>1, <1>2, <1>3 DEF HasPrev

LEMMA OplineIs ==
    ASSUME NEW stack, IsStack(stack), NEW c \in 1..Len(stack)
    PROVE  /\ IsExecuteData(stack[c])
           /\ stack[c].opline.lineno \in Int
           /\ IsFunc(stack[c].func) \/ stack[c].func = NoFunc
<1>1. IsExecuteData(stack[c])
  BY DEF IsStack
<1>2. QED
  BY <1>1 DEF IsExecuteData

LEMMA LineIs ==
    ASSUME NEW stack, IsStack(stack), NEW c \in 1..Len(stack)
    PROVE  LineOf(stack, c) \in Int
<1>1. Len(stack) \in Nat
  BY DEF IsStack
<1>2. HasPrev(stack, c) => c + 1 \in 1..Len(stack)
  BY <1>1 DEF HasPrev
<1>3. HasPrev(stack, c) => stack[c + 1].opline.lineno \in Int
  BY <1>2, OplineIs
<1>4. LineOf(stack, c) \in {stack[c].opline.lineno, 0}
        \/ (HasPrev(stack, c) /\ LineOf(stack, c) = stack[c + 1].opline.lineno)
  BY DEF LineOf
<1>5. QED
  BY <1>3, <1>4, OplineIs

LEMMA UserFile ==
    ASSUME NEW ex, IsFunc(ex.func) \/ ex.func = NoFunc, IsUser(ex)
    PROVE  ex.func.filename \in Texts /\ ex.func.filename # NULL
BY DEF IsUser, IsFunc, Texts

LEMMA FileIs ==
    ASSUME NEW stack, IsStack(stack), NEW c \in 1..Len(stack)
    PROVE  FileOf(stack, c) \in Texts
<1>1. Len(stack) \in Nat
  BY DEF IsStack
<1>2. HasPrev(stack, c) => c + 1 \in 1..Len(stack)
  BY <1>1 DEF HasPrev
<1>3. CASE IsUser(stack[c])
  <2>1. FileOf(stack, c) = stack[c].func.filename
    BY <1>3 DEF FileOf
  <2>2. QED
    BY <1>3, <2>1, OplineIs, UserFile, Zenon
<1>4. CASE ~IsUser(stack[c]) /\ HasPrev(stack, c) /\ IsUser(stack[c + 1])
  <2>1. FileOf(stack, c) = stack[c + 1].func.filename
    BY <1>4 DEF FileOf
  <2>2. QED
    BY <1>2, <1>4, <2>1, OplineIs, UserFile, Zenon
<1>5. CASE ~IsUser(stack[c]) /\ ~(HasPrev(stack, c) /\ IsUser(stack[c + 1]))
  <2>1. FileOf(stack, c) = NULL
    BY <1>5 DEF FileOf
  <2>2. QED
    BY <2>1, NullIs
<1>6. QED
  BY <1>3, <1>4, <1>5

LEMMA FuncTypes ==
    /\ \A ev : ScriptType(ev) \in 0..19 /\ ScriptName(ev) \in Texts
    /\ \A ex : CallType(ex) \in 0..19
<1>1. \A ev : ScriptType(ev) \in 0..19
  BY DEF ScriptType, PT_FUNC_INCLUDE, PT_FUNC_INCLUDE_ONCE, PT_FUNC_REQUIRE,
         PT_FUNC_REQUIRE_ONCE, PT_FUNC_EVAL, PT_FUNC_NORMAL
<1>2. \A ex : CallType(ex) \in 0..19
  BY DEF CallType, PT_FUNC_MEMBER, PT_FUNC_STATIC, PT_FUNC_NORMAL
<1>3. \A ev : ScriptName(ev) \in {<<101>>, <<102>>, <<103>>, <<104>>, <<105>>, <<106>>}
  BY DEF ScriptName
<1>4. \A n \in Int : <<n>> \in Texts
  BY DEF Texts
<1>5. QED
  BY <1>1, <1>2, <1>3, <1>4

LEMMA FunctionNameIs ==
    ASSUME NEW func, IsFunc(func)
    PROVE  FunctionName(func) \in Texts /\ func.scope \in Texts /\ func.filename \in Seq(Int)
<1>1. /\ func.name \in Texts /\ func.alias \in Texts /\ func.scope \in Texts
      /\ func.filename \in Seq(Int)
  BY DEF IsFunc, Texts
<1>2. <<110>> \in Texts /\ <<111>> \in Texts
  BY DEF Texts
<1>3. <<110>> \o func.filename \in Texts /\ <<111>> \o func.filename \in Texts
  BY <1>1, <1>2, TextJoin, Zenon
<1>4. FunctionName(func) \in {<<110>> \o func.filename, <<111>> \o func.filename,
                              func.alias, func.name}
  BY DEF FunctionName
<1>5. QED
  BY <1>1, <1>3, <1>4, ZenonT(40)

\* A frame that is built is one that can be sent, and nothing in it is empty.
LEMMA BuiltIs ==
    ASSUME NEW stack, IsStack(stack), NEW i \in 1..Len(stack), NEW c \in 1..Len(stack),
           NEW internal \in BOOLEAN, NEW type \in 0..255, NEW level \in Int
    PROVE  frame_build(stack, i, c, internal, type, level) \in WholeFrame
<1> DEFINE ex == stack[i]
           func == ex.func
           ev == IF stack[c].opline.set THEN stack[c].opline.ev ELSE "none"
           script == func.name = NULL
           site == Caller(stack, c)
           functype == (IF internal THEN PT_FUNC_INTERNAL ELSE 0)
                          + (IF script THEN ScriptType(ev) ELSE CallType(ex))
           lineno == LineOf(stack, site)
           filename == FileOf(stack, site)
           class == IF script THEN NULL ELSE func.scope
           function == IF script THEN ScriptName(ev) ELSE FunctionName(func)
           args == IF ~script THEN Args(ex)
                   ELSE IF ev \in ScriptKinds \ {"eval"}
                        THEN <<sdscatrepr(func.filename)>> ELSE <<>>
<1>1. frame_build(stack, i, c, internal, type, level) =
        [type |-> type, functype |-> functype, lineno |-> lineno,
         filename |-> filename, class |-> class, function |-> function,
         level |-> level, args |-> args, retval |-> NULL,
         inc_time |-> 0, exc_time |-> 0]
  BY Zenon DEF frame_build
<1>2. /\ IsExecuteData(ex) /\ (IsFunc(func) \/ func = NoFunc)
  BY OplineIs
<1>3. functype \in 0..255
  <2> HIDE DEF ev, script
  <2>1. ScriptType(ev) \in 0..19 /\ CallType(ex) \in 0..19
    BY FuncTypes, Zenon
  <2>2. (IF internal THEN PT_FUNC_INTERNAL ELSE 0) \in {0, 128}
    BY DEF PT_FUNC_INTERNAL
  <2>3. (IF script THEN ScriptType(ev) ELSE CallType(ex)) \in 0..19
    BY <2>1, Zenon
  <2>4. \A x \in {0, 128}, y \in 0..19 : x + y \in 0..255
    OBVIOUS
  <2>5. QED
    BY <2>2, <2>3, <2>4, ZenonT(40)
<1>4. lineno \in Int /\ filename \in Texts
  BY CallerIs, LineIs, FileIs, Zenon
<1>5. ~script => IsFunc(func)
  BY <1>2 DEF NoFunc
<1>6. class \in Texts
  BY <1>5, FunctionNameIs, NullIs, Zenon
<1>7. function \in Texts
  <2> HIDE DEF ev, func
  <2>1. QED
    BY <1>5, FunctionNameIs, FuncTypes, Zenon
<1>8. args \in Seq(Texts)
  <2>1. func.filename \in Seq(Int)
    <3>1. NoFunc.filename \in Seq(Int)
      BY DEF NoFunc, NULL
    <3>2. QED
      BY <1>2, <3>1, FunctionNameIs, Zenon
  <2>2. sdscatrepr(func.filename) \in Texts
    BY <2>1, ReprIs
  <2>3. Args(ex) \in Seq(Texts)
    BY <1>2, ArgsAre
  <2>4. <<sdscatrepr(func.filename)>> \in Seq(Texts) /\ <<>> \in Seq(Texts)
    BY <2>2
  <2>5. QED
    BY <2>3, <2>4, Zenon
<1> HIDE DEF functype, lineno, filename, class, function, args
<1>9. 0 \in Int
  OBVIOUS
<1>10. [type |-> type, functype |-> functype, lineno |-> lineno,
         filename |-> filename, class |-> class, function |-> function,
         level |-> level, args |-> args, retval |-> NULL,
         inc_time |-> 0, exc_time |-> 0] \in WholeFrame
  BY <1>3, <1>4, <1>6, <1>7, <1>8, <1>9, NullIs DEF WholeFrame
<1>11. QED
  BY <1>1, <1>10, Zenon

LEMMA WholeFields ==
    ASSUME NEW f \in WholeFrame
    PROVE  /\ f.type \in 0..255 /\ f.functype \in 0..255 /\ f.lineno \in Int
           /\ f.filename \in Texts /\ f.class \in Texts /\ f.function \in Texts
           /\ f.level \in Int /\ f.args \in Seq(Texts) /\ f.retval \in Texts
           /\ f.inc_time \in Int /\ f.exc_time \in Int
           /\ f = [type |-> f.type, functype |-> f.functype, lineno |-> f.lineno,
                   filename |-> f.filename, class |-> f.class,
                   function |-> f.function, level |-> f.level,
                   args |-> f.args, retval |-> f.retval,
                   inc_time |-> f.inc_time, exc_time |-> f.exc_time]
<1>1. f = [type |-> f.type, functype |-> f.functype, lineno |-> f.lineno,
                   filename |-> f.filename, class |-> f.class,
                   function |-> f.function, level |-> f.level,
                   args |-> f.args, retval |-> f.retval,
                   inc_time |-> f.inc_time, exc_time |-> f.exc_time]
  BY DEF WholeFrame
<1>2. QED
  BY <1>1, Zenon DEF WholeFrame

LEMMA TextsAreStrings ==
    /\ Texts \subseteq Seq(Int) /\ Seq(Texts) \subseteq Seq(Seq(Int))
    /\ \A s \in Texts : OrNull(s) = s
    /\ \A ss \in Seq(Texts) : OrNulls(ss) = ss
<1>1. Texts \subseteq Seq(Int) /\ \A s \in Texts : s # <<>>
  BY DEF Texts
<1>2. \A s \in Texts : OrNull(s) = s
  BY <1>1 DEF OrNull
<1>3. Seq(Texts) \subseteq Seq(Seq(Int))
  BY <1>1
<1>4. ASSUME NEW ss \in Seq(Texts) PROVE OrNulls(ss) = ss
  <2>1. ss = [i \in DOMAIN ss |-> ss[i]] /\ \A i \in DOMAIN ss : ss[i] \in Texts
    OBVIOUS
  <2>2. OrNulls(ss) = [i \in DOMAIN ss |-> OrNull(ss[i])]
    BY DEF OrNulls
  <2>3. QED
    BY <1>2, <2>1, <2>2, Zenon
<1>5. QED
  BY <1>1, <1>2, <1>3, <1>4

\* A frame of which nothing is empty arrives as it is.
LEMMA WholeIs ==
    ASSUME NEW f \in WholeFrame
    PROVE  f \in FrameType /\ NormalFrame(f) = f
<1>1. f \in FrameType
  <2>1. /\ f.filename \in Seq(Int) /\ f.class \in Seq(Int) /\ f.function \in Seq(Int)
        /\ f.args \in Seq(Seq(Int)) /\ f.retval \in Seq(Int)
    BY WholeFields, TextsAreStrings
  <2>2. [type |-> f.type, functype |-> f.functype, lineno |-> f.lineno,
         filename |-> f.filename, class |-> f.class,
         function |-> f.function, level |-> f.level,
         args |-> f.args, retval |-> f.retval,
         inc_time |-> f.inc_time, exc_time |-> f.exc_time] \in FrameType
    BY <2>1, WholeFields DEF FrameType
  <2>3. QED
    BY <2>2, WholeFields, Zenon
<1>2. /\ OrNull(f.filename) = f.filename /\ OrNull(f.class) = f.class
      /\ OrNull(f.function) = f.function /\ OrNulls(f.args) = f.args
      /\ OrNull(f.retval) = f.retval
  BY WholeFields, TextsAreStrings, Zenon
<1>3. NormalFrame(f) =
         [type |-> f.type, functype |-> f.functype, lineno |-> f.lineno,
          filename |-> f.filename, class |-> f.class,
          function |-> f.function, level |-> f.level,
          args |-> f.args, retval |-> f.retval,
          inc_time |-> f.inc_time, exc_time |-> f.exc_time]
  BY <1>1, <1>2, NormalFrameIs, Zenon
<1>4. QED
  BY <1>1, <1>3, WholeFields, Zenon

\* The frame of a call at its entry ...
LEMMA EntryIs ==
    ASSUME NEW c \in Calls
    PROVE  Entry(c) \in WholeFrame
<1> DEFINE stack == c.stack
           below == IF HasPrev(stack, 1) THEN 2 ELSE 1
           internal == ~stack[1].func.user
<1>1. IsStack(stack) /\ stack # <<>> /\ c.level \in Int
  BY CallsAssumption
<1>2. Len(stack) \in Nat /\ 1 \in 1..Len(stack)
  BY <1>1 DEF IsStack
<1>3. below \in 1..Len(stack)
  BY <1>2 DEF HasPrev
<1>4. internal \in BOOLEAN
  OBVIOUS
<1>5. PT_FRAME_ENTRY \in 0..255
  BY DEF PT_FRAME_ENTRY
<1>6. Entry(c) = frame_build(stack, 1, below, internal, PT_FRAME_ENTRY, c.level)
  BY Zenon DEF Entry, EntryFrame
<1> HIDE DEF stack, below, internal
<1>7. frame_build(stack, 1, below, internal, PT_FRAME_ENTRY, c.level) \in WholeFrame
  BY <1>1, <1>2, <1>3, <1>4, <1>5, BuiltIs, Zenon
<1>8. QED
  BY <1>6, <1>7, Zenon

\* ... and at its exit.
LEMMA ExitIs ==
    ASSUME NEW c \in Calls
    PROVE  /\ Exit(c) \in WholeFrame
           /\ Exit(c).args = Entry(c).args /\ Exit(c).filename = Entry(c).filename
           /\ Exit(c).lineno = Entry(c).lineno
<1> DEFINE f == Entry(c)
           retval == IF c.bailout THEN NULL ELSE repr_zval(c.value)
<1>1. f \in WholeFrame /\ c.inc \in Int /\ c.exc \in Int /\ IsValue(c.value)
  BY EntryIs, CallsAssumption
<1>2. retval \in Texts
  BY <1>1, ReprValueIs, NullIs, Zenon
<1>3. Exit(c) = [f EXCEPT !.type = PT_FRAME_EXIT, !.inc_time = c.inc, !.exc_time = c.exc,
                          !.retval = retval]
  BY Zenon DEF Exit, ExitFrame
<1> HIDE DEF f, retval
<1>4. PT_FRAME_EXIT \in 0..255
  BY DEF PT_FRAME_EXIT
<1>5. f = [type |-> f.type, functype |-> f.functype, lineno |-> f.lineno,
           filename |-> f.filename, class |-> f.class,
           function |-> f.function, level |-> f.level,
           args |-> f.args, retval |-> f.retval,
           inc_time |-> f.inc_time, exc_time |-> f.exc_time]
  BY <1>1, WholeFields, Zenon
<1>6. Exit(c) \in
          [type : {PT_FRAME_EXIT}, functype : {f.functype}, lineno : {f.lineno},
           filename : {f.filename}, class : {f.class},
           function : {f.function}, level : {f.level},
           args : {f.args}, retval : {retval},
           inc_time : {c.inc}, exc_time : {c.exc}]
  BY <1>3, <1>5
<1>7. Exit(c) = [type |-> PT_FRAME_EXIT, functype |-> f.functype, lineno |-> f.lineno,
           filename |-> f.filename, class |-> f.class,
           function |-> f.function, level |-> f.level,
           args |-> f.args, retval |-> retval,
           inc_time |-> c.inc, exc_time |-> c.exc]
  BY <1>6
<1>8. Exit(c) \in WholeFrame
  <2>1. /\ f.functype \in 0..255 /\ f.lineno \in Int
        /\ f.filename \in Texts /\ f.class \in Texts /\ f.function \in Texts
        /\ f.level \in Int /\ f.args \in Seq(Texts)
    BY <1>1, WholeFields, ZenonT(40)
  <2>2. QED
    BY <1>1, <1>2, <1>4, <1>7, <2>1 DEF WholeFrame
<1>9. QED
  BY <1>7, <1>8 DEF f

LEMMA FramesAreWhole ==
    ASSUME NEW c \in Calls
    PROVE  /\ FrameOf(c) \in WholeFrame /\ FrameOf(c).args = Entry(c).args
           /\ FrameOf(c).filename = Entry(c).filename
           /\ FrameOf(c).lineno = Entry(c).lineno
BY EntryIs, ExitIs, Zenon DEF FrameOf

LEMMA RequestIs ==
    ASSUME NEW sg, IsServed(sg), NEW type \in 0..255
    PROVE  request_build(sg, type) \in RequestType
<1>1. /\ sg.sapi \in Seq(Int) /\ sg.path_translated \in Seq(Int)
      /\ sg.method \in Seq(Int) /\ sg.uri \in Seq(Int)
      /\ sg.argv \in Seq(Seq(Int)) /\ sg.time \in Int
  BY DEF IsServed
<1>2. WholeSeconds(sg.time) \in Int
  BY <1>1 DEF WholeSeconds
<1>3. QED
  BY <1>1, <1>2 DEF request_build, RequestType

LEMMA StatusIs ==
    ASSUME NEW sg, IsServed(sg), NEW stack, IsStack(stack)
    PROVE  /\ status_build(sg, stack) \in StatusType
           /\ status_build(sg, stack).php_version \in Texts
           /\ status_build(sg, stack).frames \in Seq(WholeFrame)
<1> DEFINE frames == [i \in DOMAIN stack |->
                        frame_build(stack, i, i, TRUE, PT_FRAME_STACK, 1)]
           version == <<55, 46, 48>>
           request == request_build(sg, PT_FRAME_STACK)
<1>1. Len(stack) \in Nat /\ DOMAIN stack = 1..Len(stack)
  BY DEF IsStack
<1>2. PT_FRAME_STACK \in 0..255 /\ TRUE \in BOOLEAN /\ 1 \in Int
  BY DEF PT_FRAME_STACK
<1>3. \A i \in 1..Len(stack) :
         frame_build(stack, i, i, TRUE, PT_FRAME_STACK, 1) \in WholeFrame
  BY <1>2, BuiltIs
<1>4. frames \in Seq(WholeFrame)
  <2> DEFINE built(i) == frame_build(stack, i, i, TRUE, PT_FRAME_STACK, 1)
  <2>1. frames = [i \in 1..Len(stack) |-> built(i)]
    BY <1>1, Zenon
  <2>2. \A i \in 1..Len(stack) : built(i) \in WholeFrame
    BY <1>3, Zenon
  <2> HIDE DEF built, frames
  <2>3. QED
    BY <1>1, <2>1, <2>2
<1>5. WholeFrame \subseteq FrameType
  BY WholeIs
<1>6. frames \in Seq(FrameType)
  <2> HIDE DEF frames
  <2>1. QED
    BY <1>4, <1>5
<1>7. request \in RequestType
  BY <1>2, RequestIs
<1>8. version \in Texts /\ version \in Seq(Int)
  BY DEF Texts
<1>9. sg.mem \in Int /\ sg.mem + 1 \in Int
  BY DEF IsServed
<1>10. status_build(sg, stack) =
         [php_version |-> version, mem |-> sg.mem, mempeak |-> sg.mem,
          mem_real |-> sg.mem + 1, mempeak_real |-> sg.mem + 1,
          request |-> request, frames |-> frames]
  BY Zenon DEF status_build
<1> HIDE DEF version, request, frames
<1>11. status_build(sg, stack) \in StatusType
  BY <1>6, <1>7, <1>8, <1>9, <1>10 DEF StatusType
<1>12. QED
  BY <1>4, <1>8, <1>10, <1>11

-----------------------------------------------------------------------------
(* The message that was handed over is in the receiver's buffer *)

InPlace ==
    /\ rst = "done" => ret # "message"
    /\ (ret = "message" /\ rst = "idle") => got = Seen(rbuf.data)

LEMMA GivenUpPlace ==
    ASSUME NEW code \in {"PEERDOWN", "ERR_SOCK", "ERR_BUF", "INVALID"}, GiveUp(code)
    PROVE  InPlace'
<1>1. rst' = "done" /\ ret' = code /\ code # "message"
  BY DEF GiveUp
<1>2. QED
  BY <1>1 DEF InPlace

LEMMA HandedPlace ==
    ASSUME NEW data, HandOver(data), rbuf'.data = data
    PROVE  InPlace'
<1>1. rst' = "idle" /\ got' = Seen(data)
  BY Zenon DEF HandOver, Seen
<1>2. rst' # "done"
  BY <1>1
<1>3. QED
  BY <1>1, <1>2, Zenon DEF InPlace

LEMMA StayedPlace ==
    ASSUME InPlace, UNCHANGED <<rst, ret, got, rbuf>>
    PROVE  InPlace'
BY Zenon DEF InPlace

LEMMA HeaderPlace ==
    ASSUME BufferInv, RecvHeader
    PROVE  InPlace'
<1> DEFINE Done == \E code \in {"PEERDOWN", "ERR_SOCK", "ERR_BUF", "INVALID"} : GiveUp(code)
<1>1. \E nb \in buf_prepare(rbuf, HeaderSize) :
         \/ Done
         \/ \E head : HandOver(head) /\ rbuf' = [nb EXCEPT !.data = head]
         \/ rst' = "body"
  <2>1. GiveUp("INVALID") \/ GiveUp("ERR_BUF") => Done
    BY Zenon
  <2> HIDE DEF Done
  <2>2. \A nb, len : PrepareBody(nb, len) => Done \/ rst' = "body"
    BY <2>1, Zenon DEF PrepareBody
  <2>3. QED
    BY <2>1, <2>2, Zenon DEF RecvHeader
<1>2. PICK nb \in buf_prepare(rbuf, HeaderSize) :
         \/ Done
         \/ \E head : HandOver(head) /\ rbuf' = [nb EXCEPT !.data = head]
         \/ rst' = "body"
  BY <1>1, Zenon
<1>3. CASE Done
  BY <1>3, GivenUpPlace, Zenon
<1>4. CASE rst' = "body"
  BY <1>4 DEF InPlace
<1>5. ASSUME NEW head, HandOver(head), rbuf' = [nb EXCEPT !.data = head]
      PROVE  InPlace'
  <2>1. BufferOK(rbuf) /\ oom \in BOOLEAN /\ HeaderSize \in Nat /\ HeaderSize > 0
    BY Sizes DEF BufferInv, RecvSide, Flags
  <2>2. nb \in [size : Nat, cap : Nat, data : Seq(Int)]
    BY <2>1, Prepared, Zenon
  <2>3. rbuf'.data = head
    BY <1>5, <2>2
  <2>4. QED
    BY <1>5, <2>3, HandedPlace, Zenon
<1>6. QED
  BY <1>2, <1>3, <1>4, <1>5, Zenon

LEMMA BodyPlaced ==
    ASSUME BufferInv, RecvBody
    PROVE  InPlace'
<1>1. rst = "body" /\ rbuf \in [size : Nat, cap : Nat, data : Seq(Int)]
  BY DEF BufferInv, RecvSide, RecvBody, BufferOK
<1>2. PICK n \in Nat \ {0}, data \in Seq(Int) : BodyTaken(n, data)
  BY RecvBodyIs, Zenon
<1>3. rbuf' = [rbuf EXCEPT !.data = data]
  BY <1>2, Zenon DEF BodyTaken
<1>4. rbuf'.data = data
  BY <1>1, <1>3
<1>5. HandOver(data) \/ GiveUp("INVALID") \/ rst' = "body"
  BY <1>1, <1>2, Zenon DEF BodyTaken
<1>6. CASE HandOver(data)
  BY <1>4, <1>6, HandedPlace, Zenon
<1>7. CASE GiveUp("INVALID")
  BY <1>7, GivenUpPlace
<1>8. CASE rst' = "body"
  BY <1>8 DEF InPlace
<1>9. QED
  BY <1>5, <1>6, <1>7, <1>8

LEMMA PlaceStep == BufferInv /\ InPlace /\ [Next]_vars => InPlace'
<1> SUFFICES ASSUME BufferInv, InPlace, [Next]_vars
             PROVE  InPlace'
  OBVIOUS
<1>1. CASE \/ UNCHANGED vars \/ Sending \/ SenderEnds
           \/ \E m \in Messages : pt_comm_build_msg(m)
  <2>1. UNCHANGED <<rst, ret, got, rbuf>>
    BY <1>1, Zenon DEF vars, Sending, SendHeader, SendBody, SendInterrupted,
       SendFailed, SenderEnds, pt_comm_build_msg, receiverVars
  <2>2. QED
    BY <2>1, StayedPlace, Zenon
<1>2. CASE RecvNothing
  <2>1. \/ \E code \in {"PEERDOWN", "ERR_SOCK", "ERR_BUF", "INVALID"} : GiveUp(code)
        \/ ret' = "EMPTY"
    BY <1>2, Zenon DEF RecvNothing
  <2>2. ret' = "EMPTY" => InPlace'
    BY DEF InPlace
  <2>3. QED
    BY <2>1, <2>2, GivenUpPlace, Zenon
<1>3. CASE RecvHeader
  BY <1>3, HeaderPlace
<1>4. CASE RecvBody
  BY <1>4, BodyPlaced
<1>5. CASE RecvBodyDown \/ RecvInterrupted
  <2>1. \E code \in {"PEERDOWN", "ERR_SOCK", "ERR_BUF", "INVALID"} : GiveUp(code)
    BY <1>5, Zenon DEF RecvBodyDown, RecvInterrupted
  <2>2. QED
    BY <2>1, GivenUpPlace, Zenon
<1>6. CASE ReceiverEnds
  BY <1>6 DEF ReceiverEnds, InPlace
<1>7. CASE Reconnect
  <2>1. rst = "done" /\ UNCHANGED ret
    BY <1>7, Zenon DEF Reconnect
  <2>2. QED
    BY <2>1, Zenon DEF InPlace
<1>8. QED
  BY <1>1, <1>2, <1>3, <1>4, <1>5, <1>6, <1>7, Zenon DEF Next, Receiving

LEMMA PlaceKept == Spec => [](BufferInv /\ InPlace)
<1>1. Init => InPlace
  BY DEF Init, InPlace
<1>2. QED
  BY <1>1, PlaceStep, BuffersKept, PTL DEF Spec

\* The bytes behind the header of the receiver's buffer are those of the
\* message that it was handed.
LEMMA Spelt ==
    ASSUME BufferInv, InPlace, Delivered, NEW m, Is(m),
           m.data \in Seq(Int), m.len \in Nat
    PROVE  \A k \in 1..Least(m.len, Len(m.data)) : ByteAt(rbuf.data, Body + k - 1) = m.data[k]
<1> DEFINE data == rbuf.data
           n == m.len
<1>1. data \in Seq(Int)
  BY DEF BufferInv, RecvSide, BufferOK
<1>2. got = Seen(data)
  BY Zenon DEF InPlace, Delivered
<1>3. got.len = n /\ \A k \in 1..Least(n, Len(m.data)) : got.data[k] = m.data[k]
  BY Zenon DEF Is, Carries
<1> HIDE DEF data, n
<1>4. got.len = data[1] /\ got.data = Bytes(data, HeaderSize + 1, data[1])
  BY <1>2 DEF Seen
<1>5. got.data = Bytes(data, HeaderSize + 1, n)
  BY <1>3, <1>4, Zenon
<1>6. n \in Nat /\ HeaderSize + 1 \in Nat \ {0} /\ HeaderSize \in Nat /\ Len(data) \in Nat
      /\ Len(m.data) \in Nat
  BY <1>1, Sizes DEF n
<1>7. \A k \in 1..n : got.data[k] =
         IF (HeaderSize + 1) + k - 1 <= Len(data) THEN data[(HeaderSize + 1) + k - 1] ELSE Stale
  <2>1. \A k \in 1..n : Bytes(data, HeaderSize + 1, n)[k] =
           IF (HeaderSize + 1) + k - 1 <= Len(data) THEN data[(HeaderSize + 1) + k - 1] ELSE Stale
    <3> DEFINE i == HeaderSize + 1
    <3>1. i \in Nat \ {0}
      BY <1>6
    <3> HIDE DEF i
    <3>2. \A k \in 1..n : Bytes(data, i, n)[k] =
             IF i + k - 1 <= Len(data) THEN data[i + k - 1] ELSE Stale
      BY <1>1, <1>6, <3>1, BytesAre
    <3>3. QED
      BY <3>2, Zenon DEF i
  <2>2. QED
    BY <1>5, <2>1, Zenon
<1>8. ASSUME NEW k \in 1..Least(n, Len(m.data))
      PROVE  ByteAt(data, Body + k - 1) = m.data[k]
  <2>1. k \in 1..n
    BY <1>6 DEF Least
  <2>2. Body + k - 1 = (HeaderSize + 1) + k - 1
    BY Zenon DEF Body
  <2> DEFINE j == (HeaderSize + 1) + k - 1
  <2>3. (j <= Len(data)) <=> j \in 1..Len(data)
    BY <1>6, <2>1
  <2>4. DOMAIN data = 1..Len(data)
    BY <1>1
  <2>5. got.data[k] = IF j <= Len(data) THEN data[j] ELSE Stale
    BY <1>7, <2>1, Zenon
  <2> HIDE DEF j
  <2>6. ByteAt(data, j) = IF j \in 1..Len(data) THEN data[j] ELSE Stale
    BY <2>4, Zenon DEF ByteAt
  <2>7. ByteAt(data, j) = got.data[k]
    BY <2>3, <2>5, <2>6, Zenon
  <2>8. QED
    BY <1>3, <2>2, <2>7, Zenon DEF j
<1>9. QED
  BY <1>8, Zenon DEF data, n

\* ... all of them, if the message is as long as was announced.
LEMMA SpeltWhole ==
    ASSUME BufferInv, InPlace, Delivered, NEW m, Is(m),
           m.data \in Seq(Int), m.len \in Nat, Len(m.data) <= m.len
    PROVE  Spells(rbuf.data, Body, m.data)
<1>1. Least(m.len, Len(m.data)) = Len(m.data)
  BY DEF Least
<1>2. QED
  BY <1>1, Spelt, Zenon DEF Spells

-----------------------------------------------------------------------------
(* What arrives *)

LEMMA BodyIs == Body \in Int
BY Sizes DEF Body

LEMMA FramesAreGood ==
    ASSUME NEW f \in Frames
    PROVE  f \in WholeFrame /\ f \in FrameType /\ NormalFrame(f) = f
<1>1. PICK c \in Calls : f = FrameOf(c)
  BY Zenon DEF Frames
<1>2. f \in WholeFrame
  BY <1>1, FramesAreWhole
<1>3. QED
  BY <1>2, WholeIs

LEMMA RequestsAreGood ==
    ASSUME NEW r \in Requests
    PROVE  r \in RequestType
<1>1. PICK q \in Served : r = request_build(q.sg, q.type)
  BY Zenon DEF Requests
<1>2. IsServed(q.sg) /\ q.type \in 0..255
  BY RequestsAssumption
<1>3. QED
  BY <1>1, <1>2, RequestIs

LEMMA StatusesAreGood ==
    ASSUME NEW s \in Statuses
    PROVE  s \in StatusType /\ s.php_version \in Texts /\ s.frames \in Seq(WholeFrame)
<1>1. PICK a \in Asked : s = status_build(a.sg, a.stack)
  BY Zenon DEF Statuses
<1>2. IsServed(a.sg) /\ IsStack(a.stack)
  BY RequestsAssumption
<1>3. QED
  BY <1>1, <1>2, StatusIs, Zenon

\* A frame that is handed over is unpacked to the one that was built ...
LEMMA FrameArrives ==
    ASSUME BufferInv, InPlace, Delivered, NEW f \in Frames, Is(frameMsg[f])
    PROVE  frameIn = [val |-> NormalFrame(f), end |-> Body + got.len]
<1> DEFINE m == frame_send(f)
<1>1. frameMsg[f] = m
  BY DEF frameMsg
<1>2. m.data = pt_type_pack_frame(f) /\ m.len = pt_type_len_frame(f)
  BY DEF frame_send
<1>3. f \in FrameType
  BY FramesAreGood
<1>4. /\ m.data \in Seq(Int) /\ m.len \in Nat /\ Len(m.data) = m.len
  BY <1>2, <1>3, FrameLaid, Zenon
<1> HIDE DEF m
<1>5. Is(m) /\ Len(m.data) <= m.len
  BY <1>1, <1>4
<1>6. Spells(rbuf.data, Body, pt_type_pack_frame(f))
  BY <1>2, <1>4, <1>5, SpeltWhole, Zenon
<1>7. got.len = pt_type_len_frame(f)
  BY <1>2, <1>5, Zenon DEF Is, Carries
<1>8. QED
  BY <1>3, <1>6, <1>7, BodyIs, FrameRead, Zenon DEF frameIn

\* ... a request too ...
LEMMA RequestArrives ==
    ASSUME BufferInv, InPlace, Delivered, NEW r \in Requests, Is(requestMsg[r])
    PROVE  requestIn = [val |-> NormalRequest(r), end |-> Body + got.len]
<1> DEFINE m == request_send(r)
<1>1. requestMsg[r] = m
  BY DEF requestMsg
<1>2. m.data = pt_type_pack_request(r) /\ m.len = pt_type_len_request(r)
  BY DEF request_send
<1>3. r \in RequestType
  BY RequestsAreGood
<1>4. /\ m.data \in Seq(Int) /\ m.len \in Nat /\ Len(m.data) = m.len
  BY <1>2, <1>3, RequestLaid, Zenon
<1> HIDE DEF m
<1>5. Is(m) /\ Len(m.data) <= m.len
  BY <1>1, <1>4
<1>6. Spells(rbuf.data, Body, pt_type_pack_request(r))
  BY <1>2, <1>4, <1>5, SpeltWhole, Zenon
<1>7. got.len = pt_type_len_request(r)
  BY <1>2, <1>5, Zenon DEF Is, Carries
<1>8. QED
  BY <1>3, <1>6, <1>7, BodyIs, RequestRead, Zenon DEF requestIn

\* ... and a status.
LEMMA StatusArrives ==
    ASSUME BufferInv, InPlace, Delivered, NEW s \in Statuses, Is(statusMsg[s])
    PROVE  statusIn = [val |-> NormalStatus(s), end |-> Body + got.len]
<1> DEFINE m == status_send(s)
<1>1. statusMsg[s] = m
  BY DEF statusMsg
<1>2. m.data = pt_type_pack_status(s) /\ m.len = pt_type_len_status(s)
  BY DEF status_send
<1>3. s \in StatusType
  BY StatusesAreGood
<1>4. /\ m.data \in Seq(Int) /\ m.len \in Nat /\ Len(m.data) = m.len
  BY <1>2, <1>3, StatusLaid, Zenon
<1> HIDE DEF m
<1>5. Is(m) /\ Len(m.data) <= m.len
  BY <1>1, <1>4
<1>6. Spells(rbuf.data, Body, pt_type_pack_status(s))
  BY <1>2, <1>4, <1>5, SpeltWhole, Zenon
<1>7. got.len = pt_type_len_status(s)
  BY <1>2, <1>5, Zenon DEF Is, Carries
<1>8. QED
  BY <1>3, <1>6, <1>7, BodyIs, StatusRead, Zenon DEF statusIn

\* pt_type_unpack_frame, _request and _status give back what was packed, for
\* every stack, request and list of arguments, however the kernel cut the
\* message and whatever the buffer held before, and stop where it ends.
THEOREM RoundTrips == Spec => []RoundTrip
<1>1. ASSUME BufferInv, InPlace PROVE RoundTrip
  <2>1. ASSUME Delivered
        PROVE  CASE got.type = PT_MSG_FRAME ->
                      LET in == frameIn
                      IN \A f \in Frames : Is(frameMsg[f]) =>
                            in = [val |-> NormalFrame(f), end |-> Body + got.len]
                 [] got.type = PT_MSG_REQ ->
                      LET in == requestIn
                      IN \A r \in Requests : Is(requestMsg[r]) =>
                            in = [val |-> NormalRequest(r), end |-> Body + got.len]
                 [] got.type = PT_MSG_STATUS ->
                      LET in == statusIn
                      IN \A s \in Statuses : Is(statusMsg[s]) =>
                            in = [val |-> NormalStatus(s), end |-> Body + got.len]
                 [] OTHER -> TRUE
    <3> DEFINE F == \A f \in Frames : Is(frameMsg[f]) =>
                      frameIn = [val |-> NormalFrame(f), end |-> Body + got.len]
               R == \A r \in Requests : Is(requestMsg[r]) =>
                      requestIn = [val |-> NormalRequest(r), end |-> Body + got.len]
               S == \A s \in Statuses : Is(statusMsg[s]) =>
                      statusIn = [val |-> NormalStatus(s), end |-> Body + got.len]
    <3>1. F /\ R /\ S
      BY <1>1, <2>1, FrameArrives, RequestArrives, StatusArrives, Zenon
    <3> SUFFICES CASE got.type = PT_MSG_FRAME -> F
                   [] got.type = PT_MSG_REQ -> R
                   [] got.type = PT_MSG_STATUS -> S
                   [] OTHER -> TRUE
      OBVIOUS
    <3> HIDE DEF F, R, S
    <3>2. QED
      BY <3>1 DEF PT_MSG_FRAME, PT_MSG_REQ, PT_MSG_STATUS
  <2>2. QED
    BY <2>1, Zenon DEF RoundTrip
<1>2. QED
  BY <1>1, PlaceKept, PTL

\* A filter whose packed form fits into sizeof(pt_filter_t) bytes is unpacked
\* by the extension as parse_args made it.
THEOREM ShortFiltersArrive == Spec => []ShortFilterArrives
<1>1. ASSUME BufferInv, InPlace, Delivered, NEW f \in Filters, Is(filter_send(f)),
             Len(pt_filter_pack_filter_msg(f)) <= PT_FILTER_SIZE
      PROVE  filterIn.val = f
  <2> DEFINE m == filter_send(f)
  <2>1. f = [type |-> f.type, content |-> f.content] /\ f.type \in 0..255
        /\ f.content \in Seq(Nat) \ {<<>>}
    BY FiltersAssumption
  <2>2. f.type \in Int /\ f.type % 256 = f.type /\ f.content \in Seq(Int) /\ f.content # <<>>
    <3>1. \A x \in 0..255 : x \in Int /\ x % 256 = x
      BY SMT
    <3>2. \A s \in Seq(Nat) \ {<<>>} : s \in Seq(Int) /\ s # <<>>
      BY SMT
    <3>3. QED
      BY <2>1, <3>1, <3>2, Zenon
  <2>3. m.data = pt_filter_pack_filter_msg(f) /\ m.len = PT_FILTER_SIZE /\ PT_FILTER_SIZE \in Nat
    BY DEF filter_send, PT_FILTER_SIZE
  <2>4. /\ Packed(1, f.type) \in Seq(Int) /\ Len(Packed(1, f.type)) = 1
        /\ PACK_STR(f.content) \in Seq(Int)
    BY <2>2, NumberIs, StrIs, 1 \in Nat \ {0}, ZenonT(40)
  <2>5. m.data = Packed(1, f.type) \o PACK_STR(f.content) /\ m.data \in Seq(Int)
    BY <2>3, <2>4, Join, Zenon DEF pt_filter_pack_filter_msg
  <2> HIDE DEF m
  <2>6. Is(m) /\ Len(m.data) <= m.len /\ m.len \in Nat
    BY <1>1, <2>3, Zenon DEF m
  <2>7. Spells(rbuf.data, Body, m.data)
    BY <1>1, <2>5, <2>6, SpeltWhole, Zenon
  <2>8. /\ Spells(rbuf.data, Body, Packed(1, f.type))
        /\ Spells(rbuf.data, Body + 1, PACK_STR(f.content))
    <3> DEFINE a == Packed(1, f.type)
               b == PACK_STR(f.content)
    <3>1. /\ a \in Seq(Int) /\ b \in Seq(Int) /\ Len(a) = 1 /\ Body \in Int
          /\ Spells(rbuf.data, Body, a \o b)
      BY <2>4, <2>5, <2>7, BodyIs, Zenon
    <3> HIDE DEF a, b
    <3>2. Spells(rbuf.data, Body, a) /\ Spells(rbuf.data, Body + Len(a), b)
      BY <3>1, SpellsJoin, Zenon
    <3>3. QED
      BY <3>1, <3>2, Zenon DEF a, b
  <2>9. ByteAt(rbuf.data, Body) = f.type
    <3>1. ByteAt(rbuf.data, Body) = f.type % 256
      BY <2>2, <2>8, BodyIs, NumberRead, 1 \in Nat \ {0}
    <3>2. QED
      BY <2>2, <3>1, Zenon
  <2>10. UNPACK_STR(rbuf.data, Body + 1) = f.content
    <3>1. Body + 1 \in Int
      BY BodyIs
    <3>2. UNPACK_STR(rbuf.data, Body + 1) = OrNull(f.content)
      BY <2>2, <2>8, <3>1, StrRead, Zenon
    <3>3. QED
      BY <2>2, <3>2, Zenon DEF OrNull
  <2>11. filterIn.val = [type |-> ByteAt(rbuf.data, Body), content |-> UNPACK_STR(rbuf.data, Body + 1)]
    BY DEF filterIn, pt_filter_unpack_filter_msg
  <2>12. QED
    BY <2>1, <2>9, <2>10, <2>11, Zenon
<1>2. ASSUME BufferInv, InPlace PROVE ShortFilterArrives
  BY <1>1, <1>2, Zenon DEF ShortFilterArrives
<1>3. QED
  BY <1>2, PlaceKept, PTL

-----------------------------------------------------------------------------
(* What is printed *)

\* A request without empty texts arrives as it is ...
LEMMA FullRequest ==
    ASSUME NEW r \in RequestType, NoneEmpty(r)
    PROVE  NormalRequest(r) = r
<1>1. /\ r.sapi \in Seq(Int) /\ r.script \in Seq(Int) /\ r.method \in Seq(Int)
      /\ r.uri \in Seq(Int) /\ r.argv \in Seq(Seq(Int))
  BY RequestTypeFields
<1>2. /\ r.sapi # <<>> /\ r.script # <<>> /\ r.method # <<>> /\ r.uri # <<>>
      /\ <<>> \notin ToSet(r.argv)
  BY Zenon DEF NoneEmpty
<1>3. /\ OrNull(r.sapi) = r.sapi /\ OrNull(r.script) = r.script
      /\ OrNull(r.method) = r.method /\ OrNull(r.uri) = r.uri
  BY <1>2, Zenon DEF OrNull
<1>4. OrNulls(r.argv) = r.argv
  <2> DEFINE argv == r.argv
  <2>1. argv = [i \in DOMAIN argv |-> argv[i]]
    BY <1>1
  <2>2. \A i \in DOMAIN argv : argv[i] # <<>>
    BY <1>2, Zenon DEF ToSet
  <2>3. OrNulls(argv) = [i \in DOMAIN argv |-> OrNull(argv[i])]
    BY Zenon DEF OrNulls
  <2>4. \A i \in DOMAIN argv : OrNull(argv[i]) = argv[i]
    BY <2>2, Zenon DEF OrNull
  <2>5. QED
    BY <2>1, <2>3, <2>4, Zenon
<1>5. r = [type |-> r.type, sapi |-> r.sapi, script |-> r.script, time |-> r.time,
           method |-> r.method, uri |-> r.uri, argv |-> r.argv]
  BY DEF RequestType
<1>6. QED
  BY <1>3, <1>4, <1>5, NormalRequestIs, Zenon

\* ... and a status with it.
LEMMA FullStatus ==
    ASSUME NEW s \in Statuses, NoneEmpty(s.request)
    PROVE  NormalStatus(s) = s
<1>1. s \in StatusType /\ s.php_version \in Texts /\ s.frames \in Seq(WholeFrame)
  BY StatusesAreGood
<1>2. OrNull(s.php_version) = s.php_version
  BY <1>1, TextsAreStrings
<1>3. NormalRequest(s.request) = s.request
  BY <1>1, StatusTypeFields, FullRequest, Zenon
<1>4. NormalFrames(s.frames) = s.frames
  <2> DEFINE frames == s.frames
  <2>1. frames \in Seq(WholeFrame)
    BY <1>1, Zenon
  <2> HIDE DEF frames
  <2>2. frames = [i \in DOMAIN frames |-> frames[i]]
        /\ \A i \in DOMAIN frames : frames[i] \in WholeFrame
    BY <2>1
  <2>3. NormalFrames(frames) = [i \in DOMAIN frames |-> NormalFrame(frames[i])]
    BY DEF NormalFrames
  <2>4. \A i \in DOMAIN frames : NormalFrame(frames[i]) = frames[i]
    BY <2>2, WholeIs, Zenon
  <2>5. NormalFrames(frames) = frames
    BY <2>2, <2>3, <2>4, Zenon
  <2>6. QED
    BY <2>5, Zenon DEF frames
<1>5. s = [php_version |-> s.php_version, mem |-> s.mem, mempeak |-> s.mempeak,
           mem_real |-> s.mem_real, mempeak_real |-> s.mempeak_real,
           request |-> s.request, frames |-> s.frames]
  BY <1>1 DEF StatusType
<1>6. QED
  BY <1>1, <1>2, <1>3, <1>4, <1>5, NormalStatusIs, Zenon

\* A frame that is handed over is the one that was built.
LEMMA FrameArrivesWhole ==
    ASSUME BufferInv, InPlace, Delivered, NEW f \in Frames, Is(frameMsg[f])
    PROVE  frameIn.val = f
<1>1. frameIn = [val |-> f, end |-> Body + got.len]
  BY FrameArrives, FramesAreGood, Zenon
<1>2. QED
  BY <1>1

\* What the tool prints of a frame or a status is what the extension would
\* print of the original (pt_type_display_frame, _status), as long as no text
\* of the request is empty.
THEOREM PrintsTheSame == Spec => []PrintsSame
<1>1. ASSUME BufferInv, InPlace, Delivered, NEW f \in Frames, Is(frameMsg[f])
      PROVE  pt_type_display_frame(frameIn.val) = pt_type_display_frame(f)
  BY <1>1, FrameArrivesWhole, Zenon
<1>2. ASSUME BufferInv, InPlace, Delivered, NEW s \in Statuses, Is(statusMsg[s]),
             NoneEmpty(s.request)
      PROVE  pt_type_display_status(statusIn.val) = pt_type_display_status(s)
  <2>1. statusIn = [val |-> s, end |-> Body + got.len]
    BY <1>2, StatusArrives, FullStatus, Zenon
  <2>2. statusIn.val = s
    BY <2>1
  <2>3. QED
    BY <2>2, Zenon
<1>3. ASSUME BufferInv, InPlace PROVE PrintsSame
  BY <1>1, <1>2, <1>3, Zenon DEF PrintsSame
<1>4. QED
  BY <1>3, PlaceKept, PTL

-----------------------------------------------------------------------------
(* The arguments *)

LEMMA ArgTextIs ==
    ASSUME NEW v, IsValue(v)
    PROVE  repr_zval(v) = ArgText(v)
<1>1. CASE v.type = "STRING"
  <2> DEFINE s == v.str
             tlen == IF Len(s) < Limit THEN Len(s) ELSE Limit
  <2>1. s \in Seq(Int) /\ Len(s) \in Nat /\ Limit \in Nat
    BY <1>1, ReportAssumption DEF IsValue, IsPlainValue
  <2>2. repr_zval(v) = repr_string(s)
    BY <1>1 DEF repr_zval
  <2>3. repr_string(s) = sdscatrepr(SubSeq(s, 1, tlen))
                            \o (IF Len(s) > Limit THEN Dots ELSE <<>>)
    BY Zenon DEF repr_string
  <2>4. CASE Len(s) <= Limit
    <3>1. ArgText(v) = sdscatrepr(s)
      BY <1>1, <2>1, <2>4 DEF ArgText
    <3>2. tlen = Len(s) /\ ~(Len(s) > Limit)
      BY <2>1, <2>4
    <3>3. SubSeq(s, 1, Len(s)) = s
      BY <2>1
    <3>4. sdscatrepr(s) \o <<>> = sdscatrepr(s)
      <4>1. sdscatrepr(s) \in Seq(Int)
        BY <2>1, ReprIs DEF Texts
      <4>2. QED
        BY <4>1
    <3>5. QED
      BY <2>2, <2>3, <3>1, <3>2, <3>3, <3>4, Zenon
  <2>5. CASE Len(s) > Limit
    <3>1. ArgText(v) = sdscatrepr(SubSeq(s, 1, Limit)) \o Dots
      BY <1>1, <2>1, <2>5 DEF ArgText
    <3>2. tlen = Limit
      BY <2>1, <2>5
    <3>3. QED
      BY <2>2, <2>3, <2>5, <3>1, <3>2, Zenon
  <2>6. QED
    BY <2>1, <2>4, <2>5
<1>2. CASE v.type # "STRING"
  BY <1>2 DEF ArgText
<1>3. QED
  BY <1>1, <1>2

\* The frame of a call is what frame_build makes of its stack.
Caller1(stack) == IF HasPrev(stack, 1) THEN 2 ELSE 1

LEMMA CallParts ==
    ASSUME NEW c \in Calls
    PROVE  /\ FrameOf(c) \in Frames
           /\ c.stack[1].func.name # NULL => FrameOf(c).args = Args(c.stack[1])
           /\ FrameOf(c).lineno = LineOf(c.stack, Caller(c.stack, Caller1(c.stack)))
           /\ FrameOf(c).filename = FileOf(c.stack, Caller(c.stack, Caller1(c.stack)))
<1>1. FrameOf(c) \in Frames
  BY Zenon DEF Frames
<1>2. /\ c.stack[1].func.name # NULL => Entry(c).args = Args(c.stack[1])
      /\ Entry(c).lineno = LineOf(c.stack, Caller(c.stack, Caller1(c.stack)))
      /\ Entry(c).filename = FileOf(c.stack, Caller(c.stack, Caller1(c.stack)))
  BY DEF Entry, EntryFrame, frame_build, Caller1
<1>3. QED
  BY <1>1, <1>2, FramesAreWhole, Zenon

\* frame_build finds every argument of a call that was passed, those beyond
\* the declared ones too, and their texts arrive at the tool in their order.
THEOREM ArgsAreShown == Spec => []ShownArgs
<1>1. ASSUME BufferInv, InPlace, Delivered, NEW c \in Calls, IsOf(c),
             c.stack[1].func.name # NULL,
             c.stack[1].func.user => c.stack[1].func.num_args > 0
      PROVE  frameIn.val.args =
                [i \in DOMAIN c.stack[1].args |-> ArgText(c.stack[1].args[i])]
  <2> DEFINE ex == c.stack[1]
  <2>1. frameIn.val = FrameOf(c)
    BY <1>1, CallParts, FrameArrivesWhole, Zenon DEF IsOf
  <2>2. FrameOf(c).args = Args(ex)
    BY <1>1, CallParts, Zenon
  <2>3. IsExecuteData(ex)
    <3>1. IsStack(c.stack) /\ c.stack # <<>>
      BY CallsAssumption
    <3>2. 1 \in 1..Len(c.stack)
      BY <3>1 DEF IsStack
    <3>3. QED
      BY <3>1, <3>2, OplineIs, Zenon
  <2>4. \A i \in DOMAIN ex.args : SlotAt(ex, SlotOf(ex, i)) = ex.args[i]
    BY <1>1, <2>3, SlotHolds, Zenon
  <2>5. \A i \in DOMAIN ex.args : IsValue(ex.args[i])
    BY <2>3, Zenon DEF IsExecuteData
  <2>6. \A i \in DOMAIN ex.args : repr_zval(SlotAt(ex, SlotOf(ex, i))) = ArgText(ex.args[i])
    BY <2>4, <2>5, ArgTextIs, Zenon
  <2>7. Args(ex) = [i \in DOMAIN ex.args |-> repr_zval(SlotAt(ex, SlotOf(ex, i)))]
    BY Zenon DEF Args
  <2>8. Args(ex) = [i \in DOMAIN ex.args |-> ArgText(ex.args[i])]
    BY <2>6, <2>7, Zenon
  <2>9. QED
    BY <2>1, <2>2, <2>8, Zenon
<1>2. ASSUME BufferInv, InPlace PROVE ShownArgs
  BY <1>1, <1>2, Zenon DEF ShownArgs
<1>3. QED
  BY <1>2, PlaceKept, PTL

-----------------------------------------------------------------------------
(* The place of the call *)

\* The innermost user code below a call is one of the first three frames.
LEMMA SiteIs ==
    ASSUME NEW stack, IsStack(stack), stack # <<>>, PlainSite(stack)
    PROVE  /\ SiteOf(stack) \in Below(stack) \cap {1, 2, 3} /\ IsUser(stack[SiteOf(stack)])
           /\ \A j \in Below(stack) : j < SiteOf(stack) => ~IsUser(stack[j])
<1> DEFINE U == UserBelow(stack)
<1>1. Len(stack) \in Nat
  BY DEF IsStack
<1>2. /\ U \cap {1, 2, 3} # {} /\ U \subseteq Below(stack) /\ Below(stack) \subseteq Nat
      /\ \A k \in U : IsUser(stack[k])
      /\ \A k \in Below(stack) : IsUser(stack[k]) => k \in U
  BY <1>1 DEF PlainSite, UserBelow, Below
<1> HIDE DEF U
<1>3. U \subseteq Nat
  BY <1>2, Zenon
<1>4. \E k \in U : \A j \in U : k <= j
  <2>1. CASE 1 \in U
    <3>1. \A j \in U : 1 <= j \/ j = 0
      BY <1>3
    <3>2. 0 \notin U
      BY <1>1, <1>2 DEF Below
    <3>3. QED
      BY <2>1, <3>1, <3>2
  <2>2. CASE 1 \notin U
    <3>1. 0 \notin U
      BY <1>1, <1>2 DEF Below
    <3>2. \A j \in U : j >= 2
      BY <1>3, <2>2, <3>1
    <3>3. CASE 2 \in U
      BY <3>2, <3>3, <1>3
    <3>4. CASE 2 \notin U
      <4>1. 3 \in U
        BY <1>2, <2>2, <3>4
      <4>2. \A j \in U : 3 <= j
        BY <1>3, <3>2, <3>4
      <4>3. QED
        BY <4>1, <4>2, Zenon
    <3>5. QED
      BY <3>3, <3>4
  <2>3. QED
    BY <2>1, <2>2
<1> DEFINE k == SiteOf(stack)
<1>5. k \in U /\ \A j \in U : k <= j
  BY <1>4, Zenon DEF SiteOf, U
<1> HIDE DEF k
<1>6. k \in {1, 2, 3}
  <2>1. PICK j \in U \cap {1, 2, 3} : TRUE
    BY <1>2, Zenon
  <2>2. k \in Nat /\ k <= j /\ k # 0
    BY <1>1, <1>2, <1>3, <1>5, <2>1 DEF Below
  <2>3. QED
    BY <2>1, <2>2
<1>7. \A j \in Below(stack) : j < k => ~IsUser(stack[j])
  <2>1. ASSUME NEW j \in Below(stack), j < k, IsUser(stack[j]) PROVE FALSE
    <3>1. j \in U /\ k <= j /\ j \in Nat /\ k \in Nat
      BY <1>2, <1>3, <1>5, <2>1, Zenon
    <3>2. QED
      BY <2>1, <3>1
  <2>2. QED
    BY <2>1
<1>8. QED
  BY <1>2, <1>5, <1>6, <1>7, Zenon DEF k

\* Caller stops at it, or at an internal function without an opline above
\* it, whose line and file are then taken from it.
LEMMA SiteFound ==
    ASSUME NEW stack, IsStack(stack), stack # <<>>, PlainSite(stack)
    PROVE  /\ LineOf(stack, Caller(stack, Caller1(stack))) = CallSite(stack).opline.lineno
           /\ FileOf(stack, Caller(stack, Caller1(stack))) = CallSite(stack).func.filename
<1> DEFINE k == SiteOf(stack)
           L == Len(stack)
           b == Caller1(stack)
<1>1. L \in Nat \ {0} /\ DOMAIN stack = 1..L
  BY DEF IsStack
<1>2. /\ k \in Below(stack) \cap {1, 2, 3} /\ IsUser(stack[k])
      /\ \A j \in Below(stack) : j < k => ~IsUser(stack[j])
  BY SiteIs, Zenon
<1>3. stack[k].opline.set /\ (stack[k].opline.call \/ k = L)
  BY Zenon DEF PlainSite, CallSite
<1>4. CallSite(stack) = stack[k]
  BY Zenon DEF CallSite
<1>5. /\ \A j : HasPrev(stack, j) <=> j < L
      /\ Below(stack) = IF 1 < L THEN 2..L ELSE {1}
      /\ b = IF 1 < L THEN 2 ELSE 1
  BY Zenon DEF HasPrev, Below, Caller1
<1>6. \A j \in 1..L : /\ IsUser(stack[j]) <=> (stack[j].func # NoFunc /\ stack[j].func.user)
                      /\ stack[j].opline.set => stack[j].func # NoFunc
  <2>1. \A j \in 1..L : IsExecuteData(stack[j])
    BY OplineIs, Zenon
  <2>2. \A ex : IsExecuteData(ex) /\ ex.opline.set => ex.func # NoFunc
    <3>1. ASSUME NEW ex, IsExecuteData(ex), ex.opline.set, ex.func = NoFunc PROVE FALSE
      <4>1. IsFunc(NoFunc)
        BY <3>1, Zenon DEF IsExecuteData
      <4>2. NoFunc.naming \in {"closure", "lambda", "plain"}
        BY <4>1, Zenon DEF IsFunc
      <4>3. QED
        BY <4>2 DEF NoFunc
    <3>2. QED
      BY <3>1, Zenon
  <2>3. QED
    BY <2>1, <2>2, Zenon DEF IsUser
<1> HIDE DEF k, L, b
<1>7. k \in 1..L /\ b \in 1..L /\ b <= k
  BY <1>1, <1>2, <1>5
<1>8. IsUser(stack[k]) /\ stack[k].func # NoFunc /\ stack[k].func.user
  BY <1>2, <1>6, <1>7, Zenon
<1>9. k = L => ~HasPrev(stack, k)
  BY <1>1, <1>5
<1>10. Caller(stack, k) = k
  BY <1>3, <1>8, <1>9, Zenon DEF Caller
<1>11. LineOf(stack, k) = stack[k].opline.lineno /\ FileOf(stack, k) = stack[k].func.filename
  <2>1. LineOf(stack, k) = stack[k].opline.lineno
    BY <1>3 DEF LineOf
  <2>2. FileOf(stack, k) = stack[k].func.filename
    BY <1>8 DEF FileOf
  <2>3. QED
    BY <2>1, <2>2
<1>12. CASE b = k
  BY <1>4, <1>10, <1>11, <1>12, Zenon DEF b, k
<1>13. CASE b # k
  <2>1. b = 2 /\ k = 3 /\ b + 1 = k /\ 1 < L /\ b \in Below(stack) /\ b < k
    BY <1>1, <1>2, <1>5, <1>7, <1>13
  <2>2. HasPrev(stack, b)
    BY <1>1, <1>5, <1>7, <2>1
  <2>3. ~IsUser(stack[b])
    BY <1>2, <2>1, Zenon
  <2>4. CASE stack[b].opline.set
    <3>1. stack[b].func # NoFunc /\ ~stack[b].func.user
      BY <1>6, <1>7, <2>3, <2>4, Zenon
    <3>2. Caller(stack, b) = k
      BY <1>3, <1>9, <2>1, <2>2, <2>4, <3>1, Zenon DEF Caller
    <3>3. QED
      BY <1>4, <1>11, <3>2, Zenon DEF b, k
  <2>5. CASE ~stack[b].opline.set
    <3>1. Caller(stack, b) = b
      BY <2>5, Zenon DEF Caller
    <3>2. LineOf(stack, b) = stack[b + 1].opline.lineno
      BY <1>3, <2>1, <2>2, <2>5 DEF LineOf
    <3>3. FileOf(stack, b) = stack[b + 1].func.filename
      BY <1>8, <2>1, <2>2, <2>3 DEF FileOf
    <3>4. QED
      BY <1>4, <2>1, <3>1, <3>2, <3>3, Zenon DEF b, k
  <2>6. QED
    BY <2>4, <2>5
<1>14. QED
  BY <1>12, <1>13

\* The file and the line that the tool prints for a call are those of the user
\* code that made it, also when it was made through an internal function
\* (frame_build, its steps over prev_execute_data).
THEOREM SiteIsShown == Spec => []ShownSite
<1>1. ASSUME BufferInv, InPlace, Delivered, NEW c \in Calls, IsOf(c), PlainSite(c.stack)
      PROVE  pt_type_display_frame(frameIn.val).at =
                <<CallSite(c.stack).func.filename, CallSite(c.stack).opline.lineno>>
  <2> DEFINE stack == c.stack
             file == CallSite(stack).func.filename
             line == CallSite(stack).opline.lineno
  <2>1. frameIn.val = FrameOf(c)
    BY <1>1, CallParts, FrameArrivesWhole, Zenon DEF IsOf
  <2>2. IsStack(stack) /\ stack # <<>>
    BY CallsAssumption
  <2>3. FrameOf(c).lineno = line /\ FrameOf(c).filename = file
    BY <1>1, <2>2, CallParts, SiteFound, Zenon
  <2>4. file # NULL
    <3>1. SiteOf(stack) \in 1..Len(stack)
      <4>1. Len(stack) \in Nat \ {0}
        BY <2>2 DEF IsStack
      <4>2. Below(stack) \subseteq 1..Len(stack)
        BY <4>1 DEF Below, HasPrev
      <4>3. QED
        BY <1>1, <2>2, <4>2, SiteIs, Zenon
    <3>2. IsUser(stack[SiteOf(stack)])
      BY <1>1, <2>2, SiteIs, Zenon
    <3>3. QED
      BY <2>2, <3>1, <3>2, OplineIs, UserFile, Zenon DEF CallSite
  <2>5. pt_type_display_frame(FrameOf(c)).at = <<Shown(FrameOf(c).filename), FrameOf(c).lineno>>
    BY DEF pt_type_display_frame
  <2>6. Shown(file) = file
    BY <2>4, Zenon DEF Shown
  <2>7. QED
    BY <2>1, <2>3, <2>5, <2>6, Zenon
<1>2. ASSUME BufferInv, InPlace PROVE ShownSite
  BY <1>1, <1>2, Zenon DEF ShownSite
<1>3. QED
  BY <1>2, PlaceKept, PTL

-----------------------------------------------------------------------------
(* What is handed over was sent *)

\* The numbers of the header behind the length.
LEMMA HeaderNumbers ==
    ASSUME NEW m \in Messages
    PROVE  Header(m)[5] = m.type /\ Header(m)[9] = m.pid
<1> DEFINE a == PACK(4, m.len)
           b == PACK(4, m.type)
           c == PACK(4, m.pid)
           ab == a \o b
<1>1. m.len \in Int /\ m.type \in Int /\ m.pid \in Int
  BY WireAssumption
<1>2. /\ a \in Seq(Int) /\ Len(a) = 4
      /\ b \in Seq(Int) /\ Len(b) = 4 /\ b[1] = m.type
      /\ c \in Seq(Int) /\ Len(c) = 4 /\ c[1] = m.pid
  BY <1>1, PackedNumber, Zenon
<1>3. Header(m) = ab \o c
  BY Zenon DEF Header
<1> HIDE DEF a, b, c
<1>4. /\ ab \in Seq(Int) /\ Len(ab) = Len(a) + Len(b)
      /\ \A k \in 1..Len(b) : ab[Len(a) + k] = b[k]
  BY <1>2, Join, Zenon
<1>5. Len(ab) = 8 /\ ab[5] = b[1]
  <2>1. 1 \in 1..Len(b) /\ Len(a) + 1 = 5 /\ Len(a) + Len(b) = 8
    BY <1>2
  <2>2. QED
    BY <1>4, <2>1, Zenon
<1> HIDE DEF ab
<1>6. /\ \A k \in 1..Len(ab) : (ab \o c)[k] = ab[k]
      /\ \A k \in 1..Len(c) : (ab \o c)[Len(ab) + k] = c[k]
  BY <1>2, <1>4, Join, Zenon
<1>7. 5 \in 1..Len(ab) /\ 1 \in 1..Len(c) /\ Len(ab) + 1 = 9
  BY <1>2, <1>5
<1>8. (ab \o c)[5] = ab[5] /\ (ab \o c)[9] = c[1]
  BY <1>6, <1>7, Zenon
<1>9. QED
  BY <1>2, <1>3, <1>5, <1>8, Zenon

\* The bytes that go to send(), as far as they were written.
LEMMA Leaving ==
    ASSUME NEW m \in Messages, NEW old \in Seq(Int)
    PROVE  LET gone == Bytes(Write(old, 1, Header(m) \o m.data), 1, HeaderSize + m.len)
           IN /\ gone \in Seq(Int) /\ Len(gone) = HeaderSize + m.len
              /\ gone[1] = m.len /\ gone[5] = m.type /\ gone[9] = m.pid
              /\ \A k \in 1..Least(m.len, Len(m.data)) : gone[HeaderSize + k] = m.data[k]
<1> DEFINE h == Header(m)
           d == m.data
           n == m.len
           bytes == h \o d
           data == Write(old, 1, bytes)
           gone == Bytes(data, 1, HeaderSize + n)
<1>1. d \in Seq(Int) /\ Len(d) \in Nat /\ n \in Nat
  BY WireAssumption
<1>2. /\ h \in Seq(Int) /\ Len(h) = 12 /\ HeaderSize = 12
      /\ h[1] = n /\ h[5] = m.type /\ h[9] = m.pid
  BY HeaderIs, HeaderNumbers, Sizes, Zenon
<1> HIDE DEF h, d, n
<1>3. /\ bytes \in Seq(Int) /\ Len(bytes) = 12 + Len(d)
      /\ \A k \in 1..12 : bytes[k] = h[k]
      /\ \A k \in 1..Len(d) : bytes[12 + k] = d[k]
  <2>1. /\ bytes \in Seq(Int) /\ Len(bytes) = Len(h) + Len(d)
        /\ \A k \in 1..Len(h) : bytes[k] = h[k]
        /\ \A k \in 1..Len(d) : bytes[Len(h) + k] = d[k]
    BY <1>1, <1>2, Join, Zenon
  <2>2. QED
    BY <1>2, <2>1, Zenon
<1> HIDE DEF bytes
<1>4. /\ data \in Seq(Int)
      /\ Len(data) >= 1 - 1 + Len(bytes)
      /\ \A k \in 1..Len(bytes) : data[1 - 1 + k] = bytes[k]
  BY <1>3, WriteIs, 1 \in Nat \ {0}, Zenon
<1> HIDE DEF data
<1>5. /\ Len(data) \in Nat /\ Len(data) >= 12 + Len(d)
      /\ \A k \in 1..(12 + Len(d)) : data[k] = bytes[k]
  BY <1>1, <1>3, <1>4
<1>6. HeaderSize + n \in Nat
  BY <1>1, <1>2
<1>7. /\ gone \in Seq(Int) /\ Len(gone) = HeaderSize + n
      /\ \A k \in 1..(HeaderSize + n) : gone[k] =
            IF 1 + k - 1 <= Len(data) THEN data[1 + k - 1] ELSE Stale
  BY <1>4, <1>6, BytesAre, 1 \in Nat \ {0}, Zenon
<1> HIDE DEF gone
<1>8. \A k \in 1..(12 + n) : k <= 12 + Len(d) => gone[k] = bytes[k]
  <2> SUFFICES ASSUME NEW k \in 1..(12 + n), k <= 12 + Len(d) PROVE gone[k] = bytes[k]
    OBVIOUS
  <2>1. 1 + k - 1 = k /\ k <= Len(data) /\ k \in 1..(12 + Len(d)) /\ k \in 1..(HeaderSize + n)
    BY <1>1, <1>2, <1>5
  <2>2. gone[k] = data[k]
    BY <1>7, <2>1, Zenon
  <2>3. QED
    BY <1>5, <2>1, <2>2, Zenon
<1>9. gone[1] = n /\ gone[5] = m.type /\ gone[9] = m.pid
  <2>1. \A k \in 1..12 : k \in 1..(12 + n) /\ k <= 12 + Len(d)
    BY <1>1
  <2>2. \A k \in 1..12 : gone[k] = h[k]
    BY <1>3, <1>8, <2>1, Zenon
  <2>3. 1 \in 1..12 /\ 5 \in 1..12 /\ 9 \in 1..12
    OBVIOUS
  <2>4. QED
    BY <1>2, <2>2, <2>3, Zenon
<1>10. ASSUME NEW k \in 1..Least(n, Len(d)) PROVE gone[HeaderSize + k] = d[k]
  <2>1. k \in 1..Len(d) /\ 12 + k \in 1..(12 + n) /\ 12 + k <= 12 + Len(d)
    BY <1>1 DEF Least
  <2>2. QED
    BY <1>2, <1>3, <1>8, <2>1, Zenon
<1>11. QED
  BY <1>7, <1>9, <1>10, Zenon DEF h, d, n, bytes, data, gone

\* A message that somebody built.
Known(g) == \E m \in Messages : Carries(g, m)

\* What waits to be sent, what is on its way and what was handed over.
KnownInv ==
    /\ sst = "header" => Known(Outgoing)
    /\ \A i \in 1..Len(pending) : Known(pending[i])
    /\ Delivered => Known(got)

\* pt_comm_build_msg makes ready what it was given.
LEMMA BuildKnown ==
    ASSUME BufferInv, NEW m \in Messages, pt_comm_build_msg(m), sst' = "header"
    PROVE  Known(Outgoing)'
<1> DEFINE need == HeaderSize + m.len
           bytes == Header(m) \o m.data
<1>1. BufferOK(sbuf) /\ oom \in BOOLEAN /\ sst = "idle"
  BY DEF BufferInv, SendSide, Flags, pt_comm_build_msg
<1>2. need \in Nat /\ need > 0
  <2>1. m.len \in Nat
    BY WireAssumption
  <2>2. QED
    BY <2>1, Sizes
<1>3. \E nb \in buf_prepare(sbuf, need) :
         out' = Bytes(Write(nb.data, 1, bytes), 1, need)
  <2>1. "header" # "idle" /\ "header" # "crashed"
    OBVIOUS
  <2>2. sst' # sst /\ sst' # "crashed"
    BY <1>1, <2>1, Zenon
  <2>3. QED
    BY <2>2, Zenon DEF pt_comm_build_msg
<1>4. PICK nb \in buf_prepare(sbuf, need) :
         out' = Bytes(Write(nb.data, 1, bytes), 1, need)
  BY <1>3, Zenon
<1>5. nb.data \in Seq(Int)
  <2> HIDE DEF need
  <2>1. nb \in [size : Nat, cap : Nat, data : Seq(Int)]
    BY <1>1, <1>2, Prepared, Zenon
  <2>2. QED
    BY <2>1
<1> DEFINE gone == out'
<1>6. /\ gone \in Seq(Int) /\ Len(gone) = HeaderSize + m.len
      /\ gone[1] = m.len /\ gone[5] = m.type /\ gone[9] = m.pid
      /\ \A k \in 1..Least(m.len, Len(m.data)) : gone[HeaderSize + k] = m.data[k]
  BY <1>4, <1>5, Leaving, Zenon
<1> HIDE DEF gone
<1> DEFINE g == [len |-> gone[1], type |-> gone[5], pid |-> gone[9],
                 data |-> SubSeq(gone, HeaderSize + 1, Len(gone))]
<1>7. Outgoing' = g
  BY Zenon DEF Outgoing, gone
<1>8. /\ g.len = gone[1] /\ g.type = gone[5] /\ g.pid = gone[9]
      /\ g.data = SubSeq(gone, HeaderSize + 1, Len(gone))
  OBVIOUS
<1> HIDE DEF g
<1>9. ASSUME NEW k \in 1..Least(m.len, Len(m.data)) PROVE g.data[k] = m.data[k]
  <2> DEFINE i == HeaderSize + 1
             n == m.len
             j == Len(gone)
  <2>1. /\ i \in Nat \ {0} /\ j \in Int /\ j <= Len(gone) /\ n \in Nat /\ Len(m.data) \in Nat
        /\ j - i + 1 = n
    <3>1. n \in Nat /\ Len(m.data) \in Nat
      BY WireAssumption
    <3>2. j = HeaderSize + n
      BY <1>6, Zenon
    <3> HIDE DEF n
    <3>3. QED
      BY <3>1, <3>2, Sizes
  <2>2. k \in 1..n
    BY <2>1 DEF Least
  <2>3. i + k - 1 = HeaderSize + k
    BY <2>2, Sizes
  <2> HIDE DEF i, n, j
  <2>4. \A x \in 1..(j - i + 1) : SubSeq(gone, i, j)[x] = gone[i + x - 1]
    BY <1>6, <2>1, Part, Zenon
  <2>5. SubSeq(gone, i, j)[k] = gone[HeaderSize + k]
    BY <2>1, <2>2, <2>3, <2>4, Zenon
  <2>6. QED
    BY <1>6, <1>8, <2>5, Zenon DEF i, j
<1>10. Carries(g, m)
  BY <1>6, <1>8, <1>9, Zenon DEF Carries
<1>11. QED
  BY <1>7, <1>10, Zenon DEF Known

\* The messages on their way after a step.
Known0(q) == \A i \in 1..Len(q) : Known(q[i])

LEMMA QueueKnown ==
    ASSUME NEW q \in Seq(Message), Known0(q)
    PROVE  /\ Known0(<<>>)
           /\ \A g \in Message : Known(g) => Known0(Append(q, g))
           /\ q # <<>> => Known(Head(q)) /\ Known0(Tail(q))
<1>1. Known0(<<>>)
  BY DEF Known0
<1>2. ASSUME NEW g \in Message, Known(g) PROVE Known0(Append(q, g))
  <2>1. /\ Len(Append(q, g)) = Len(q) + 1 /\ Len(q) \in Nat
        /\ \A i \in 1..Len(q) : Append(q, g)[i] = q[i]
        /\ Append(q, g)[Len(q) + 1] = g
    OBVIOUS
  <2>2. \A i \in 1..(Len(q) + 1) : i \in 1..Len(q) \/ i = Len(q) + 1
    BY <2>1
  <2>3. QED
    BY <1>2, <2>1, <2>2, Zenon DEF Known0
<1>3. ASSUME q # <<>> PROVE Known(Head(q)) /\ Known0(Tail(q))
  <2>1. /\ Len(q) \in Nat \ {0} /\ Head(q) = q[1] /\ Len(Tail(q)) = Len(q) - 1
        /\ \A i \in 1..(Len(q) - 1) : Tail(q)[i] = q[i + 1]
    BY <1>3
  <2>2. 1 \in 1..Len(q) /\ \A i \in 1..(Len(q) - 1) : i + 1 \in 1..Len(q)
    BY <2>1
  <2>3. QED
    BY <2>1, <2>2, Zenon DEF Known0
<1>4. QED
  BY <1>1, <1>2, <1>3, Zenon

\* A message is handed over.
LEMMA HandedKnown ==
    ASSUME StreamInv, Known0(pending), UNCHANGED cut, NEW data, HandOver(data),
           ~cut => pending # <<>> /\ Seen(data) = Head(pending)
    PROVE  Known0(pending)' /\ (Delivered => Known(got))'
<1>1. /\ got' = Seen(data)
      /\ pending' = IF pending = <<>> THEN pending ELSE Tail(pending)
  BY Zenon DEF HandOver, Seen
<1>2. pending \in Seq(Message)
  BY Zenon DEF StreamInv
<1>3. Known0(pending')
  BY <1>1, <1>2, QueueKnown, Zenon
<1>4. ASSUME ~cut' PROVE Known(got')
  <2>1. pending # <<>> /\ got' = Head(pending)
    BY <1>1, <1>4, Zenon
  <2>2. QED
    BY <1>2, <2>1, QueueKnown, Zenon
<1>5. QED
  BY <1>3, <1>4, Zenon DEF Delivered, Known0, Known

\* The receiver gives up.
LEMMA GivenUpKnown ==
    ASSUME rst' = "done", pending' = <<>>
    PROVE  Known0(pending)' /\ (Delivered => Known(got))'
<1>1. Known0(pending')
  BY DEF Known0
<1>2. ~Delivered'
  BY DEF Delivered
<1>3. QED
  BY <1>1, <1>2, Zenon DEF Known0

\* The receiver looks for a message or is in the middle of one.
LEMMA WaitingKnown ==
    ASSUME Known0(pending), UNCHANGED pending, rst' = "body" \/ ret' = "EMPTY"
    PROVE  Known0(pending)' /\ (Delivered => Known(got))'
<1>1. ~Delivered'
  BY DEF Delivered
<1>2. QED
  BY <1>1, Zenon DEF Known0

LEMMA RecvHeaderKnown ==
    ASSUME BufferInv, StreamInv, Known0(pending), RecvHeader
    PROVE  Known0(pending)' /\ (Delivered => Known(got))'
<1>1. rst = "idle" /\ stream # <<>> /\ UNCHANGED cut
  BY Zenon DEF RecvHeader
<1>2. HeaderOutcome
  BY RecvHeaderIs, Zenon
<1>3. CASE \E code : GiveUp(code)
  <2>1. rst' = "done" /\ pending' = <<>>
    BY <1>3, Zenon DEF GiveUp
  <2>2. QED
    BY <2>1, GivenUpKnown, Zenon
<1>4. ASSUME NEW len \in Int, NEW head \in Seq(Int), HeaderTaken(len, head)
      PROVE  Known0(pending)' /\ (Delivered => Known(got))'
  <2>1. CASE len = 0 /\ HandOver(head)
    <3>1. ASSUME ~cut PROVE pending # <<>> /\ Seen(head) = Head(pending)
      BY <1>1, <1>4, <2>1, <3>1, HeaderWaits, HeaderMatches, Zenon
    <3>2. QED
      BY <1>1, <2>1, <3>1, HandedKnown, Zenon
  <2>2. CASE rst' = "body" /\ UNCHANGED <<ropen, recvlen, reads, ret, pending, got>>
    BY <2>2, WaitingKnown, Zenon
  <2>3. QED
    BY <1>3, <1>4, <2>1, <2>2, Zenon DEF HeaderTaken
<1>5. QED
  BY <1>2, <1>3, <1>4, Zenon DEF HeaderOutcome

LEMMA RecvBodyKnown ==
    ASSUME BufferInv, StreamInv, Known0(pending), RecvBody
    PROVE  Known0(pending)' /\ (Delivered => Known(got))'
<1>1. rst = "body" /\ UNCHANGED cut /\ rst # "done"
  BY Zenon DEF RecvBody
<1>2. PICK n \in Nat \ {0}, data \in Seq(Int) : BodyTaken(n, data)
  BY RecvBodyIs, Zenon
<1>3. CASE recvlen + n = rbuf.data[1] /\ HandOver(data)
  <2>1. ASSUME ~cut PROVE pending # <<>> /\ Seen(data) = Head(pending)
    <3>1. Seen(data) = Head(pending)
      BY <1>1, <1>2, <1>3, <2>1, BodyMatches, Zenon
    <3>2. PICK at : Framed(at, Arrived, InHand, pending)
      BY <1>1, <2>1, Zenon DEF StreamInv, Framing
    <3>3. pending # <<>>
      BY <1>1, <2>1, <3>2, BodyWaits, Zenon
    <3>4. QED
      BY <3>1, <3>3, Zenon
  <2>2. QED
    BY <1>1, <1>3, <2>1, HandedKnown, Zenon
<1>4. CASE UNCHANGED <<rst, ropen, ret, pending, got>>
  BY <1>1, <1>4, WaitingKnown, Zenon
<1>5. CASE GiveUp("INVALID")
  <2>1. rst' = "done" /\ pending' = <<>>
    BY <1>5, Zenon DEF GiveUp
  <2>2. QED
    BY <2>1, GivenUpKnown, Zenon
<1>6. QED
  BY <1>2, <1>3, <1>4, <1>5, Zenon DEF BodyTaken

\* The sender's steps that leave the messages on their way alone.
LEMMA SenderKnown ==
    ASSUME Known0(pending), Delivered => Known(got), UNCHANGED <<pending, got, ret, rst>>,
           cut => cut'
    PROVE  Known0(pending)' /\ (Delivered => Known(got))'
<1>1. Delivered' => Delivered
  BY Zenon DEF Delivered
<1>2. QED
  BY <1>1, Zenon DEF Known0, Known

LEMMA KnownStep ==
    ASSUME BufferInv, StreamInv, InPlace, KnownInv, [Next]_vars
    PROVE  KnownInv'
<1>1. Known0(pending) /\ (Delivered => Known(got)) /\ (sst = "header" => Known(Outgoing))
  BY Zenon DEF KnownInv, Known0
<1>2. (sst = "header" => Known(Outgoing))'
  <2>1. ASSUME NEW m \in Messages, pt_comm_build_msg(m), sst' = "header" PROVE Known(Outgoing)'
    BY <2>1, BuildKnown
  <2>2. ASSUME UNCHANGED <<sst, out>>, sst' = "header" PROVE Known(Outgoing)'
    <3>1. Outgoing' = Outgoing /\ Known(Outgoing)
      BY <1>1, <2>2, Zenon DEF Outgoing
    <3>2. QED
      BY <3>1, Zenon DEF Known
  <2>3. \/ \E m \in Messages : pt_comm_build_msg(m)
        \/ UNCHANGED <<sst, out>>
        \/ sst' \in {"idle", "body", "closed", "crashed"}
    BY Zenon DEF Next, Sending, SendHeader, SendBody, SendInterrupted, SendFailed, SenderEnds,
       RecvNothing, RecvHeader, Receiving, RecvBody, RecvBodyDown, RecvInterrupted,
       ReceiverEnds, Reconnect, senderVars, vars
  <2>4. "header" \notin {"idle", "body", "closed", "crashed"}
    OBVIOUS
  <2>5. QED
    BY <2>1, <2>2, <2>3, <2>4, Zenon
<1>3. Known0(pending)' /\ (Delivered => Known(got))'
  <2>1. CASE \/ UNCHANGED vars \/ SendBody \/ SendFailed \/ SenderEnds \/ SendInterrupted
             \/ \E m \in Messages : pt_comm_build_msg(m)
    <3>1. UNCHANGED <<pending, got, ret, rst>>
      BY <2>1, Zenon DEF vars, SendBody, SendFailed, SenderEnds, SendInterrupted,
         pt_comm_build_msg, receiverVars
    <3>2. cut' = cut \/ cut' = (cut \/ sst = "body")
      BY <2>1, Zenon DEF vars, SendBody, SendFailed, SenderEnds, SendInterrupted,
         pt_comm_build_msg
    <3>3. cut => cut'
      BY <3>2, Zenon
    <3>4. QED
      BY <1>1, <3>1, <3>3, SenderKnown, Zenon
  <2>2. CASE SendHeader
    <3>1. /\ pending' = Append(pending, Outgoing) /\ sst = "header"
          /\ UNCHANGED <<got, cut, ret, rst>>
      BY <2>2, Zenon DEF SendHeader, receiverVars
    <3>2. pending \in Seq(Message) /\ Outgoing \in Message /\ Known(Outgoing)
      BY <1>1, <3>1, OutgoingIs, Zenon DEF StreamInv
    <3>3. Known0(pending')
      BY <1>1, <3>1, <3>2, QueueKnown, Zenon
    <3>4. Delivered' => Delivered
      BY <3>1, Zenon DEF Delivered
    <3>5. QED
      BY <1>1, <3>1, <3>3, <3>4, Zenon DEF Known0, Known
  <2>3. CASE RecvNothing
    <3>1. \/ rst' = "done" /\ pending' = <<>>
          \/ UNCHANGED pending /\ ret' = "EMPTY"
      BY <2>3, Zenon DEF RecvNothing, GiveUp
    <3>2. QED
      BY <1>1, <3>1, GivenUpKnown, WaitingKnown, Zenon
  <2>4. CASE RecvHeader
    BY <1>1, <2>4, RecvHeaderKnown, Zenon
  <2>5. CASE RecvBody
    BY <1>1, <2>5, RecvBodyKnown, Zenon
  <2>6. CASE RecvBodyDown \/ RecvInterrupted \/ ReceiverEnds
    <3>1. rst' = "done" /\ pending' = <<>>
      BY <2>6, Zenon DEF RecvBodyDown, RecvInterrupted, ReceiverEnds, GiveUp
    <3>2. QED
      BY <3>1, GivenUpKnown, Zenon
  <2>7. CASE Reconnect
    <3>1. rst = "done" /\ pending' = <<>> /\ UNCHANGED ret
      BY <2>7, Zenon DEF Reconnect
    <3>2. Known0(pending')
      BY <3>1 DEF Known0
    <3>3. ~Delivered'
      BY <3>1, Zenon DEF InPlace, Delivered
    <3>4. QED
      BY <3>2, <3>3, Zenon DEF Known0
  <2>8. QED
    BY <2>1, <2>2, <2>3, <2>4, <2>5, <2>6, <2>7, Zenon DEF Next, Sending, Receiving
<1>4. QED
  BY <1>2, <1>3, Zenon DEF KnownInv, Known0

\* On a connection that nobody was cut short on, what pt_comm_recv_msg returns
\* is a message that some pt_comm_build_msg and the packing behind it made:
\* its type, its length, its pid and every byte that was packed, up to that
\* length.
THEOREM NothingMadeUp == Spec => []HandedOverWasSent
<1>1. Init => KnownInv
  <2>1. ASSUME Init PROVE sst # "header" /\ Len(pending) = 0 /\ ret # "message"
    BY <2>1 DEF Init
  <2>2. QED
    BY <2>1 DEF KnownInv, Delivered
<1>2. KnownInv => HandedOverWasSent
  BY Zenon DEF KnownInv, HandedOverWasSent, Known, Is
<1>3. BufferInv /\ StreamInv /\ InPlace /\ KnownInv /\ [Next]_vars => KnownInv'
  BY KnownStep
<1>4. QED
  BY <1>1, <1>2, <1>3, StreamsKept, PlaceKept, PTL DEF Spec

-----------------------------------------------------------------------------
(* From end to end *)

\* A message of one of the types of reports is the report of somebody.
OnlyReports ==
    Delivered =>
      /\ got.type = PT_MSG_FRAME => \E f \in Frames : frameIn.val = f
      /\ got.type = PT_MSG_REQ => \E r \in Requests : requestIn.val = NormalRequest(r)
      /\ got.type = PT_MSG_STATUS => \E s \in Statuses : statusIn.val = NormalStatus(s)

\* The type of a message tells who made it.
LEMMA TypesTell ==
    ASSUME NEW m \in AllMessages
    PROVE  /\ m.type = PT_MSG_FRAME => \E f \in Frames : m = frameMsg[f]
           /\ m.type = PT_MSG_REQ => \E r \in Requests : m = requestMsg[r]
           /\ m.type = PT_MSG_STATUS => \E s \in Statuses : m = statusMsg[s]
<1>1. CASE \E f \in Frames : m = frameMsg[f]
  <2>1. m.type = 4
    BY <1>1 DEF frameMsg, frame_send, PT_MSG_FRAME
  <2>2. QED
    BY <1>1, <2>1 DEF PT_MSG_REQ, PT_MSG_STATUS
<1>2. CASE \E r \in Requests : m = requestMsg[r]
  <2>1. m.type = 5
    BY <1>2 DEF requestMsg, request_send, PT_MSG_REQ
  <2>2. QED
    BY <1>2, <2>1 DEF PT_MSG_FRAME, PT_MSG_STATUS
<1>3. CASE \E s \in Statuses : m = statusMsg[s]
  <2>1. m.type = 6
    BY <1>3 DEF statusMsg, status_send, PT_MSG_STATUS
  <2>2. QED
    BY <1>3, <2>1 DEF PT_MSG_FRAME, PT_MSG_REQ
<1>4. CASE \/ \E f \in Filters : m = filter_send(f)
           \/ \E t \in {PT_MSG_DO_TRACE, PT_MSG_DO_STATUS} : m = pt_comm_send_type(t)
  <2>1. m.type \in {1, 2, 3}
    BY <1>4 DEF filter_send, pt_comm_send_type, PT_MSG_DO_TRACE, PT_MSG_DO_STATUS, PT_MSG_DO_FILTER
  <2>2. QED
    BY <2>1 DEF PT_MSG_FRAME, PT_MSG_REQ, PT_MSG_STATUS
<1>5. /\ DOMAIN frameMsg = Frames /\ DOMAIN requestMsg = Requests
      /\ DOMAIN statusMsg = Statuses
  BY Zenon DEF frameMsg, requestMsg, statusMsg
<1>6. QED
  BY <1>1, <1>2, <1>3, <1>4, <1>5, Zenon DEF AllMessages, Range

\* When nothing but reports and commands is sent, every frame, request and
\* status that is unpacked from an uncut connection is one that frame_build,
\* request_build or status_build made of a call, a request or a stack.
THEOREM ReportsArrive ==
    ASSUME Messages = AllMessages
    PROVE  Spec => []OnlyReports
<1>1. ASSUME BufferInv, InPlace, HandedOverWasSent PROVE OnlyReports
  <2> SUFFICES ASSUME Delivered
               PROVE  /\ got.type = PT_MSG_FRAME => \E f \in Frames : frameIn.val = f
                      /\ got.type = PT_MSG_REQ =>
                            \E r \in Requests : requestIn.val = NormalRequest(r)
                      /\ got.type = PT_MSG_STATUS =>
                            \E s \in Statuses : statusIn.val = NormalStatus(s)
    BY Zenon DEF OnlyReports
  <2>1. PICK m \in AllMessages : Is(m)
    BY <1>1, Zenon DEF HandedOverWasSent
  <2>2. got.type = m.type
    BY <2>1, Zenon DEF Is, Carries
  <2>3. ASSUME got.type = PT_MSG_FRAME PROVE \E f \in Frames : frameIn.val = f
    <3>1. PICK f \in Frames : m = frameMsg[f]
      BY <2>2, <2>3, TypesTell, Zenon
    <3>2. frameIn.val = f
      BY <1>1, <2>1, <3>1, FrameArrivesWhole, Zenon
    <3>3. QED
      BY <3>2, Zenon
  <2>4. ASSUME got.type = PT_MSG_REQ
        PROVE  \E r \in Requests : requestIn.val = NormalRequest(r)
    <3>1. PICK r \in Requests : m = requestMsg[r]
      BY <2>2, <2>4, TypesTell, Zenon
    <3>2. requestIn = [val |-> NormalRequest(r), end |-> Body + got.len]
      BY <1>1, <2>1, <3>1, RequestArrives, Zenon
    <3>3. requestIn.val = NormalRequest(r)
      BY <3>2
    <3>4. QED
      BY <3>3, Zenon
  <2>5. ASSUME got.type = PT_MSG_STATUS
        PROVE  \E s \in Statuses : statusIn.val = NormalStatus(s)
    <3>1. PICK s \in Statuses : m = statusMsg[s]
      BY <2>2, <2>5, TypesTell, Zenon
    <3>2. statusIn = [val |-> NormalStatus(s), end |-> Body + got.len]
      BY <1>1, <2>1, <3>1, StatusArrives, Zenon
    <3>3. statusIn.val = NormalStatus(s)
      BY <3>2
    <3>4. QED
      BY <3>3, Zenon
  <2>6. QED
    BY <2>3, <2>4, <2>5, Zenon
<1>2. QED
  BY <1>1, NothingMadeUp, PlaceKept, PTL
=============================================================================
