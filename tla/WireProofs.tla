--------------------------- MODULE WireProofs ---------------------------
(***************************************************************************)
(* What is proved of one direction of a connection, for every set of       *)
(* messages, every size of the socket's buffer and every bound:            *)
(*   - neither process writes beyond its static buffer;                    *)
(*   - the bytes on the connection are the messages sent, one behind the   *)
(*     other, so that what is handed over is what was sent (Channel).      *)
(***************************************************************************)
EXTENDS Wire, SequenceTheorems, TLAPS

-----------------------------------------------------------------------------
(* Bytes *)

\* The smaller of two numbers.
LEMMA LeastType ==
    ASSUME NEW a \in Int, NEW b \in Int
    PROVE  /\ Least(a, b) \in Int
           /\ Least(a, b) <= a /\ Least(a, b) <= b
           /\ Least(a, b) = a \/ Least(a, b) = b
BY DEF Least

\* A part of a sequence that begins and ends anywhere.
LEMMA Part ==
    ASSUME NEW s \in Seq(Int), NEW i \in Nat \ {0}, NEW j \in Int, j <= Len(s)
    PROVE  /\ SubSeq(s, i, j) \in Seq(Int)
           /\ Len(SubSeq(s, i, j)) = IF i <= j THEN j - i + 1 ELSE 0
           /\ \A k \in 1..(j - i + 1) : SubSeq(s, i, j)[k] = s[i + k - 1]
OBVIOUS

\* One sequence behind another.
LEMMA Join ==
    ASSUME NEW s \in Seq(Int), NEW t \in Seq(Int)
    PROVE  /\ s \o t \in Seq(Int)
           /\ Len(s \o t) = Len(s) + Len(t)
           /\ \A k \in 1..Len(s) : (s \o t)[k] = s[k]
           /\ \A k \in 1..Len(t) : (s \o t)[Len(s) + k] = t[k]
OBVIOUS

\* n times the same byte.
LEMMA Fill ==
    ASSUME NEW n \in Nat, NEW b \in Int
    PROVE  /\ [k \in 1..n |-> b] \in Seq(Int)
           /\ Len([k \in 1..n |-> b]) = n
OBVIOUS

\* n bytes of memory: those written, and Stale ones behind them.
LEMMA BytesAre ==
    ASSUME NEW s \in Seq(Int), NEW i \in Nat \ {0}, NEW n \in Nat
    PROVE  /\ Bytes(s, i, n) \in Seq(Int)
           /\ Len(Bytes(s, i, n)) = n
           /\ \A k \in 1..n : Bytes(s, i, n)[k] =
                 IF i + k - 1 <= Len(s) THEN s[i + k - 1] ELSE Stale
<1> DEFINE j == Least(i + n - 1, Len(s))
           there == SubSeq(s, i, j)
           here == Len(there)
           rest == [k \in 1..(n - here) |-> Stale]
<1>1. Len(s) \in Nat /\ i + n - 1 \in Int
  OBVIOUS
<1>2. /\ j \in Int /\ j <= Len(s) /\ j <= i + n - 1
      /\ j = i + n - 1 \/ j = Len(s)
  BY <1>1 DEF Least
<1>9. Bytes(s, i, n) = there \o rest
  BY DEF Bytes
<1> HIDE DEF j
<1>3. /\ there \in Seq(Int)
      /\ here = IF i <= j THEN j - i + 1 ELSE 0
      /\ \A k \in 1..(j - i + 1) : there[k] = s[i + k - 1]
  BY <1>2, Part
<1>10. here = Len(there)
  OBVIOUS
<1> HIDE DEF there, here
<1>4. here \in Nat /\ n - here \in Nat
  BY <1>2, <1>3
<1>5. rest \in Seq(Int) /\ Len(rest) = n - here
  BY <1>4, Fill DEF Stale
<1>6. \A k \in 1..(n - here) : rest[k] = Stale
  OBVIOUS
<1> HIDE DEF rest
<1>7. /\ there \o rest \in Seq(Int)
      /\ Len(there \o rest) = here + (n - here)
      /\ \A k \in 1..here : (there \o rest)[k] = there[k]
      /\ \A k \in 1..(n - here) : (there \o rest)[here + k] = rest[k]
  <2>1. /\ there \o rest \in Seq(Int)
        /\ Len(there \o rest) = Len(there) + Len(rest)
        /\ \A k \in 1..Len(there) : (there \o rest)[k] = there[k]
        /\ \A k \in 1..Len(rest) : (there \o rest)[Len(there) + k] = rest[k]
    BY <1>3, <1>5, Join, Zenon
  <2>2. QED
    BY <1>5, <1>10, <2>1, Zenon
<1>8. ASSUME NEW k \in 1..n
      PROVE  (there \o rest)[k] = IF i + k - 1 <= Len(s) THEN s[i + k - 1] ELSE Stale
  <2>1. CASE k <= here
    <3>1. (there \o rest)[k] = there[k] /\ k \in 1..(j - i + 1)
      BY <1>2, <1>3, <1>4, <1>7, <2>1
    <3>2. i + k - 1 <= Len(s)
      BY <1>1, <1>2, <3>1
    <3>3. QED
      BY <1>3, <3>1, <3>2
  <2>2. CASE k > here
    <3>1. k - here \in 1..(n - here) /\ here + (k - here) = k
      BY <1>4, <2>2
    <3>2. (there \o rest)[k] = Stale
      BY <1>6, <1>7, <3>1
    <3>3. ~(i + k - 1 <= Len(s))
      BY <1>1, <1>2, <1>3, <2>2
    <3>4. QED
      BY <3>2, <3>3, Zenon
  <2>3. k <= here \/ k > here
    BY <1>4
  <2>4. QED
    BY <2>1, <2>2, <2>3, Zenon
<1>11. here + (n - here) = n
  BY <1>4
<1>12. QED
  BY <1>7, <1>8, <1>9, <1>11

\* Memory after a write: the bytes written where they were written to, and
\* what was there everywhere else.
LEMMA WriteIs ==
    ASSUME NEW s \in Seq(Int), NEW i \in Nat \ {0}, NEW b \in Seq(Int)
    PROVE  /\ Write(s, i, b) \in Seq(Int)
           /\ Len(Write(s, i, b)) >= i - 1 + Len(b)
           /\ Len(Write(s, i, b)) >= Len(s)
           /\ \A k \in 1..(i - 1) : k <= Len(s) => Write(s, i, b)[k] = s[k]
           /\ \A k \in 1..Len(b) : Write(s, i, b)[i - 1 + k] = b[k]
           /\ \A k \in (i + Len(b))..Len(s) : Write(s, i, b)[k] = s[k]
<1> DEFINE h == i - 1
           before == Bytes(s, 1, h)
           front == before \o b
           after == SubSeq(s, i + Len(b), Len(s))
<1>1. Len(s) \in Nat /\ Len(b) \in Nat /\ h \in Nat /\ i + Len(b) \in Nat \ {0}
  OBVIOUS
<1>6. Write(s, i, b) = front \o after
  BY DEF Write
<1>2. /\ before \in Seq(Int) /\ Len(before) = h
      /\ \A k \in 1..h : before[k] =
            IF 1 + k - 1 <= Len(s) THEN s[1 + k - 1] ELSE Stale
  <2> HIDE DEF h
  <2>1. QED
    BY <1>1, BytesAre, 1 \in Nat \ {0}
<1>3. /\ after \in Seq(Int)
      /\ Len(after) = IF i + Len(b) <= Len(s)
                      THEN Len(s) - (i + Len(b)) + 1 ELSE 0
      /\ \A k \in 1..(Len(s) - (i + Len(b)) + 1) : after[k] = s[i + Len(b) + k - 1]
  BY <1>1, Part
<1> HIDE DEF before, after
<1>4. /\ front \in Seq(Int) /\ Len(front) = h + Len(b)
      /\ \A k \in 1..h : front[k] = before[k]
      /\ \A k \in 1..Len(b) : front[h + k] = b[k]
  <2>1. /\ front \in Seq(Int) /\ Len(front) = Len(before) + Len(b)
        /\ \A k \in 1..Len(before) : front[k] = before[k]
        /\ \A k \in 1..Len(b) : front[Len(before) + k] = b[k]
    BY <1>2, Join, Zenon
  <2>2. QED
    BY <1>2, <2>1, Zenon
<1> HIDE DEF front
<1>5. /\ front \o after \in Seq(Int)
      /\ Len(front \o after) = h + Len(b) + Len(after)
      /\ \A k \in 1..(h + Len(b)) : (front \o after)[k] = front[k]
      /\ \A k \in 1..Len(after) : (front \o after)[h + Len(b) + k] = after[k]
  <2>1. /\ front \o after \in Seq(Int)
        /\ Len(front \o after) = Len(front) + Len(after)
        /\ \A k \in 1..Len(front) : (front \o after)[k] = front[k]
        /\ \A k \in 1..Len(after) : (front \o after)[Len(front) + k] = after[k]
    BY <1>3, <1>4, Join, Zenon
  <2>2. QED
    BY <1>4, <2>1, Zenon
<1>7. \A k \in 1..h : k <= Len(s) => Write(s, i, b)[k] = s[k]
  <2> SUFFICES ASSUME NEW k \in 1..h, k <= Len(s) PROVE Write(s, i, b)[k] = s[k]
    OBVIOUS
  <2>1. 1 + k - 1 = k /\ k \in 1..(h + Len(b))
    BY <1>1
  <2>2. QED
    BY <1>2, <1>4, <1>5, <1>6, <2>1
<1>8. \A k \in 1..Len(b) : Write(s, i, b)[h + k] = b[k]
  <2> SUFFICES ASSUME NEW k \in 1..Len(b) PROVE Write(s, i, b)[h + k] = b[k]
    OBVIOUS
  <2>1. h + k \in 1..(h + Len(b))
    BY <1>1
  <2>2. QED
    BY <1>4, <1>5, <1>6, <2>1
<1>9. Len(Write(s, i, b)) >= h + Len(b) /\ Len(Write(s, i, b)) >= Len(s)
  <2>1. Len(after) \in Nat /\ h + Len(b) + Len(after) >= Len(s)
    <3>1. CASE i + Len(b) <= Len(s)
      BY <1>1, <1>3, <3>1
    <3>2. CASE ~(i + Len(b) <= Len(s))
      BY <1>1, <1>3, <3>2
    <3>3. QED
      BY <3>1, <3>2
  <2>2. Len(Write(s, i, b)) = h + Len(b) + Len(after)
    BY <1>5, <1>6, Zenon
  <2>3. QED
    BY <1>1, <2>1, <2>2
<1>10. \A k \in (i + Len(b))..Len(s) : Write(s, i, b)[k] = s[k]
  <2> SUFFICES ASSUME NEW k \in (i + Len(b))..Len(s) PROVE Write(s, i, b)[k] = s[k]
    OBVIOUS
  <2> DEFINE p == k - h - Len(b)
  <2>1. /\ p \in 1..(Len(s) - (i + Len(b)) + 1)
        /\ i + Len(b) + p - 1 = k /\ h + Len(b) + p = k
        /\ i + Len(b) <= Len(s)
    BY <1>1
  <2>2. Len(after) = Len(s) - (i + Len(b)) + 1
    BY <1>3, <2>1
  <2> HIDE DEF p
  <2>3. (front \o after)[h + Len(b) + p] = after[p]
    BY <1>5, <2>1, <2>2, Zenon
  <2>4. after[p] = s[i + Len(b) + p - 1]
    BY <1>3, <2>1, Zenon
  <2>5. QED
    BY <1>6, <2>1, <2>3, <2>4, Zenon
<1>11. QED
  BY <1>5, <1>6, <1>7, <1>8, <1>9, <1>10, Zenon

\* A number of four bytes.
LEMMA PackedNumber ==
    ASSUME NEW v \in Int
    PROVE  /\ PACK(4, v) \in Seq(Int)
           /\ Len(PACK(4, v)) = 4
           /\ PACK(4, v)[1] = v
           /\ \A k \in 1..3 : PACK(4, v)[1 + k] = Pad
<1> DEFINE pads == [i \in 1..3 |-> Pad]
<1>1. pads \in Seq(Int) /\ Len(pads) = 3
  BY Fill, 3 \in Nat DEF Pad
<1>2. \A k \in 1..3 : pads[k] = Pad
  OBVIOUS
<1>3. <<v>> \in Seq(Int) /\ Len(<<v>>) = 1 /\ <<v>>[1] = v
  OBVIOUS
<1>4. PACK(4, v) = <<v>> \o pads
  BY DEF PACK
<1> DEFINE one == <<v>>
<1> HIDE DEF pads, one
<1>5. one \in Seq(Int) /\ Len(one) = 1 /\ one[1] = v
  BY <1>3, Zenon DEF one
<1>6. /\ one \o pads \in Seq(Int)
      /\ Len(one \o pads) = Len(one) + Len(pads)
      /\ \A k \in 1..Len(one) : (one \o pads)[k] = one[k]
      /\ \A k \in 1..Len(pads) : (one \o pads)[Len(one) + k] = pads[k]
  BY <1>1, <1>5, Join, Zenon
<1>7. /\ \A k \in 1..1 : (one \o pads)[k] = one[k]
      /\ \A k \in 1..3 : (one \o pads)[1 + k] = pads[k]
  BY <1>1, <1>5, <1>6, Zenon
<1>8. PACK(4, v) = one \o pads
  BY <1>4, Zenon DEF one
<1>9. (one \o pads)[1] = v
  BY <1>5, <1>7, 1 \in 1..1
<1>10. Len(one \o pads) = 4
  BY <1>1, <1>5, <1>6
<1>11. \A k \in 1..3 : (one \o pads)[1 + k] = Pad
  BY <1>2, <1>7, Zenon
<1>12. QED
  BY <1>6, <1>8, <1>9, <1>10, <1>11, Zenon

-----------------------------------------------------------------------------
(* The buffers *)

\* A buffer as buf_prepare leaves it: what it believes to have it has, or an
\* allocation failed.
BufferOK(b) ==
    /\ b \in [size : Nat, cap : Nat, data : Seq(Int)]
    /\ b.cap \in {0, b.size}
    /\ b.size = 0 \/ b.size >= MinBuf
    /\ (b.size > 0 /\ b.cap = 0) => oom

\* The sizes are positive numbers.
LEMMA Sizes ==
    /\ SizeMax \in Nat /\ SizeMax > 0
    /\ MaxRecv \in Nat /\ MaxRecv > 0
    /\ MinBuf \in Nat /\ MinBuf >= HeaderSize
    /\ Chunk \in Nat /\ Chunk > 0
    /\ MaxSend \in Nat
    /\ HeaderSize = 12
BY WireAssumption DEF HeaderSize

\* What buf_prepare leaves: the buffer as it was, a larger one with the same
\* bytes, or none.
LEMMA PrepareCases ==
    ASSUME NEW b \in [size : Nat, cap : Nat, data : Seq(Int)],
           NEW require \in Nat, NEW nb \in buf_prepare(b, require)
    PROVE  \/ b.size >= require /\ nb = b
           \/ \E size \in Nat :
                 /\ b.size < require
                 /\ size >= MinBuf /\ size >= require
                 /\ \/ nb = [size |-> size, cap |-> size, data |-> b.data]
                    \/ nb = [size |-> size, cap |-> 0, data |-> <<>>]
<1> DEFINE size == Most(require * 2, MinBuf)
<1>1. size \in Nat /\ size >= MinBuf /\ size >= require
  BY Sizes DEF Most
<1>2. CASE b.size >= require
  BY <1>2 DEF buf_prepare
<1>3. CASE ~(b.size >= require)
  <2>1. b.size < require
    BY <1>3
  <2>2. nb \in {[size |-> size, cap |-> size, data |-> b.data],
                [NoBuffer EXCEPT !.size = size]}
    BY <1>3 DEF buf_prepare
  <2> HIDE DEF size
  <2>3. [NoBuffer EXCEPT !.size = size] = [size |-> size, cap |-> 0, data |-> <<>>]
    BY DEF NoBuffer
  <2>4. QED
    BY <1>1, <2>1, <2>2, <2>3, Zenon
<1>4. QED
  BY <1>2, <1>3, Zenon

\* The same, as the callers use it.
LEMMA Prepared ==
    ASSUME NEW b, BufferOK(b), NEW require \in Nat, require > 0,
           NEW nb \in buf_prepare(b, require)
    PROVE  /\ nb \in [size : Nat, cap : Nat, data : Seq(Int)]
           /\ nb.cap \in {0, nb.size}
           /\ nb.size >= MinBuf /\ nb.size >= require
           /\ nb.cap > 0 => /\ nb.data = b.data
                            /\ nb.cap = nb.size
           /\ (~Failed(b, require, nb) /\ nb.cap = 0) => oom
<1> b \in [size : Nat, cap : Nat, data : Seq(Int)]
  BY DEF BufferOK
<1>1. CASE b.size >= require /\ nb = b
  <2>1. b.size > 0 /\ b.size >= MinBuf
    BY <1>1, Sizes DEF BufferOK
  <2>2. QED
    BY <1>1, <2>1 DEF BufferOK
<1>2. ASSUME NEW size \in Nat, b.size < require, size >= MinBuf, size >= require,
             nb = [size |-> size, cap |-> size, data |-> b.data]
      PROVE  /\ nb \in [size : Nat, cap : Nat, data : Seq(Int)]
             /\ nb.size = size /\ nb.cap = size /\ nb.data = b.data
  BY <1>2
<1>3. ASSUME NEW size \in Nat, b.size < require, size >= MinBuf, size >= require,
             nb = [size |-> size, cap |-> 0, data |-> <<>>]
      PROVE  /\ nb \in [size : Nat, cap : Nat, data : Seq(Int)]
             /\ nb.size = size /\ nb.cap = 0
             /\ Failed(b, require, nb)
  <2>1. nb = [size |-> size, cap |-> 0, data |-> <<>>]
    BY <1>3
  <2>2. nb.size = size /\ nb.cap = 0
    BY <2>1
  <2>3. nb \in [size : Nat, cap : Nat, data : Seq(Int)]
    BY <2>1
  <2>4. Failed(b, require, nb)
    BY <1>3, <2>2 DEF Failed
  <2>5. QED
    BY <2>2, <2>3, <2>4, Zenon
<1>4. CASE \E size \in Nat :
              /\ b.size < require
              /\ size >= MinBuf /\ size >= require
              /\ \/ nb = [size |-> size, cap |-> size, data |-> b.data]
                 \/ nb = [size |-> size, cap |-> 0, data |-> <<>>]
  <2>1. PICK size \in Nat :
              /\ b.size < require
              /\ size >= MinBuf /\ size >= require
              /\ \/ nb = [size |-> size, cap |-> size, data |-> b.data]
                 \/ nb = [size |-> size, cap |-> 0, data |-> <<>>]
    BY <1>4, Zenon
  <2>2. CASE nb = [size |-> size, cap |-> size, data |-> b.data]
    <3>1. /\ nb \in [size : Nat, cap : Nat, data : Seq(Int)]
          /\ nb.size = size /\ nb.cap = size /\ nb.data = b.data
      BY <1>2, <2>1, <2>2, Zenon
    <3>2. nb.cap # 0
      BY <2>1, <3>1, Sizes
    <3>3. QED
      BY <2>1, <3>1, <3>2, Zenon
  <2>3. CASE nb = [size |-> size, cap |-> 0, data |-> <<>>]
    <3>1. /\ nb \in [size : Nat, cap : Nat, data : Seq(Int)]
          /\ nb.size = size /\ nb.cap = 0
          /\ Failed(b, require, nb)
      BY <1>3, <2>1, <2>3, Zenon
    <3>2. ~(nb.cap > 0)
      BY <3>1
    <3>3. QED
      BY <2>1, <3>1, <3>2, Zenon
  <2>4. QED
    BY <2>1, <2>2, <2>3, Zenon
<1>5. QED
  <2>1. \/ b.size >= require /\ nb = b
        \/ \E size \in Nat :
              /\ b.size < require
              /\ size >= MinBuf /\ size >= require
              /\ \/ nb = [size |-> size, cap |-> size, data |-> b.data]
                 \/ nb = [size |-> size, cap |-> 0, data |-> <<>>]
    BY PrepareCases
  <2>2. QED
    BY <1>1, <1>4, <2>1, Zenon

-----------------------------------------------------------------------------
(* Types, and what is written where *)

\* A message is ready: the number in front is that of the bytes behind the
\* header.
Ready ==
    sst = "header" => /\ out[1] \in Nat /\ Len(out) = HeaderSize + out[1]
                      /\ \A k \in 1..3 : out[1 + k] = Pad

\* The sender's part of the state.
SendSide ==
    /\ BufferOK(sbuf)
    /\ sst \in {"idle", "header", "body", "closed", "crashed"}
    /\ out \in Seq(Int)
    /\ sent \in 0..MaxSend
    /\ Ready

\* Between messages nothing of a body was received; in the loop the length is
\* a checked one, and the buffer has room for all of it.
Loop ==
    /\ rst # "body" => recvlen = 0 /\ reads = 0
    /\ rst = "body" => /\ Len(rbuf.data) >= HeaderSize + recvlen
                       /\ rbuf.data[1] \in 1..SizeMax
                       /\ rbuf.cap >= HeaderSize + rbuf.data[1]
                       /\ recvlen < rbuf.data[1]

\* The receiver's part of the state.
RecvSide ==
    /\ BufferOK(rbuf)
    /\ rst \in {"idle", "body", "done"}
    /\ ropen \in BOOLEAN
    /\ recvlen \in 0..SizeMax /\ reads \in 0..(MaxRecv - 1)
    /\ ret \in {"message", "EMPTY", "PEERDOWN", "ERR_SOCK", "ERR_BUF", "INVALID"}
    /\ Loop

Flags == cut \in BOOLEAN /\ wild \in BOOLEAN /\ oom \in BOOLEAN

BufferInv ==
    /\ SendSide /\ RecvSide
    /\ stream \in Seq(Int)
    /\ Flags
    /\ InBuffer

\* The first state.
LEMMA BufferInit == Init => BufferInv
<1> SUFFICES ASSUME Init PROVE BufferInv
  OBVIOUS
<1>1. BufferOK(sbuf) /\ BufferOK(rbuf)
  BY DEF Init, BufferOK, NoBuffer
<1>2. SendSide
  BY <1>1, Sizes DEF Init, SendSide, Ready
<1>3. RecvSide
  BY <1>1, Sizes DEF Init, RecvSide, Loop
<1>4. stream \in Seq(Int)
  BY DEF Init
<1>5. Flags /\ InBuffer
  BY Zenon DEF Init, Flags, InBuffer
<1>6. QED
  BY <1>2, <1>3, <1>4, <1>5, Zenon DEF BufferInv

\* A buffer that a step leaves alone stays good.
LEMMA BufferStays ==
    ASSUME Flags, oom => oom'
    PROVE  /\ (BufferOK(sbuf) /\ sbuf' = sbuf) => BufferOK(sbuf)'
           /\ (BufferOK(rbuf) /\ rbuf' = rbuf) => BufferOK(rbuf)'
BY DEF BufferOK, Flags

\* What a sender does leaves the receiver's side as it is, and the other way
\* round.
LEMMA SidesStay ==
    ASSUME Flags, oom => oom'
    PROVE  /\ (SendSide /\ UNCHANGED senderVars) => SendSide'
           /\ (RecvSide /\ UNCHANGED receiverVars) => RecvSide'
<1>1. (SendSide /\ UNCHANGED senderVars) => SendSide'
  BY BufferStays DEF SendSide, Ready, senderVars
<1>2. (RecvSide /\ UNCHANGED receiverVars) => RecvSide'
  BY BufferStays DEF RecvSide, Loop, receiverVars
<1>3. QED
  BY <1>1, <1>2

\* A buffer without memory.
LEMMA EmptyBuffer == BufferOK(NoBuffer)
BY DEF BufferOK, NoBuffer

\* The three numbers in front of a message.
LEMMA HeaderIs ==
    ASSUME NEW m \in Messages
    PROVE  /\ Header(m) \in Seq(Int) /\ Len(Header(m)) = HeaderSize
           /\ Header(m)[1] = m.len
           /\ \A k \in 1..3 : Header(m)[1 + k] = Pad
<1> DEFINE a == PACK(4, m.len)
           b == PACK(4, m.type)
           c == PACK(4, m.pid)
           ab == a \o b
<1>1. m.len \in Int /\ m.type \in Int /\ m.pid \in Int
  BY WireAssumption
<1>2. /\ a \in Seq(Int) /\ Len(a) = 4
      /\ a[1] = m.len /\ \A k \in 1..3 : a[1 + k] = Pad
  BY <1>1, PackedNumber, Zenon
<1>3. b \in Seq(Int) /\ Len(b) = 4
  BY <1>1, PackedNumber, Zenon
<1>4. c \in Seq(Int) /\ Len(c) = 4
  BY <1>1, PackedNumber, Zenon
<1>5. Header(m) = ab \o c
  BY Zenon DEF Header
<1> HIDE DEF a, b, c
<1>6. /\ ab \in Seq(Int) /\ Len(ab) = Len(a) + Len(b)
      /\ \A k \in 1..Len(a) : ab[k] = a[k]
  BY <1>2, <1>3, Join, Zenon
<1> HIDE DEF ab
<1>7. /\ ab \o c \in Seq(Int) /\ Len(ab \o c) = Len(ab) + Len(c)
      /\ \A k \in 1..Len(ab) : (ab \o c)[k] = ab[k]
  BY <1>4, <1>6, Join, Zenon
<1>8. Len(ab) = 8 /\ Len(ab) + Len(c) = 12
  BY <1>2, <1>3, <1>4, <1>6
<1>9. \A k \in 1..4 : Header(m)[k] = a[k]
  <2> SUFFICES ASSUME NEW k \in 1..4 PROVE Header(m)[k] = a[k]
    OBVIOUS
  <2>1. k \in 1..Len(a) /\ k \in 1..Len(ab)
    BY <1>2, <1>8
  <2>2. QED
    BY <1>5, <1>6, <1>7, <2>1, Zenon
<1>10. Header(m)[1] = m.len
  BY <1>2, <1>9, 1 \in 1..4
<1>11. \A k \in 1..3 : Header(m)[1 + k] = Pad
  BY <1>2, <1>9, \A k \in 1..3 : 1 + k \in 1..4
<1>12. QED
  BY <1>5, <1>7, <1>8, <1>10, <1>11, Zenon DEF HeaderSize

\* The bytes of a message, in the buffer and on their way to send(): the
\* header, and as many bytes behind it as were asked for.
LEMMA Packing ==
    ASSUME NEW m \in Messages, NEW old \in Seq(Int)
    PROVE  LET bytes == Header(m) \o m.data
               data == Write(old, 1, bytes)
               gone == Bytes(data, 1, HeaderSize + m.len)
           IN /\ Len(bytes) = HeaderSize + Len(m.data)
              /\ data \in Seq(Int)
              /\ gone \in Seq(Int) /\ Len(gone) = HeaderSize + m.len
              /\ gone[1] = m.len
              /\ \A k \in 1..3 : gone[1 + k] = Pad
<1> DEFINE h == Header(m)
           bytes == h \o m.data
           data == Write(old, 1, bytes)
           gone == Bytes(data, 1, HeaderSize + m.len)
<1>1. m.data \in Seq(Int) /\ Len(m.data) \in Nat /\ m.len \in Nat
  BY WireAssumption
<1>2. h \in Seq(Int) /\ Len(h) = HeaderSize
  BY HeaderIs, Zenon
<1>11. h[1] = m.len /\ \A k \in 1..3 : h[1 + k] = Pad
  BY HeaderIs, Zenon
<1> HIDE DEF h
<1>3. /\ bytes \in Seq(Int) /\ Len(bytes) = Len(h) + Len(m.data)
      /\ \A k \in 1..Len(h) : bytes[k] = h[k]
  BY <1>1, <1>2, Join, Zenon
<1> HIDE DEF bytes
<1>4. /\ data \in Seq(Int)
      /\ Len(data) >= 1 - 1 + Len(bytes)
      /\ \A k \in 1..Len(bytes) : data[1 - 1 + k] = bytes[k]
  BY <1>3, WriteIs, 1 \in Nat \ {0}, Zenon
<1> HIDE DEF data
<1>5. HeaderSize + m.len \in Nat
  BY <1>1, Sizes
<1>6. /\ gone \in Seq(Int) /\ Len(gone) = HeaderSize + m.len
      /\ \A k \in 1..(HeaderSize + m.len) : gone[k] =
            IF 1 + k - 1 <= Len(data) THEN data[1 + k - 1] ELSE Stale
  BY <1>4, <1>5, BytesAre, 1 \in Nat \ {0}, Zenon
<1> HIDE DEF gone
<1>7. \A k \in 1..4 : gone[k] = h[k]
  <2> SUFFICES ASSUME NEW k \in 1..4 PROVE gone[k] = h[k]
    OBVIOUS
  <2>1. Len(data) \in Nat
    BY <1>4
  <2>2. /\ 1 + k - 1 = k /\ 1 - 1 + k = k
        /\ k \in 1..(HeaderSize + m.len) /\ k \in 1..Len(bytes) /\ k \in 1..Len(h)
    <3>1. Len(bytes) = 12 + Len(m.data) /\ Len(h) = 12
      BY <1>2, <1>3, Sizes, Zenon
    <3>2. k \in 1..(12 + Len(m.data)) /\ k \in 1..(12 + m.len) /\ k \in 1..12
      BY <1>1
    <3>3. k \in 1..(HeaderSize + m.len) /\ k \in 1..Len(bytes) /\ k \in 1..Len(h)
      BY <3>1, <3>2, Sizes, Zenon
    <3>4. QED
      BY <3>3
  <2>3. k <= Len(data)
    BY <1>4, <2>1, <2>2
  <2>4. gone[k] = data[k]
    BY <1>6, <2>2, <2>3
  <2>5. data[k] = bytes[k]
    BY <1>4, <2>2
  <2>6. QED
    BY <1>3, <2>2, <2>4, <2>5
<1>8. gone[1] = m.len
  BY <1>7, <1>11, 1 \in 1..4
<1>9. \A k \in 1..3 : gone[1 + k] = Pad
  BY <1>7, <1>11, \A k \in 1..3 : 1 + k \in 1..4
<1>10. QED
  BY <1>2, <1>3, <1>4, <1>6, <1>8, <1>9, Zenon DEF h, bytes, data, gone

\* pt_comm_build_msg: what is packed is inside the buffer, or the buffer is
\* the one that an earlier failure left without memory.
LEMMA BuildKeeps ==
    ASSUME BufferInv, NEW m \in Messages, pt_comm_build_msg(m)
    PROVE  BufferInv'
<1> DEFINE need == HeaderSize + m.len
           bytes == Header(m) \o m.data
<1>1. /\ BufferOK(sbuf) /\ Flags /\ InBuffer /\ RecvSide
      /\ sent \in 0..MaxSend /\ out \in Seq(Int) /\ stream \in Seq(Int)
  BY DEF BufferInv, SendSide
<1>2. /\ sst = "idle" /\ sent' = sent + 1 /\ sent < MaxSend
      /\ stream' = stream /\ cut' = cut
      /\ UNCHANGED receiverVars
  BY DEF pt_comm_build_msg
<1>3. need \in Nat /\ need > 0 /\ m.len \in Nat
  BY WireAssumption, Sizes
<1>4. sent' \in 0..MaxSend /\ stream' \in Seq(Int)
  BY <1>1, <1>2, Sizes
<1>5. PICK nb \in buf_prepare(sbuf, need) :
          \/ /\ Failed(sbuf, need, nb)
             /\ oom' = TRUE
             /\ sbuf' = nb
             /\ UNCHANGED <<sst, out, wild>>
          \/ /\ ~Failed(sbuf, need, nb)
             /\ nb.cap = 0
             /\ sbuf' = NoBuffer
             /\ sst' = "crashed"
             /\ wild' = TRUE
             /\ UNCHANGED <<out, oom>>
          \/ /\ nb.cap > 0
             /\ sbuf' = [nb EXCEPT !.data = Write(nb.data, 1, bytes)]
             /\ sst' = "header"
             /\ out' = Bytes(Write(nb.data, 1, bytes), 1, need)
             /\ wild' = (wild \/ Len(bytes) > nb.cap)
             /\ UNCHANGED oom
  BY Zenon DEF pt_comm_build_msg
<1>6. /\ nb \in [size : Nat, cap : Nat, data : Seq(Int)]
      /\ nb.cap \in {0, nb.size}
      /\ nb.size >= MinBuf /\ nb.size >= need
      /\ nb.cap > 0 => nb.cap = nb.size
      /\ (~Failed(sbuf, need, nb) /\ nb.cap = 0) => oom
  <2> HIDE DEF need
  <2>1. QED
    BY <1>1, <1>3, Prepared, Zenon
<1>7. /\ Len(bytes) = HeaderSize + Len(m.data)
      /\ Write(nb.data, 1, bytes) \in Seq(Int)
      /\ LET gone == Bytes(Write(nb.data, 1, bytes), 1, need)
         IN /\ gone \in Seq(Int) /\ Len(gone) = HeaderSize + m.len
            /\ gone[1] = m.len
            /\ \A k \in 1..3 : gone[1 + k] = Pad
  <2>1. nb.data \in Seq(Int)
    BY <1>6
  <2>2. QED
    BY <2>1, Packing, Zenon
<1> HIDE DEF need, bytes
<1>8. CASE /\ Failed(sbuf, need, nb)
           /\ oom' = TRUE
           /\ sbuf' = nb
           /\ UNCHANGED <<sst, out, wild>>
  <2>1. BufferOK(sbuf)'
    BY <1>6, <1>8 DEF BufferOK
  <2>2. Flags' /\ InBuffer'
    BY <1>1, <1>2, <1>8, Zenon DEF Flags, InBuffer
  <2>3. SendSide'
    BY <1>1, <1>2, <1>4, <1>8, <2>1, "idle" # "header", Zenon DEF SendSide, Ready
  <2>4. RecvSide'
    BY <1>1, <1>2, <1>8, SidesStay, Zenon
  <2>5. QED
    BY <1>4, <2>2, <2>3, <2>4, Zenon DEF BufferInv
<1>9. CASE /\ ~Failed(sbuf, need, nb)
           /\ nb.cap = 0
           /\ sbuf' = NoBuffer
           /\ sst' = "crashed"
           /\ wild' = TRUE
           /\ UNCHANGED <<out, oom>>
  <2>1. BufferOK(sbuf)'
    BY <1>9 DEF BufferOK, NoBuffer
  <2>2. Flags' /\ InBuffer'
    BY <1>1, <1>2, <1>6, <1>9, Zenon DEF Flags, InBuffer
  <2>3. SendSide'
    BY <1>1, <1>4, <1>9, <2>1, "crashed" # "header", Zenon DEF SendSide, Ready
  <2>4. RecvSide'
    BY <1>1, <1>2, <1>9, SidesStay, Zenon
  <2>5. QED
    BY <1>4, <2>2, <2>3, <2>4, Zenon DEF BufferInv
<1>10. CASE /\ nb.cap > 0
            /\ sbuf' = [nb EXCEPT !.data = Write(nb.data, 1, bytes)]
            /\ sst' = "header"
            /\ out' = Bytes(Write(nb.data, 1, bytes), 1, need)
            /\ wild' = (wild \/ Len(bytes) > nb.cap)
            /\ UNCHANGED oom
  <2>1. /\ sbuf' \in [size : Nat, cap : Nat, data : Seq(Int)]
        /\ sbuf'.size = nb.size /\ sbuf'.cap = nb.cap
    BY <1>6, <1>7, <1>10
  <2>2. BufferOK(sbuf)'
    BY <1>6, <1>10, <2>1 DEF BufferOK
  <2>3. ~(Len(bytes) > nb.cap)
    <3>1. /\ nb.cap = nb.size /\ nb.cap \in Nat
          /\ nb.size >= MinBuf /\ nb.size >= HeaderSize + m.len
      BY <1>6, <1>10 DEF need
    <3>2. Len(m.data) \in Nat
      BY WireAssumption
    <3>3. Len(m.data) <= m.len \/ HeaderSize + Len(m.data) <= MinBuf
      BY PackedAssumption
    <3>4. QED
      BY <1>3, <1>7, <3>1, <3>2, <3>3, Sizes, SMTT(40)
  <2>4. wild' = wild /\ oom' = oom
    BY <1>1, <1>10, <2>3 DEF Flags
  <2>5. Flags' /\ InBuffer'
    BY <1>1, <1>2, <2>4, Zenon DEF Flags, InBuffer
  <2>6. SendSide'
    <3>1. out' \in Seq(Int) /\ Ready'
      BY <1>3, <1>7, <1>10, Zenon DEF Ready
    <3>2. QED
      BY <1>4, <1>10, <2>2, <3>1, Zenon DEF SendSide
  <2>7. RecvSide'
    BY <1>1, <1>2, <1>10, SidesStay, Zenon
  <2>8. QED
    BY <1>4, <2>5, <2>6, <2>7, Zenon DEF BufferInv
<1>11. QED
  BY <1>5, <1>8, <1>9, <1>10, Zenon

\* The sends and the end of the sender move bytes and change its state only.
LEMMA SendKeeps ==
    ASSUME BufferInv, Sending \/ SenderEnds
    PROVE  BufferInv'
<1>1. /\ BufferOK(sbuf) /\ Flags /\ InBuffer /\ RecvSide
      /\ sent \in 0..MaxSend /\ out \in Seq(Int) /\ stream \in Seq(Int)
      /\ sst \in {"idle", "header", "body", "closed", "crashed"}
      /\ Ready
  BY DEF BufferInv, SendSide
<1>2. /\ sent' = sent /\ wild' = wild /\ oom' = oom
      /\ UNCHANGED receiverVars
      /\ cut' = cut \/ cut' = (cut \/ sst = "body")
      /\ sbuf' = sbuf \/ sbuf' = NoBuffer
      /\ sst' \in {"idle", "body", "closed", "crashed"}
  BY <1>1 DEF Sending, SendHeader, SendBody, SendInterrupted, SendFailed, SenderEnds
<1>3. out' \in Seq(Int) /\ stream' \in Seq(Int)
  <2>1. Len(out) \in Nat
    BY <1>1
  <2>2. CASE SendHeader
    <3>1. HeaderSize <= Len(out) /\ HeaderSize \in Nat /\ HeaderSize + 1 \in Nat \ {0}
      BY <1>1, <2>1, <2>2, Sizes DEF SendHeader, Ready
    <3>2. /\ SubSeq(out, HeaderSize + 1, Len(out)) \in Seq(Int)
          /\ SubSeq(out, 1, HeaderSize) \in Seq(Int)
      BY <1>1, <2>1, <3>1, Part
    <3>3. stream \o SubSeq(out, 1, HeaderSize) \in Seq(Int)
      BY <1>1, <3>2, Join, Zenon
    <3>4. QED
      BY <2>2, <3>2, <3>3, Zenon DEF SendHeader
  <2>3. CASE SendBody
    <3> DEFINE n == Least(Chunk, Len(out))
    <3>1. n \in Nat /\ n <= Len(out)
      BY <2>1, Sizes DEF Least
    <3>2. out' = SubSeq(out, n + 1, Len(out)) /\ stream' = stream \o SubSeq(out, 1, n)
      BY <2>3 DEF SendBody
    <3> HIDE DEF n
    <3>3. SubSeq(out, n + 1, Len(out)) \in Seq(Int) /\ SubSeq(out, 1, n) \in Seq(Int)
      BY <1>1, <2>1, <3>1, Part, n + 1 \in Nat \ {0}
    <3>4. stream \o SubSeq(out, 1, n) \in Seq(Int)
      BY <1>1, <3>3, Join, Zenon
    <3>5. QED
      BY <3>2, <3>3, <3>4, Zenon
  <2>4. CASE SendInterrupted \/ SendFailed \/ SenderEnds
    <3>1. out' = <<>> /\ stream' = stream
      BY <2>4, Zenon DEF SendInterrupted, SendFailed, SenderEnds
    <3>2. QED
      BY <1>1, <3>1
  <2>5. QED
    BY <2>2, <2>3, <2>4, Zenon DEF Sending
<1>4. Flags' /\ InBuffer'
  BY <1>1, <1>2, Zenon DEF Flags, InBuffer
<1>5. BufferOK(sbuf)'
  <2>1. CASE sbuf' = sbuf
    BY <1>1, <1>2, <2>1, BufferStays, Zenon
  <2>2. CASE sbuf' = NoBuffer
    BY <2>2 DEF BufferOK, NoBuffer
  <2>3. QED
    BY <1>2, <2>1, <2>2, Zenon
<1>6. SendSide'
  <2>1. sst' # "header"
    BY <1>2
  <2>2. QED
    BY <1>1, <1>2, <1>3, <1>5, <2>1, Zenon DEF SendSide, Ready
<1>7. RecvSide'
  BY <1>1, <1>2, SidesStay, Zenon
<1>8. QED
  BY <1>3, <1>4, <1>6, <1>7, Zenon DEF BufferInv

\* The codes on which the connection is given up.
LEMMA GiveUpKeeps ==
    ASSUME NEW code \in {"PEERDOWN", "ERR_SOCK", "ERR_BUF", "INVALID"},
           GiveUp(code), BufferOK(rbuf)'
    PROVE  RecvSide'
<1>1. /\ rst' = "done" /\ recvlen' = 0 /\ reads' = 0 /\ ropen' \in BOOLEAN
      /\ ret' \in {"message", "EMPTY", "PEERDOWN", "ERR_SOCK", "ERR_BUF", "INVALID"}
  BY DEF GiveUp
<1>2. recvlen' \in 0..SizeMax /\ reads' \in 0..(MaxRecv - 1)
  BY <1>1, Sizes
<1>3. Loop'
  BY <1>1 DEF Loop
<1>4. QED
  BY <1>1, <1>2, <1>3, Zenon DEF RecvSide

\* A message is handed over.
LEMMA HandOverKeeps ==
    ASSUME RecvSide, NEW data, HandOver(data), BufferOK(rbuf)'
    PROVE  RecvSide'
<1>1. /\ rst' = "idle" /\ recvlen' = 0 /\ reads' = 0 /\ ropen' \in BOOLEAN
      /\ ret' \in {"message", "EMPTY", "PEERDOWN", "ERR_SOCK", "ERR_BUF", "INVALID"}
  BY DEF HandOver, RecvSide
<1>2. recvlen' \in 0..SizeMax /\ reads' \in 0..(MaxRecv - 1)
  BY <1>1, Sizes
<1>3. Loop'
  BY <1>1 DEF Loop
<1>4. QED
  BY <1>1, <1>2, <1>3, Zenon DEF RecvSide

\* What recv() of a header of n bytes leaves in the buffer, and how its first
\* number is read.
LEMMA HeaderRead ==
    ASSUME NEW old \in Seq(Int), stream \in Seq(Int),
           NEW n \in Nat, n = Least(HeaderSize, Len(stream))
    PROVE  LET data == Write(old, 1, SubSeq(stream, 1, n))
           IN /\ data \in Seq(Int)
              /\ SubSeq(stream, n + 1, Len(stream)) \in Seq(Int)
              /\ n = HeaderSize =>
                    /\ Len(data) >= HeaderSize
                    /\ \A k \in 1..HeaderSize : data[k] = stream[k]
                    /\ \A len \in Word(data, 1) : len \in Int
<1> DEFINE first == SubSeq(stream, 1, n)
           data == Write(old, 1, first)
<1>1. Len(stream) \in Nat /\ n <= Len(stream) /\ n + 1 \in Nat \ {0}
  BY Sizes DEF Least
<1>2. SubSeq(stream, n + 1, Len(stream)) \in Seq(Int)
  BY <1>1, Part
<1>3. /\ first \in Seq(Int) /\ Len(first) = n
      /\ \A k \in 1..n : first[k] = stream[k]
  BY <1>1, Part
<1> HIDE DEF first
<1>4. /\ data \in Seq(Int) /\ Len(data) >= 1 - 1 + Len(first)
      /\ \A k \in 1..Len(first) : data[1 - 1 + k] = first[k]
  BY <1>3, WriteIs, 1 \in Nat \ {0}, Zenon
<1> HIDE DEF data
<1>5. Len(data) \in Nat /\ Len(data) >= n
  BY <1>3, <1>4
<1>6. ASSUME n = HeaderSize
      PROVE  /\ Len(data) >= HeaderSize
             /\ \A k \in 1..HeaderSize : data[k] = stream[k]
             /\ \A len \in Word(data, 1) : len \in Int
  <2>1. \A k \in 1..n : data[k] = stream[k]
    <3> SUFFICES ASSUME NEW k \in 1..n PROVE data[k] = stream[k]
      OBVIOUS
    <3>1. 1 - 1 + k = k
      OBVIOUS
    <3>2. QED
      BY <1>3, <1>4, <3>1, Zenon
  <2>2. data[1] \in Int
    BY <1>4, <1>5, <1>6, Sizes
  <2>3. \A len \in Word(data, 1) : len \in {data[1], -1, 1, SizeMax + 1}
    BY Zenon DEF Word
  <2>4. \A len \in Word(data, 1) : len \in Int
    BY <2>2, <2>3, Sizes
  <2>5. QED
    BY <1>5, <1>6, <2>1, <2>4, Zenon
<1>7. QED
  BY <1>2, <1>4, <1>6, Zenon DEF data, first

\* The length is a number in the buffer: the first, with the others as they
\* were read.
LEMMA LengthRead ==
    ASSUME NEW data \in Seq(Int), Len(data) >= HeaderSize, NEW len \in Int
    PROVE  LET head == Write(data, 1, PACK(4, len))
           IN /\ head \in Seq(Int) /\ Len(head) >= HeaderSize
              /\ head[1] = len
              /\ \A k \in 1..3 : head[1 + k] = Pad
              /\ \A k \in 5..HeaderSize : head[k] = data[k]
<1> DEFINE four == PACK(4, len)
           head == Write(data, 1, four)
<1>1. /\ four \in Seq(Int) /\ Len(four) = 4 /\ four[1] = len
      /\ \A k \in 1..3 : four[1 + k] = Pad
  BY PackedNumber, Zenon
<1> HIDE DEF four
<1>2. /\ head \in Seq(Int) /\ Len(head) >= Len(data)
      /\ \A k \in 1..Len(four) : head[1 - 1 + k] = four[k]
      /\ \A k \in (1 + Len(four))..Len(data) : head[k] = data[k]
  BY <1>1, WriteIs, 1 \in Nat \ {0}, Zenon
<1> HIDE DEF head
<1>3. Len(head) \in Nat /\ Len(data) \in Nat
  BY <1>2
<1>4. \A k \in 1..4 : head[k] = four[k]
  <2> SUFFICES ASSUME NEW k \in 1..4 PROVE head[k] = four[k]
    OBVIOUS
  <2>1. 1 - 1 + k = k
    OBVIOUS
  <2>2. QED
    BY <1>1, <1>2, <2>1, Zenon
<1>5. head[1] = len
  BY <1>1, <1>4, 1 \in 1..4
<1>6. \A k \in 1..3 : head[1 + k] = Pad
  BY <1>1, <1>4, \A k \in 1..3 : 1 + k \in 1..4
<1>7. \A k \in 5..HeaderSize : head[k] = data[k]
  <2> SUFFICES ASSUME NEW k \in 5..HeaderSize PROVE head[k] = data[k]
    OBVIOUS
  <2>1. k \in 5..Len(data) /\ 1 + 4 = 5
    BY <1>3, Sizes
  <2>2. QED
    BY <1>1, <1>2, <2>1, Zenon
<1>8. Len(head) >= HeaderSize
  BY <1>2, <1>3, Sizes
<1>9. QED
  BY <1>2, <1>5, <1>6, <1>7, <1>8, Zenon DEF head, four

\* A number that was packed is read as it was.
LEMMA WordIs ==
    ASSUME NEW data \in Seq(Int), Len(data) >= HeaderSize,
           \A k \in 1..3 : data[1 + k] = Pad
    PROVE  Word(data, 1) = {data[1]}
<1> DEFINE b == Bytes(data, 1 + 1, 3)
<1>1. /\ b \in Seq(Int) /\ Len(b) = 3
      /\ \A k \in 1..3 : b[k] =
            IF 1 + 1 + k - 1 <= Len(data) THEN data[1 + 1 + k - 1] ELSE Stale
  BY BytesAre, 3 \in Nat, 1 + 1 \in Nat \ {0}, Zenon
<1> HIDE DEF b
<1>2. Len(data) \in Nat /\ Len(data) >= 12
  BY Sizes
<1>3. \A k \in 1..3 : b[k] = Pad
  <2> SUFFICES ASSUME NEW k \in 1..3 PROVE b[k] = Pad
    OBVIOUS
  <2>1. 1 + 1 + k - 1 = 1 + k /\ 1 + k <= Len(data)
    BY <1>2
  <2>2. QED
    BY <1>1, <2>1, Zenon
<1>4. b = <<Pad, Pad, Pad>>
  <2>1. <<Pad, Pad, Pad>> \in Seq(Int) /\ Len(<<Pad, Pad, Pad>>) = 3
    BY DEF Pad
  <2>2. \A k \in 1..3 : <<Pad, Pad, Pad>>[k] = Pad
    OBVIOUS
  <2>3. QED
    BY <1>1, <1>3, <2>1, <2>2, SeqEqual
<1>5. QED
  BY <1>4, Zenon DEF Word, b

\* How many bytes recv() of the header takes, and what comes of them.
Taking == Least(HeaderSize, Len(stream))

HeaderTaken(len, head) ==
    /\ Taking = HeaderSize
    /\ (\A k \in 1..3 : stream[1 + k] = Pad) => len = stream[1]
    /\ Len(head) >= HeaderSize
    /\ head[1] = len
    /\ \A k \in 1..3 : head[1 + k] = Pad
    /\ \A k \in 5..HeaderSize : head[k] = stream[k]
    /\ \/ (len > SizeMax \/ len < 0) /\ GiveUp("INVALID")
       \/ len = 0 /\ HandOver(head)
       \/ len \in 1..SizeMax /\ GiveUp("ERR_BUF")
       \/ /\ len \in 1..SizeMax
          /\ rst' = "body" /\ rbuf'.data = head
          /\ rbuf'.cap >= HeaderSize + len
          /\ UNCHANGED <<ropen, recvlen, reads, ret, pending, got>>

HeaderOutcome ==
    \/ Taking < HeaderSize /\ GiveUp("INVALID")
    \/ \E len \in Int, head \in Seq(Int) : HeaderTaken(len, head)

\* The buffer for the body, once the length is checked.
LEMMA PrepareBodyIs ==
    ASSUME BufferOK(rbuf), oom \in BOOLEAN, NEW lb, BufferOK(lb),
           NEW len \in 1..SizeMax, PrepareBody(lb, len)
    PROVE  /\ BufferOK(rbuf)' /\ oom' \in BOOLEAN /\ (oom => oom')
           /\ \/ GiveUp("ERR_BUF")
              \/ /\ rst' = "body" /\ rbuf'.data = lb.data
                 /\ rbuf'.cap >= HeaderSize + len
                 /\ UNCHANGED <<ropen, recvlen, reads, ret, pending, got>>
<1> DEFINE need == HeaderSize + len
<1>1. need \in Nat /\ need > 0
  BY Sizes
<1>2. PICK nb2 \in buf_prepare(lb, need) :
         /\ rbuf' = nb2
         /\ \/ /\ Failed(lb, need, nb2)
               /\ GiveUp("ERR_BUF")
               /\ oom' = TRUE
            \/ /\ nb2.cap > 0
               /\ rst' = "body"
               /\ UNCHANGED <<ropen, recvlen, reads, ret, pending, got, oom>>
  BY Zenon DEF PrepareBody
<1> HIDE DEF need
<1>3. /\ nb2 \in [size : Nat, cap : Nat, data : Seq(Int)]
      /\ nb2.cap \in {0, nb2.size}
      /\ nb2.size >= MinBuf /\ nb2.size >= need
      /\ nb2.cap > 0 => nb2.data = lb.data /\ nb2.cap = nb2.size
  BY <1>1, Prepared, Zenon
<1>4. CASE Failed(lb, need, nb2) /\ GiveUp("ERR_BUF") /\ oom' = TRUE
  <2>1. BufferOK(rbuf)'
    BY <1>2, <1>3, <1>4 DEF BufferOK
  <2>2. QED
    BY <1>4, <2>1, Zenon
<1>5. CASE /\ nb2.cap > 0
           /\ rst' = "body"
           /\ UNCHANGED <<ropen, recvlen, reads, ret, pending, got, oom>>
  <2>1. BufferOK(rbuf)'
    BY <1>2, <1>3, <1>5 DEF BufferOK
  <2>2. rbuf'.data = lb.data /\ rbuf'.cap >= need
    BY <1>2, <1>3, <1>5
  <2>3. QED
    BY <1>5, <2>1, <2>2, Zenon DEF need
<1>6. QED
  BY <1>2, <1>4, <1>5, Zenon

\* recv() of the header: one of those outcomes, in a good buffer.
LEMMA RecvHeaderIs ==
    ASSUME BufferInv, RecvHeader
    PROVE  /\ HeaderOutcome
           /\ BufferOK(rbuf)' /\ oom' \in BOOLEAN /\ (oom => oom')
           /\ stream' = SubSeq(stream, Taking + 1, Len(stream))
           /\ stream' \in Seq(Int)
<1>1. /\ BufferOK(rbuf) /\ oom \in BOOLEAN /\ stream \in Seq(Int)
  BY DEF BufferInv, RecvSide, Flags
<1> DEFINE n == Taking
<1>2. PICK nb \in buf_prepare(rbuf, HeaderSize) :
         LET data == Write(nb.data, 1, SubSeq(stream, 1, n))
         IN /\ nb.cap > 0
            /\ stream' = SubSeq(stream, n + 1, Len(stream))
            /\ \/ /\ n < HeaderSize
                  /\ GiveUp("INVALID")
                  /\ rbuf' = [nb EXCEPT !.data = data]
                  /\ UNCHANGED oom
               \/ /\ n = HeaderSize
                  /\ \E len \in Word(data, 1) :
                        LET head == Write(data, 1, PACK(4, len))
                            lb == [nb EXCEPT !.data = head]
                        IN \/ /\ len > SizeMax \/ len < 0
                              /\ GiveUp("INVALID")
                              /\ rbuf' = lb
                              /\ UNCHANGED oom
                           \/ /\ len = 0
                              /\ HandOver(head)
                              /\ rbuf' = lb
                              /\ UNCHANGED oom
                           \/ /\ len \in 1..SizeMax
                              /\ PrepareBody(lb, len)
  BY Zenon DEF RecvHeader, Taking
<1> DEFINE data == Write(nb.data, 1, SubSeq(stream, 1, n))
<1>3. /\ nb \in [size : Nat, cap : Nat, data : Seq(Int)]
      /\ nb.cap \in {0, nb.size}
      /\ nb.size >= MinBuf
      /\ nb.cap > 0 => nb.cap = nb.size
  BY <1>1, Prepared, Sizes, HeaderSize \in Nat, HeaderSize > 0
<1>4. ASSUME NEW d \in Seq(Int)
      PROVE  BufferOK([nb EXCEPT !.data = d]) /\ [nb EXCEPT !.data = d].data = d
  <2>1. /\ [nb EXCEPT !.data = d] \in [size : Nat, cap : Nat, data : Seq(Int)]
        /\ [nb EXCEPT !.data = d].size = nb.size
        /\ [nb EXCEPT !.data = d].cap = nb.cap
        /\ [nb EXCEPT !.data = d].data = d
    BY <1>3
  <2>2. nb.cap # 0 /\ ~(nb.size > 0 /\ nb.cap = 0)
    BY <1>2, <1>3
  <2>3. QED
    BY <1>3, <2>1, <2>2, Zenon DEF BufferOK
<1>5. n \in Nat
  BY <1>1, Sizes DEF Taking, Least
<1>6. nb.data \in Seq(Int)
  BY <1>3
<1>7. /\ data \in Seq(Int)
      /\ SubSeq(stream, n + 1, Len(stream)) \in Seq(Int)
      /\ n = HeaderSize =>
            /\ Len(data) >= HeaderSize
            /\ \A k \in 1..HeaderSize : data[k] = stream[k]
            /\ \A len \in Word(data, 1) : len \in Int
  <2>1. n = Least(HeaderSize, Len(stream))
    BY DEF Taking
  <2> HIDE DEF n
  <2>2. QED
    BY <1>1, <1>5, <1>6, <2>1, HeaderRead, Zenon
<1>8. stream' = SubSeq(stream, n + 1, Len(stream)) /\ stream' \in Seq(Int)
  BY <1>2, <1>7, Zenon
<1> HIDE DEF n, data
<1>9. CASE /\ n < HeaderSize
           /\ GiveUp("INVALID")
           /\ rbuf' = [nb EXCEPT !.data = data]
           /\ UNCHANGED oom
  <2>1. HeaderOutcome
    BY <1>9, Zenon DEF HeaderOutcome, n
  <2>2. BufferOK([nb EXCEPT !.data = data])
    BY <1>4, <1>7, Zenon
  <2>3. BufferOK(rbuf)'
    BY <1>9, <2>2 DEF BufferOK
  <2>4. QED
    BY <1>1, <1>8, <1>9, <2>1, <2>3, Zenon DEF n
<1>10. CASE /\ n = HeaderSize
            /\ \E len \in Word(data, 1) :
                  LET head == Write(data, 1, PACK(4, len))
                      lb == [nb EXCEPT !.data = head]
                  IN \/ /\ len > SizeMax \/ len < 0
                        /\ GiveUp("INVALID")
                        /\ rbuf' = lb
                        /\ UNCHANGED oom
                     \/ /\ len = 0
                        /\ HandOver(head)
                        /\ rbuf' = lb
                        /\ UNCHANGED oom
                     \/ /\ len \in 1..SizeMax
                        /\ PrepareBody(lb, len)
  <2>1. PICK len \in Word(data, 1) :
           LET head == Write(data, 1, PACK(4, len))
               lb == [nb EXCEPT !.data = head]
           IN \/ /\ len > SizeMax \/ len < 0
                 /\ GiveUp("INVALID")
                 /\ rbuf' = lb
                 /\ UNCHANGED oom
              \/ /\ len = 0
                 /\ HandOver(head)
                 /\ rbuf' = lb
                 /\ UNCHANGED oom
              \/ /\ len \in 1..SizeMax
                 /\ PrepareBody(lb, len)
    BY <1>10, Zenon
  <2> DEFINE head == Write(data, 1, PACK(4, len))
             lb == [nb EXCEPT !.data = head]
  <2>2. /\ Len(data) >= HeaderSize /\ len \in Int
        /\ \A k \in 1..HeaderSize : data[k] = stream[k]
    BY <1>7, <1>10, Zenon
  <2>3. /\ head \in Seq(Int) /\ Len(head) >= HeaderSize
        /\ head[1] = len
        /\ \A k \in 1..3 : head[1 + k] = Pad
        /\ \A k \in 5..HeaderSize : head[k] = data[k]
    BY <1>7, <2>2, LengthRead, Zenon
  <2>4. \A k \in 5..HeaderSize : head[k] = stream[k]
    <3> HIDE DEF head
    <3>1. \A k \in 5..HeaderSize : k \in 1..HeaderSize
      BY Sizes
    <3>2. QED
      BY <2>2, <2>3, <3>1, Zenon
  <2>5. (\A k \in 1..3 : stream[1 + k] = Pad) => len = stream[1]
    <3> SUFFICES ASSUME \A k \in 1..3 : stream[1 + k] = Pad PROVE len = stream[1]
      OBVIOUS
    <3>1. (\A k \in 1..3 : 1 + k \in 1..HeaderSize) /\ 1 \in 1..HeaderSize
      BY Sizes
    <3>2. (\A k \in 1..3 : data[1 + k] = Pad) /\ data[1] = stream[1]
      BY <2>2, <3>1, Zenon
    <3>3. Word(data, 1) = {data[1]}
      BY <1>7, <2>2, <3>2, WordIs, Zenon
    <3>4. len \in {data[1]}
      BY <3>3, Zenon
    <3>5. QED
      BY <3>2, <3>4, Zenon
  <2>6. BufferOK(lb) /\ lb.data = head
    BY <1>4, <2>3, Zenon
  <2>7. rbuf' = lb /\ oom' = oom => BufferOK(rbuf)'
    <3> HIDE DEF lb
    <3>1. QED
      BY <2>6 DEF BufferOK
  <2> HIDE DEF head, lb
  <2>8. \/ (len > SizeMax \/ len < 0) /\ GiveUp("INVALID") /\ rbuf' = lb /\ UNCHANGED oom
        \/ len = 0 /\ HandOver(head) /\ rbuf' = lb /\ UNCHANGED oom
        \/ len \in 1..SizeMax /\ PrepareBody(lb, len)
    BY <2>1, Zenon DEF head, lb
  <2>9. \/ (len > SizeMax \/ len < 0) /\ GiveUp("INVALID")
        \/ len = 0 /\ HandOver(head)
        \/ len \in 1..SizeMax /\ GiveUp("ERR_BUF")
        \/ /\ len \in 1..SizeMax
           /\ rst' = "body" /\ rbuf'.data = head
           /\ rbuf'.cap >= HeaderSize + len
           /\ UNCHANGED <<ropen, recvlen, reads, ret, pending, got>>
    BY <1>1, <2>6, <2>8, PrepareBodyIs, Zenon
  <2>10. BufferOK(rbuf)' /\ oom' \in BOOLEAN /\ (oom => oom')
    BY <1>1, <2>6, <2>7, <2>8, PrepareBodyIs, Zenon
  <2>11. HeaderTaken(len, head)
    BY <1>10, <2>3, <2>4, <2>5, <2>9, Zenon DEF HeaderTaken, n
  <2>12. HeaderOutcome
    BY <2>2, <2>3, <2>11, Zenon DEF HeaderOutcome
  <2>13. QED
    BY <1>8, <2>10, <2>12, Zenon DEF n
<1>11. QED
  BY <1>2, <1>9, <1>10, Zenon DEF data

\* recv() of the header keeps all this.
LEMMA RecvHeaderKeeps ==
    ASSUME BufferInv, RecvHeader
    PROVE  BufferInv'
<1>1. SendSide /\ RecvSide /\ Flags /\ InBuffer
  BY DEF BufferInv
<1>2. UNCHANGED <<cut, wild>> /\ UNCHANGED senderVars /\ rst = "idle"
  BY Zenon DEF RecvHeader
<1>3. /\ HeaderOutcome
      /\ BufferOK(rbuf)' /\ oom' \in BOOLEAN /\ (oom => oom')
      /\ stream' \in Seq(Int)
  BY RecvHeaderIs, Zenon
<1>4. Flags' /\ InBuffer'
  BY <1>1, <1>2, <1>3, Zenon DEF Flags, InBuffer
<1>5. SendSide'
  BY <1>1, <1>2, <1>3, SidesStay, Zenon
<1>6. RecvSide'
  <2>1. CASE \E code \in {"INVALID", "ERR_BUF"} : GiveUp(code)
    BY <1>3, <2>1, GiveUpKeeps
  <2>2. CASE \E head : HandOver(head)
    BY <1>1, <1>3, <2>2, HandOverKeeps, Zenon
  <2>3. ASSUME NEW len \in 1..SizeMax, NEW head \in Seq(Int),
               Len(head) >= HeaderSize, head[1] = len,
               rst' = "body", rbuf'.data = head, rbuf'.cap >= HeaderSize + len,
               UNCHANGED <<ropen, recvlen, reads, ret, pending, got>>
        PROVE  RecvSide'
    <3>1. /\ recvlen = 0 /\ reads = 0 /\ ropen \in BOOLEAN
          /\ ret \in {"message", "EMPTY", "PEERDOWN", "ERR_SOCK", "ERR_BUF", "INVALID"}
          /\ recvlen \in 0..SizeMax /\ reads \in 0..(MaxRecv - 1)
      BY <1>1, <1>2 DEF RecvSide, Loop
    <3>2. Len(head) >= HeaderSize + 0 /\ 0 < len
      BY <2>3, Sizes
    <3>3. Loop'
      BY <2>3, <3>1, <3>2 DEF Loop
    <3>4. rst' \in {"idle", "body", "done"}
      BY <2>3
    <3>5. QED
      BY <1>3, <2>3, <3>1, <3>3, <3>4, Zenon DEF RecvSide
  <2>4. QED
    BY <1>3, <2>1, <2>2, <2>3, Zenon DEF HeaderOutcome, HeaderTaken
<1>7. QED
  BY <1>3, <1>4, <1>5, <1>6, Zenon DEF BufferInv

\* Nothing to read, or no buffer to read it into.
LEMMA RecvNothingKeeps ==
    ASSUME BufferInv, RecvNothing
    PROVE  BufferInv'
<1>1. /\ SendSide /\ RecvSide /\ Flags /\ InBuffer /\ BufferOK(rbuf)
      /\ stream \in Seq(Int)
  BY DEF BufferInv, RecvSide
<1>2. UNCHANGED <<stream, cut, wild>> /\ UNCHANGED senderVars
  BY Zenon DEF RecvNothing
<1>3. PICK nb \in buf_prepare(rbuf, HeaderSize) :
          \/ /\ Failed(rbuf, HeaderSize, nb)
             /\ GiveUp("ERR_BUF")
             /\ rbuf' = nb
             /\ oom' = TRUE
          \/ /\ ~Failed(rbuf, HeaderSize, nb) /\ nb.cap = 0
             /\ GiveUp("ERR_SOCK")
             /\ UNCHANGED <<rbuf, oom>>
          \/ /\ nb.cap > 0 /\ stream = <<>> /\ SenderUp
             /\ ret' = "EMPTY"
             /\ rbuf' = nb
             /\ UNCHANGED <<rst, ropen, recvlen, reads, pending, got, oom>>
          \/ /\ nb.cap > 0 /\ stream = <<>> /\ ~SenderUp
             /\ \E code \in {"PEERDOWN", "ERR_SOCK"} : GiveUp(code)
             /\ rbuf' = nb
             /\ UNCHANGED oom
  BY Zenon DEF RecvNothing
<1>4. /\ nb \in [size : Nat, cap : Nat, data : Seq(Int)]
      /\ nb.cap \in {0, nb.size}
      /\ nb.size >= MinBuf
  BY <1>1, Prepared, Sizes, HeaderSize \in Nat, HeaderSize > 0
<1>5. (rbuf' = nb /\ (oom' \/ nb.cap > 0)) => BufferOK(rbuf)'
  BY <1>4 DEF BufferOK
<1>6. /\ oom' \in BOOLEAN /\ (oom => oom')
  BY <1>1, <1>3, Zenon DEF Flags
<1>7. BufferOK(rbuf)'
  <2>1. CASE rbuf' = nb /\ (oom' \/ nb.cap > 0)
    BY <1>5, <2>1, Zenon
  <2>2. CASE UNCHANGED <<rbuf, oom>>
    BY <1>1, <2>2, BufferStays, Zenon
  <2>3. QED
    BY <1>3, <2>1, <2>2, Zenon
<1>8. RecvSide'
  <2>1. CASE \E code \in {"ERR_BUF", "ERR_SOCK", "PEERDOWN"} : GiveUp(code)
    BY <1>7, <2>1, GiveUpKeeps
  <2>2. CASE /\ ret' = "EMPTY"
             /\ UNCHANGED <<rst, ropen, recvlen, reads>>
             /\ rst = "idle"
    <3>1. Loop' /\ rst' \in {"idle", "body", "done"}
      BY <1>1, <2>2 DEF Loop, RecvSide
    <3>2. QED
      BY <1>1, <1>7, <2>2, <3>1, Zenon DEF RecvSide
  <2>3. rst = "idle"
    BY Zenon DEF RecvNothing
  <2>4. QED
    BY <1>3, <2>1, <2>2, <2>3, Zenon
<1>9. Flags' /\ InBuffer'
  BY <1>1, <1>2, <1>6, Zenon DEF Flags, InBuffer
<1>10. SendSide'
  BY <1>1, <1>2, <1>6, SidesStay, Zenon
<1>11. QED
  BY <1>1, <1>2, <1>8, <1>9, <1>10, Zenon DEF BufferInv

\* The ends of the loop without a message, the end of the receiver, and a new
\* connection.
LEMMA EndsKeep ==
    ASSUME BufferInv, RecvBodyDown \/ RecvInterrupted \/ ReceiverEnds \/ Reconnect
    PROVE  BufferInv'
<1>1. /\ SendSide /\ RecvSide /\ Flags /\ InBuffer /\ BufferOK(rbuf)
      /\ stream \in Seq(Int)
  BY DEF BufferInv, RecvSide
<1>2. wild' = wild /\ oom' = oom /\ (cut' = cut \/ cut' = FALSE)
  BY Zenon DEF RecvBodyDown, RecvInterrupted, ReceiverEnds, Reconnect
<1>3. Flags' /\ InBuffer'
  BY <1>1, <1>2, Zenon DEF Flags, InBuffer
<1>4. CASE RecvBodyDown \/ RecvInterrupted
  <2>1. /\ \E code \in {"PEERDOWN", "ERR_SOCK"} : GiveUp(code)
        /\ rbuf' = rbuf /\ stream' = stream /\ UNCHANGED senderVars
    BY <1>4, Zenon DEF RecvBodyDown, RecvInterrupted
  <2>2. BufferOK(rbuf)'
    BY <1>1, <1>2, <2>1, BufferStays, Zenon
  <2>3. RecvSide'
    BY <2>1, <2>2, GiveUpKeeps
  <2>4. SendSide'
    BY <1>1, <1>2, <2>1, SidesStay, Zenon
  <2>5. QED
    BY <1>1, <1>3, <2>1, <2>3, <2>4, Zenon DEF BufferInv
<1>5. CASE ReceiverEnds
  <2>1. /\ rst' = "done" /\ ropen' = FALSE /\ recvlen' = 0 /\ reads' = 0
        /\ ret' = "EMPTY" /\ stream' = stream /\ UNCHANGED senderVars
        /\ rbuf' = rbuf \/ rbuf' = NoBuffer
    BY <1>5 DEF ReceiverEnds
  <2>2. BufferOK(rbuf)'
    <3>1. CASE rbuf' = rbuf
      BY <1>1, <1>2, <3>1, BufferStays, Zenon
    <3>2. CASE rbuf' = NoBuffer
      BY <3>2 DEF BufferOK, NoBuffer
    <3>3. QED
      BY <2>1, <3>1, <3>2, Zenon
  <2>3. recvlen' \in 0..SizeMax /\ reads' \in 0..(MaxRecv - 1) /\ Loop'
    BY <2>1, Sizes DEF Loop
  <2>4. RecvSide'
    BY <2>1, <2>2, <2>3 DEF RecvSide
  <2>5. SendSide'
    BY <1>1, <1>2, <2>1, SidesStay, Zenon
  <2>6. QED
    BY <1>1, <1>3, <2>1, <2>4, <2>5, Zenon DEF BufferInv
<1>6. CASE Reconnect
  <2>1. /\ rst = "done" /\ rst' = "idle" /\ ropen' = TRUE /\ sst' = "idle"
        /\ stream' = <<>>
        /\ UNCHANGED <<sbuf, out, sent, rbuf, recvlen, reads, ret>>
    BY <1>6, Zenon DEF Reconnect
  <2>2. BufferOK(rbuf)' /\ BufferOK(sbuf)'
    BY <1>1, <1>2, <2>1, BufferStays, Zenon DEF SendSide
  <2>3. SendSide'
    BY <1>1, <2>1, <2>2, "idle" # "header", Zenon DEF SendSide, Ready
  <2>4. Loop'
    BY <1>1, <2>1 DEF RecvSide, Loop
  <2>5. RecvSide'
    BY <1>1, <2>1, <2>2, <2>4, Zenon DEF RecvSide
  <2>6. stream' \in Seq(Int)
    BY <2>1
  <2>7. QED
    BY <1>3, <2>3, <2>5, <2>6, Zenon DEF BufferInv
<1>7. QED
  BY <1>4, <1>5, <1>6

\* A round of the loop: n bytes move from the stream to the end of what was
\* received, and nothing else of the buffer changes.
BodyTaken(n, data) ==
    /\ n <= Len(stream) /\ n <= rbuf.data[1] - recvlen
    /\ n = Len(stream) \/ n = rbuf.data[1] - recvlen
    /\ stream' = SubSeq(stream, n + 1, Len(stream))
    /\ rbuf' = [rbuf EXCEPT !.data = data]
    /\ Len(data) >= HeaderSize + recvlen + n
    /\ \A k \in 1..(HeaderSize + recvlen) : data[k] = rbuf.data[k]
    /\ \A k \in 1..n : data[HeaderSize + recvlen + k] = stream[k]
    /\ \/ recvlen + n = rbuf.data[1] /\ HandOver(data)
       \/ /\ recvlen + n < rbuf.data[1] /\ ~LastRound
          /\ recvlen' = recvlen + n
          /\ reads' = reads + 1
          /\ UNCHANGED <<rst, ropen, ret, pending, got>>
       \/ recvlen + n < rbuf.data[1] /\ LastRound /\ GiveUp("INVALID")

\* One round is that, and what it writes is inside the buffer.
LEMMA RecvBodyIs ==
    ASSUME BufferInv, RecvBody
    PROVE  /\ \E n \in Nat \ {0}, data \in Seq(Int) : BodyTaken(n, data)
           /\ wild' = wild
<1>1. /\ rst = "body" /\ stream # <<>>
      /\ stream \in Seq(Int) /\ recvlen \in Nat /\ wild \in BOOLEAN
      /\ rbuf \in [size : Nat, cap : Nat, data : Seq(Int)]
  BY DEF BufferInv, RecvSide, RecvBody, BufferOK, Flags
<1>2. /\ Len(rbuf.data) >= HeaderSize + recvlen
      /\ rbuf.data[1] \in 1..SizeMax
      /\ rbuf.cap >= HeaderSize + rbuf.data[1]
      /\ recvlen < rbuf.data[1]
  BY <1>1 DEF BufferInv, RecvSide, Loop
<1> DEFINE len == rbuf.data[1]
           n == Least(Len(stream), len - recvlen)
           part == SubSeq(stream, 1, n)
           data == Write(rbuf.data, BodyPlace, part)
<1>3. /\ stream' = SubSeq(stream, n + 1, Len(stream))
      /\ rbuf' = [rbuf EXCEPT !.data = data]
      /\ wild' = (wild \/ BodyPlace + n - 1 > rbuf.cap)
      /\ \/ recvlen + n = len /\ HandOver(data)
         \/ /\ recvlen + n < len /\ ~LastRound
            /\ recvlen' = recvlen + n
            /\ reads' = reads + 1
            /\ UNCHANGED <<rst, ropen, ret, pending, got>>
         \/ /\ recvlen + n < len /\ LastRound
            /\ GiveUp("INVALID")
  BY Zenon DEF RecvBody
<1>4. Len(stream) \in Nat \ {0} /\ len \in Nat
  BY <1>1, <1>2, Sizes
<1> HIDE DEF len
<1>5. /\ n \in Nat \ {0} /\ n <= Len(stream) /\ n <= len - recvlen
      /\ n = Len(stream) \/ n = len - recvlen
  <2>1. recvlen < len
    BY <1>2 DEF len
  <2>2. QED
    BY <1>1, <1>4, <2>1 DEF Least
<1> HIDE DEF n
<1>6. /\ part \in Seq(Int) /\ Len(part) = n
      /\ \A k \in 1..n : part[k] = stream[k]
  BY <1>1, <1>4, <1>5, Part
<1> HIDE DEF part
<1>7. /\ BodyPlace \in Nat \ {0} /\ BodyPlace - 1 = HeaderSize + recvlen
      /\ BodyPlace + n - 1 = HeaderSize + recvlen + n
  BY <1>1, <1>5, Sizes DEF BodyPlace
<1>8. rbuf.data \in Seq(Int) /\ Len(rbuf.data) \in Nat
  BY <1>1
<1>9. /\ data \in Seq(Int)
      /\ Len(data) >= BodyPlace - 1 + Len(part)
      /\ \A k \in 1..(BodyPlace - 1) : k <= Len(rbuf.data) => data[k] = rbuf.data[k]
      /\ \A k \in 1..Len(part) : data[BodyPlace - 1 + k] = part[k]
  BY <1>6, <1>7, <1>8, WriteIs, Zenon
<1> HIDE DEF data
<1>10. \A k \in 1..(HeaderSize + recvlen) : data[k] = rbuf.data[k]
  <2> SUFFICES ASSUME NEW k \in 1..(HeaderSize + recvlen) PROVE data[k] = rbuf.data[k]
    OBVIOUS
  <2>1. k <= Len(rbuf.data)
    BY <1>1, <1>2, <1>8, Sizes
  <2>2. QED
    BY <1>7, <1>9, <2>1, Zenon
<1>11. \A k \in 1..n : data[HeaderSize + recvlen + k] = stream[k]
  BY <1>6, <1>7, <1>9, Zenon
<1>12. Len(data) >= HeaderSize + recvlen + n
  BY <1>6, <1>7, <1>9, Zenon
<1>13. BodyTaken(n, data)
  BY <1>3, <1>5, <1>10, <1>11, <1>12, Zenon DEF BodyTaken, len
<1>14. wild' = wild
  <2>1. rbuf.cap >= HeaderSize + len /\ rbuf.cap \in Nat
    BY <1>1, <1>2 DEF len
  <2>2. ~(BodyPlace + n - 1 > rbuf.cap)
    BY <1>1, <1>4, <1>5, <1>7, <2>1, Sizes
  <2>3. QED
    BY <1>1, <1>3, <2>2
<1>15. QED
  BY <1>5, <1>9, <1>13, <1>14, Zenon

\* A round of the loop keeps all this.
LEMMA RecvBodyKeeps ==
    ASSUME BufferInv, RecvBody
    PROVE  BufferInv'
<1>1. /\ SendSide /\ RecvSide /\ Flags /\ InBuffer /\ BufferOK(rbuf)
      /\ stream \in Seq(Int)
  BY DEF BufferInv, RecvSide
<1>2. UNCHANGED <<cut, oom>> /\ UNCHANGED senderVars /\ rst = "body"
  BY Zenon DEF RecvBody
<1>3. wild' = wild
  BY RecvBodyIs, Zenon
<1>4. PICK n \in Nat \ {0}, data \in Seq(Int) : BodyTaken(n, data)
  BY RecvBodyIs, Zenon
<1>5. Flags' /\ InBuffer'
  BY <1>1, <1>2, <1>3, Zenon DEF Flags, InBuffer
<1>6. SendSide'
  BY <1>1, <1>2, SidesStay, Zenon
<1>7. stream' \in Seq(Int)
  <2>1. Len(stream) \in Nat /\ n + 1 \in Nat \ {0}
    BY <1>1
  <2>2. stream' = SubSeq(stream, n + 1, Len(stream))
    BY <1>4, Zenon DEF BodyTaken
  <2>3. QED
    BY <1>1, <2>1, <2>2, Part
<1>8. /\ rbuf' \in [size : Nat, cap : Nat, data : Seq(Int)]
      /\ rbuf'.size = rbuf.size /\ rbuf'.cap = rbuf.cap /\ rbuf'.data = data
  BY <1>1, <1>4 DEF BodyTaken, BufferOK
<1>9. BufferOK(rbuf)'
  BY <1>1, <1>2, <1>8 DEF BufferOK
<1>10. RecvSide'
  <2>1. CASE GiveUp("INVALID")
    BY <1>9, <2>1, GiveUpKeeps
  <2>2. CASE HandOver(data)
    BY <1>1, <1>9, <2>2, HandOverKeeps, Zenon
  <2>3. CASE /\ recvlen + n < rbuf.data[1] /\ ~LastRound
             /\ recvlen' = recvlen + n
             /\ reads' = reads + 1
             /\ UNCHANGED <<rst, ropen, ret, pending, got>>
    <3>1. /\ recvlen \in 0..SizeMax /\ reads \in 0..(MaxRecv - 1)
          /\ rst \in {"idle", "body", "done"} /\ ropen \in BOOLEAN
          /\ ret \in {"message", "EMPTY", "PEERDOWN", "ERR_SOCK", "ERR_BUF", "INVALID"}
      BY <1>1 DEF RecvSide
    <3>2. /\ Len(rbuf.data) >= HeaderSize + recvlen
          /\ rbuf.data[1] \in 1..SizeMax
          /\ rbuf.cap >= HeaderSize + rbuf.data[1]
      BY <1>1, <1>2 DEF RecvSide, Loop
    <3>3. data[1] = rbuf.data[1]
      <4>1. 1 \in 1..(HeaderSize + recvlen)
        BY <3>1, Sizes
      <4>2. QED
        BY <1>4, <4>1, Zenon DEF BodyTaken
    <3>4. Len(data) >= HeaderSize + (recvlen + n)
      <4>1. Len(data) >= HeaderSize + recvlen + n
        BY <1>4, Zenon DEF BodyTaken
      <4>2. QED
        BY <3>1, <4>1, Sizes
    <3>5. reads + 1 \in 0..(MaxRecv - 1) /\ recvlen + n \in 0..SizeMax
      BY <2>3, <3>1, <3>2, Sizes DEF LastRound
    <3>6. Loop'
      <4>1. rst' = "body"
        BY <1>2, <2>3
      <4>2. /\ Len(rbuf'.data) >= HeaderSize + recvlen'
            /\ rbuf'.data[1] \in 1..SizeMax
            /\ rbuf'.cap >= HeaderSize + rbuf'.data[1]
            /\ recvlen' < rbuf'.data[1]
        BY <1>8, <2>3, <3>2, <3>3, <3>4, Zenon
      <4>3. QED
        BY <4>1, <4>2, Zenon DEF Loop
    <3>7. QED
      BY <1>9, <2>3, <3>1, <3>5, <3>6, Zenon DEF RecvSide
  <2>4. QED
    BY <1>4, <2>1, <2>2, <2>3, Zenon DEF BodyTaken
<1>11. QED
  BY <1>5, <1>6, <1>7, <1>10, Zenon DEF BufferInv

\* Every step keeps it.
LEMMA BufferStep == BufferInv /\ [Next]_vars => BufferInv'
<1> SUFFICES ASSUME BufferInv, [Next]_vars PROVE BufferInv'
  OBVIOUS
<1>1. CASE \E m \in Messages : pt_comm_build_msg(m)
  BY <1>1, BuildKeeps, Zenon
<1>2. CASE Sending \/ SenderEnds
  BY <1>2, SendKeeps, Zenon
<1>3. CASE RecvNothing
  BY <1>3, RecvNothingKeeps, Zenon
<1>4. CASE RecvHeader
  BY <1>4, RecvHeaderKeeps, Zenon
<1>5. CASE RecvBody
  BY <1>5, RecvBodyKeeps, Zenon
<1>6. CASE RecvBodyDown \/ RecvInterrupted \/ ReceiverEnds \/ Reconnect
  BY <1>6, EndsKeep, Zenon
<1>7. CASE UNCHANGED vars
  <2>1. /\ UNCHANGED senderVars /\ UNCHANGED receiverVars
        /\ UNCHANGED <<stream, cut, wild, oom>>
    BY <1>7, Zenon DEF vars, senderVars, receiverVars
  <2>2. SendSide' /\ RecvSide'
    BY <2>1, SidesStay, Zenon DEF BufferInv
  <2>3. Flags' /\ InBuffer' /\ stream' \in Seq(Int)
    BY <2>1, Zenon DEF BufferInv, Flags, InBuffer
  <2>4. QED
    BY <2>2, <2>3, Zenon DEF BufferInv
<1>8. QED
  BY <1>1, <1>2, <1>3, <1>4, <1>5, <1>6, <1>7, Zenon DEF Next, Receiving

\* The buffers, the two sides and the flags are what they should be in every
\* state.
LEMMA BuffersKept == Spec => []BufferInv
BY BufferInit, BufferStep, PTL DEF Spec

\* Types: in particular the reads of one body stay under PT_COMM_MAXRECV and
\* what was received of it under PT_MSG_SIZE_MAX, whatever the bytes were.
THEOREM WireTypes == Spec => []TypeOK
<1>1. BufferInv => TypeOK
  BY Zenon DEF BufferInv, SendSide, RecvSide, Flags, TypeOK, BufferOK
<1>2. QED
  BY <1>1, BuffersKept, PTL

\* Neither pt_comm_build_msg and its callers nor pt_comm_recv_msg write beyond
\* what buf_prepare allocated, for every sequence of messages that are packed
\* into no more than they asked for or fit into the smallest buffer, unless
\* an allocation has failed.
THEOREM BuffersHold == Spec => []InBuffer
<1>1. BufferInv => InBuffer
  BY DEF BufferInv
<1>2. QED
  BY <1>1, BuffersKept, PTL

-----------------------------------------------------------------------------
(* The frames of the stream *)

\* A message as the receiver should see it.
Message == [len : Int, type : Int, pid : Int, data : Seq(Int)]

\* The p-th byte of v with o behind it.
Nth(v, o, p) == IF p <= Len(v) THEN v[p] ELSE o[p - Len(v)]

\* Message m begins behind p bytes: its header is in v, and so is as much of
\* its body as v and o have.
Placed(v, o, p, m) ==
    /\ m.len \in Nat /\ Len(m.data) = m.len
    /\ p + HeaderSize <= Len(v)
    /\ v[p + 1] = m.len /\ v[p + 5] = m.type /\ v[p + 9] = m.pid
    /\ \A k \in 1..3 : v[p + 1 + k] = Pad
    /\ \A k \in 1..m.len : p + HeaderSize + k <= Len(v) + Len(o) =>
                              Nth(v, o, p + HeaderSize + k) = m.data[k]

\* v with o behind it is the messages of q, one behind the other, the i-th
\* behind at[i] bytes.  The last may be unfinished: in v there are pieces of
\* Chunk bytes of its body then.
Framed(at, v, o, q) ==
    /\ at \in [1..(Len(q) + 1) -> Nat]
    /\ at[1] = 0
    /\ \A i \in 1..Len(q) : at[i + 1] = at[i] + HeaderSize + q[i].len
    /\ \A i \in 1..(Len(q) + 1), j \in 1..(Len(q) + 1) : i <= j => at[i] <= at[j]
    /\ \A i \in 1..Len(q) : Placed(v, o, at[i], q[i])
    /\ Len(v) + Len(o) <= at[Len(q) + 1]
    /\ Len(v) < at[Len(q) + 1] =>
          \E c \in Nat : Len(v) = at[Len(q)] + HeaderSize + c * Chunk

\* The last message is not unfinished.
Whole(at, v, o, q) == Len(v) + Len(o) = at[Len(q) + 1]

\* A byte of a header that is there.
LEMMA InHeader ==
    ASSUME NEW p \in Nat, NEW l \in Nat, p + HeaderSize <= l, NEW k \in 1..12
    PROVE  p + k \in 1..l
BY Sizes

\* The next piece.
LEMMA NextPiece ==
    ASSUME NEW p \in Int, NEW c \in Nat, NEW l \in Int, l = p + c * Chunk
    PROVE  l + Chunk = p + (c + 1) * Chunk
<1>1. c * Chunk \in Int /\ Chunk \in Int /\ (c + 1) * Chunk = c * Chunk + Chunk
  BY Sizes
<1> DEFINE x == c * Chunk
           y == (c + 1) * Chunk
<1> HIDE DEF x, y
<1>2. x \in Int /\ Chunk \in Int /\ y = x + Chunk /\ l = p + x
  BY <1>1, Zenon DEF x, y
<1>3. l + Chunk = p + y
  BY <1>2
<1>4. QED
  BY <1>3, Zenon DEF y

\* Where the messages are.
LEMMA Offsets ==
    ASSUME NEW q \in Seq(Message), NEW v, NEW o, NEW at, Framed(at, v, o, q)
    PROVE  /\ \A i \in 1..(Len(q) + 1) : at[i] \in Nat
           /\ \A i \in 1..Len(q) : /\ i \in 1..(Len(q) + 1) /\ i + 1 \in 1..(Len(q) + 1)
                                   /\ at[i] \in Nat
                                   /\ at[i] + HeaderSize <= Len(v)
           /\ Len(q) + 1 \in 1..(Len(q) + 1)
           /\ at[Len(q) + 1] \in Nat
<1>1. at \in [1..(Len(q) + 1) -> Nat]
  BY Zenon DEF Framed
<1>2. \A i \in 1..(Len(q) + 1) : at[i] \in Nat
  BY <1>1
<1>3. \A i \in 1..Len(q) : at[i] + HeaderSize <= Len(v)
  BY Zenon DEF Framed, Placed
<1>4. Len(q) \in Nat
  OBVIOUS
<1>5. /\ \A i \in 1..Len(q) : i \in 1..(Len(q) + 1) /\ i + 1 \in 1..(Len(q) + 1)
      /\ Len(q) + 1 \in 1..(Len(q) + 1)
  BY <1>4
<1>6. QED
  BY <1>2, <1>3, <1>5, Zenon

\* What is in o may be lost: the last message stays unfinished.
LEMMA FramedLost ==
    ASSUME NEW q \in Seq(Message), NEW v \in Seq(Int), NEW o \in Seq(Int),
           NEW at, Framed(at, v, o, q)
    PROVE  Framed(at, v, <<>>, q)
<1>1. Len(v) \in Nat /\ Len(o) \in Nat /\ Len(<<>>) = 0 /\ Len(q) \in Nat
  OBVIOUS
<1>2. ASSUME NEW i \in 1..Len(q)
      PROVE  Placed(v, <<>>, at[i], q[i])
  <2>1. Placed(v, o, at[i], q[i])
    BY Zenon DEF Framed
  <2>2. at[i] \in Nat
    BY Offsets, Zenon
  <2>3. ASSUME NEW k \in 1..q[i].len, at[i] + HeaderSize + k <= Len(v) + Len(<<>>)
        PROVE  Nth(v, <<>>, at[i] + HeaderSize + k) = q[i].data[k]
    <3>1. at[i] + HeaderSize + k <= Len(v) /\ at[i] + HeaderSize + k <= Len(v) + Len(o)
      BY <1>1, <2>2, <2>3, Sizes, Nat \subseteq Int
    <3>2. Nth(v, o, at[i] + HeaderSize + k) = q[i].data[k]
      BY <2>1, <3>1, Zenon DEF Placed
    <3>3. QED
      BY <3>1, <3>2, Zenon DEF Nth
  <2>4. QED
    BY <2>1, <2>3, Zenon DEF Placed
<1>3. Len(v) + Len(<<>>) <= at[Len(q) + 1]
  <2>1. at[Len(q) + 1] \in Nat /\ Len(v) + Len(o) <= at[Len(q) + 1]
    BY <1>1 DEF Framed
  <2>2. QED
    BY <1>1, <2>1
<1>4. QED
  BY <1>2, <1>3, Zenon DEF Framed

\* A step of send(): n bytes move from o to v, all of them or Chunk.
LEMMA FramedSent ==
    ASSUME NEW q \in Seq(Message), NEW v \in Seq(Int), NEW o \in Seq(Int),
           NEW at, Framed(at, v, o, q), Whole(at, v, o, q),
           NEW n \in Nat, n <= Len(o), n = Len(o) \/ n = Chunk
    PROVE  LET v2 == v \o SubSeq(o, 1, n)
               o2 == SubSeq(o, n + 1, Len(o))
           IN Framed(at, v2, o2, q) /\ Whole(at, v2, o2, q)
<1> DEFINE first == SubSeq(o, 1, n)
           v2 == v \o first
           o2 == SubSeq(o, n + 1, Len(o))
<1>0. Len(v) + Len(o) = at[Len(q) + 1]
  BY Zenon DEF Whole
<1>1. Len(v) \in Nat /\ Len(o) \in Nat /\ Len(q) \in Nat /\ n + 1 \in Nat \ {0}
  OBVIOUS
<1>2. /\ first \in Seq(Int) /\ Len(first) = n
      /\ \A k \in 1..n : first[k] = o[k]
  BY <1>1, Part
<1>3. /\ o2 \in Seq(Int) /\ Len(o2) = Len(o) - n
      /\ \A k \in 1..(Len(o) - n) : o2[k] = o[n + k]
  <2>1. /\ o2 \in Seq(Int) /\ Len(o2) = IF n + 1 <= Len(o) THEN Len(o) - (n + 1) + 1 ELSE 0
        /\ \A k \in 1..(Len(o) - (n + 1) + 1) : o2[k] = o[n + 1 + k - 1]
    BY <1>1, Part
  <2> HIDE DEF o2
  <2>2. Len(o) - (n + 1) + 1 = Len(o) - n /\ Len(o2) = Len(o) - n
    BY <1>1, <2>1
  <2>3. \A k \in 1..(Len(o) - n) : n + 1 + k - 1 = n + k
    BY <1>1
  <2>4. QED
    BY <2>1, <2>2, <2>3, Zenon
<1> HIDE DEF first, o2
<1>4. /\ v2 \in Seq(Int) /\ Len(v2) = Len(v) + n
      /\ \A k \in 1..Len(v) : v2[k] = v[k]
      /\ \A k \in 1..n : v2[Len(v) + k] = o[k]
  BY <1>2, Join, Zenon
<1> HIDE DEF v2
<1>5. Len(v2) + Len(o2) = Len(v) + Len(o)
  BY <1>1, <1>3, <1>4
<1>6. ASSUME NEW p \in 1..(Len(v) + Len(o))
      PROVE  Nth(v2, o2, p) = Nth(v, o, p)
  <2>1. CASE p <= Len(v)
    <3>1. v2[p] = v[p] /\ p <= Len(v2)
      BY <1>1, <1>4, <2>1
    <3>2. QED
      BY <2>1, <3>1, Zenon DEF Nth
  <2>2. CASE p > Len(v) /\ p <= Len(v) + n
    <3>1. p - Len(v) \in 1..n /\ Len(v) + (p - Len(v)) = p /\ p <= Len(v2) /\ ~(p <= Len(v))
      BY <1>1, <1>4, <2>2
    <3>2. v2[p] = o[p - Len(v)]
      BY <1>4, <3>1, Zenon
    <3>3. QED
      BY <3>1, <3>2, Zenon DEF Nth
  <2>3. CASE p > Len(v) + n
    <3>1. /\ p - Len(v2) \in 1..(Len(o) - n) /\ n + (p - Len(v2)) = p - Len(v)
          /\ ~(p <= Len(v2)) /\ ~(p <= Len(v))
      BY <1>1, <1>4, <2>3
    <3>2. o2[p - Len(v2)] = o[p - Len(v)]
      BY <1>3, <3>1, Zenon
    <3>3. QED
      BY <3>1, <3>2, Zenon DEF Nth
  <2>4. QED
    BY <1>1, <2>1, <2>2, <2>3
<1>7. ASSUME NEW i \in 1..Len(q)
      PROVE  Placed(v2, o2, at[i], q[i])
  <2>1. Placed(v, o, at[i], q[i])
    BY Zenon DEF Framed
  <2>2. at[i] \in Nat /\ at[i] + HeaderSize <= Len(v)
    BY Offsets, Zenon
  <2>9. q[i].len \in Nat
    BY <2>1, Zenon DEF Placed
  <2>3. ASSUME NEW k \in 1..12 PROVE v2[at[i] + k] = v[at[i] + k]
    <3>1. at[i] + k \in 1..Len(v)
      BY <1>1, <2>2, InHeader, Zenon
    <3>2. QED
      BY <1>4, <3>1, Zenon
  <2>4. /\ v2[at[i] + 1] = q[i].len /\ v2[at[i] + 5] = q[i].type
        /\ v2[at[i] + 9] = q[i].pid
    BY <2>1, <2>3, 1 \in 1..12, 5 \in 1..12, 9 \in 1..12, Zenon DEF Placed
  <2>5. ASSUME NEW k \in 1..3 PROVE v2[at[i] + 1 + k] = Pad
    <3>1. 1 + k \in 1..12 /\ at[i] + 1 + k = at[i] + (1 + k)
      BY <2>2
    <3>2. QED
      BY <2>1, <2>3, <3>1, Zenon DEF Placed
  <2>6. ASSUME NEW k \in 1..q[i].len, at[i] + HeaderSize + k <= Len(v2) + Len(o2)
        PROVE  Nth(v2, o2, at[i] + HeaderSize + k) = q[i].data[k]
    <3>1. at[i] + HeaderSize + k <= Len(v) + Len(o)
      BY <1>5, <2>6, Zenon
    <3>2. at[i] + HeaderSize + k \in 1..(Len(v) + Len(o))
      BY <1>1, <2>2, <2>9, <3>1, Sizes, SMTT(40)
    <3>3. Nth(v, o, at[i] + HeaderSize + k) = q[i].data[k]
      BY <2>1, <3>1, Zenon DEF Placed
    <3>4. QED
      BY <1>6, <3>2, <3>3, Zenon
  <2>7. at[i] + HeaderSize <= Len(v2)
    BY <1>1, <1>4, <2>2, Sizes
  <2>8. QED
    BY <2>1, <2>4, <2>5, <2>6, <2>7, Zenon DEF Placed
<1>8. ASSUME Len(v2) < at[Len(q) + 1]
      PROVE  \E c \in Nat : Len(v2) = at[Len(q)] + HeaderSize + c * Chunk
  <2>1. at[Len(q) + 1] \in Nat
    BY <1>1 DEF Framed
  <2>2. n = Chunk /\ Len(v) < at[Len(q) + 1]
    BY <1>0, <1>1, <1>4, <1>8, <2>1
  <2>3. PICK c \in Nat : Len(v) = at[Len(q)] + HeaderSize + c * Chunk
    BY <2>2, Zenon DEF Framed
  <2>4. Len(q) # 0
    <3>1. at[1] = 0 /\ 0 + 1 = 1
      BY DEF Framed
    <3>2. QED
      BY <1>1, <2>2, <3>1
  <2>5. at[Len(q)] \in Nat
    <3>1. Len(q) \in 1..Len(q)
      BY <1>1, <2>4
    <3>2. QED
      BY <3>1, Offsets, Zenon
  <2>6. at[Len(q)] + HeaderSize \in Int /\ Len(v) \in Int
    BY <1>1, <2>5, Sizes
  <2>7. Len(v) + Chunk = at[Len(q)] + HeaderSize + (c + 1) * Chunk
    BY <2>3, <2>6, NextPiece, Zenon
  <2>8. c + 1 \in Nat /\ Len(v2) = Len(v) + Chunk
    BY <1>4, <2>2
  <2>9. QED
    BY <2>7, <2>8, Zenon
<1>9. Framed(at, v2, o2, q)
  BY <1>5, <1>7, <1>8, Zenon DEF Framed
<1>10. QED
  BY <1>0, <1>5, <1>9, Zenon DEF Whole, v2, o2, first

\* A header is sent, with the body still in the sender's hands: one more
\* message.
LEMMA FramedNew ==
    ASSUME NEW q \in Seq(Message), NEW v \in Seq(Int), NEW at,
           Framed(at, v, <<>>, q), Len(v) = at[Len(q) + 1],
           NEW m \in Message, m.len \in Nat, Len(m.data) = m.len,
           NEW h \in Seq(Int), Len(h) = HeaderSize,
           h[1] = m.len, h[5] = m.type, h[9] = m.pid,
           \A k \in 1..3 : h[1 + k] = Pad
    PROVE  \E at2 : /\ Framed(at2, v \o h, m.data, Append(q, m))
                    /\ Whole(at2, v \o h, m.data, Append(q, m))
<1> DEFINE l == Len(q)
           e == Len(v)
           q2 == Append(q, m)
           v2 == v \o h
           o2 == m.data
           len == m.len
           at2 == [i \in 1..(l + 2) |-> IF i <= l + 1 THEN at[i] ELSE e + HeaderSize + len]
<1>1. /\ l \in Nat /\ e \in Nat /\ o2 \in Seq(Int) /\ len \in Nat
      /\ Len(o2) = len
  <2>1. l \in Nat /\ e \in Nat
    OBVIOUS
  <2>2. o2 \in Seq(Int)
    BY m \in Message DEF Message
  <2>3. QED
    BY <2>1, <2>2, Zenon
<1>2. /\ q2 \in Seq(Message) /\ Len(q2) = l + 1 /\ q2[l + 1] = m
      /\ \A i \in 1..l : q2[i] = q[i]
  OBVIOUS
<1>3. /\ v2 \in Seq(Int) /\ Len(v2) = e + HeaderSize
      /\ \A k \in 1..e : v2[k] = v[k]
      /\ \A k \in 1..HeaderSize : v2[e + k] = h[k]
  BY Join, Zenon
<1>4. /\ \A i \in 1..(l + 1) : at[i] \in Nat
      /\ \A i \in 1..l : /\ i \in 1..(l + 1) /\ i + 1 \in 1..(l + 1)
                         /\ at[i] \in Nat /\ at[i] + HeaderSize <= e
      /\ l + 1 \in 1..(l + 1)
      /\ at[l + 1] = e
  BY Offsets, Zenon
<1>5. /\ at[1] = 0
      /\ \A i \in 1..l : at[i + 1] = at[i] + HeaderSize + q[i].len
      /\ \A i \in 1..(l + 1), j \in 1..(l + 1) : i <= j => at[i] <= at[j]
      /\ \A i \in 1..l : Placed(v, <<>>, at[i], q[i])
  BY Zenon DEF Framed
<1> HIDE DEF l, e, q2, v2, o2, len
<1>6. /\ \A i \in 1..(l + 1) : i \in 1..(l + 2) /\ at2[i] = at[i]
      /\ l + 2 \in 1..(l + 2) /\ at2[l + 2] = e + HeaderSize + len
  BY <1>1
<1>7. at2 \in [1..(l + 2) -> Nat]
  BY <1>1, <1>4, Sizes
<1> HIDE DEF at2
<1>8. l + 1 + 1 = l + 2
  BY <1>1
<1>9. at2[1] = 0
  BY <1>1, <1>5, <1>6, 1 \in 1..(l + 1)
<1>10. ASSUME NEW i \in 1..(l + 1)
       PROVE  at2[i + 1] = at2[i] + HeaderSize + q2[i].len
  <2>1. CASE i \in 1..l
    <3>1. at2[i + 1] = at[i + 1] /\ at2[i] = at[i] /\ q2[i] = q[i]
      BY <1>2, <1>4, <1>6, <2>1, Zenon
    <3>2. QED
      BY <1>5, <2>1, <3>1, Zenon
  <2>2. CASE i = l + 1
    <3>1. at2[i] = e /\ q2[i].len = len /\ at2[i + 1] = e + HeaderSize + len
      BY <1>2, <1>4, <1>6, <1>8, <2>2, Zenon DEF len
    <3>2. QED
      BY <3>1, Zenon
  <2>3. i \in 1..l \/ i = l + 1
    BY <1>1
  <2>4. QED
    BY <2>1, <2>2, <2>3, Zenon
<1>11. ASSUME NEW i \in 1..(l + 2), NEW j \in 1..(l + 2), i <= j
       PROVE  at2[i] <= at2[j]
  <2>1. CASE j \in 1..(l + 1)
    <3>1. i \in 1..(l + 1)
      BY <1>1, <1>11, <2>1
    <3>2. QED
      BY <1>5, <1>6, <1>11, <2>1, <3>1, Zenon
  <2>2. CASE i \in 1..(l + 1) /\ j = l + 2
    <3>1. i <= l + 1 /\ l + 1 \in 1..(l + 1)
      BY <1>1, <2>2
    <3>2. at[i] <= e /\ at[i] \in Nat
      BY <1>4, <1>5, <2>2, <3>1, Zenon
    <3>3. at[i] <= e + HeaderSize + len
      BY <1>1, <3>2, Sizes
    <3>4. QED
      BY <1>6, <2>2, <3>3, Zenon
  <2>3. CASE i = l + 2 /\ j = l + 2
    <3>1. at2[l + 2] \in Nat
      BY <1>6, <1>7
    <3>2. QED
      BY <2>3, <3>1
  <2>4. QED
    BY <1>1, <1>11, <2>1, <2>2, <2>3
<1>12. ASSUME NEW i \in 1..l
       PROVE  Placed(v2, o2, at2[i], q2[i])
  <2> DEFINE p == at[i]
  <2>1. /\ Placed(v, <<>>, p, q[i]) /\ p \in Nat /\ p + HeaderSize <= e
        /\ at2[i] = p /\ q2[i] = q[i]
    BY <1>2, <1>4, <1>5, <1>6, Zenon
  <2>2. at[i + 1] = p + HeaderSize + q[i].len /\ at[i + 1] <= e
    <3>1. i + 1 <= l + 1
      BY <1>1
    <3>2. QED
      BY <1>4, <1>5, <3>1, Zenon
  <2> HIDE DEF p
  <2>3. q[i].len \in Nat
    BY <2>1, Zenon DEF Placed
  <2>4. ASSUME NEW k \in 1..12 PROVE v2[p + k] = v[p + k]
    <3>1. p + k \in 1..e
      BY <1>1, <2>1, InHeader, Zenon
    <3>2. QED
      BY <1>3, <3>1, Zenon
  <2>5. /\ v2[p + 1] = q[i].len /\ v2[p + 5] = q[i].type /\ v2[p + 9] = q[i].pid
    BY <2>1, <2>4, 1 \in 1..12, 5 \in 1..12, 9 \in 1..12, Zenon DEF Placed
  <2>6. ASSUME NEW k \in 1..3 PROVE v2[p + 1 + k] = Pad
    <3>1. 1 + k \in 1..12 /\ p + 1 + k = p + (1 + k)
      <4>1. p \in Nat
        BY <2>1, Zenon
      <4>2. QED
        BY <4>1
    <3>2. QED
      BY <2>1, <2>4, <3>1, Zenon DEF Placed
  <2>7. ASSUME NEW k \in 1..q[i].len
        PROVE  Nth(v2, o2, p + HeaderSize + k) = q[i].data[k]
    <3> DEFINE x == p + HeaderSize + k
    <3>1. p + HeaderSize + q[i].len <= e
      BY <2>2, Zenon
    <3>2. x \in 1..e
      <4> DEFINE n == q[i].len
      <4>1. n \in Nat /\ p \in Nat /\ e \in Nat /\ p + HeaderSize + n <= e
        BY <1>1, <2>1, <2>3, <3>1, Zenon DEF Placed
      <4>2. k \in 1..n
        OBVIOUS
      <4> HIDE DEF n, p, e
      <4>3. QED
        BY <4>1, <4>2 DEF HeaderSize
    <3>3. x <= Len(v) + Len(<<>>) /\ x <= Len(v)
      BY <1>1, <3>2 DEF e
    <3> HIDE DEF x
    <3>4. Nth(v, <<>>, x) = q[i].data[k]
      BY <2>1, <3>3, Zenon DEF Placed, x
    <3>5. v[x] = q[i].data[k]
      BY <3>3, <3>4, Zenon DEF Nth
    <3>6. v2[x] = v[x] /\ x <= Len(v2)
      <4>1. v2[x] = v[x]
        BY <1>3, <3>2, Zenon
      <4>2. x <= e + HeaderSize
        BY <1>1, <3>2, Sizes
      <4>3. QED
        BY <1>3, <4>1, <4>2, Zenon
    <3>7. Nth(v2, o2, x) = q[i].data[k]
      BY <3>5, <3>6, Zenon DEF Nth
    <3>8. QED
      BY <3>7, Zenon DEF x
  <2>8. p + HeaderSize <= e + HeaderSize
    BY <1>1, <2>1, Sizes
  <2>9. Placed(v2, o2, p, q[i])
    BY <1>3, <2>1, <2>3, <2>5, <2>6, <2>7, <2>8, Zenon DEF Placed
  <2>10. QED
    BY <2>1, <2>9, Zenon
<1>13. Placed(v2, o2, at2[l + 1], q2[l + 1])
  <2>1. at2[l + 1] = e /\ q2[l + 1] = m
    BY <1>2, <1>4, <1>6, Zenon
  <2>2. \A k \in 1..12 : v2[e + k] = h[k]
    BY <1>3, Sizes, Zenon
  <2>3. v2[e + 1] = m.len /\ v2[e + 5] = m.type /\ v2[e + 9] = m.pid
    BY <2>2, 1 \in 1..12, 5 \in 1..12, 9 \in 1..12, Zenon
  <2>4. ASSUME NEW k \in 1..3 PROVE v2[e + 1 + k] = Pad
    <3>1. 1 + k \in 1..12 /\ e + 1 + k = e + (1 + k)
      BY <1>1
    <3>2. QED
      BY <2>2, <3>1, Zenon
  <2>5. ASSUME NEW k \in 1..len
        PROVE  Nth(v2, o2, e + HeaderSize + k) = m.data[k]
    <3> DEFINE x == e + HeaderSize + k
               y == Len(v2)
    <3>1. y = e + HeaderSize
      BY <1>3, Zenon
    <3>2. ~(x <= y) /\ x - y = k
      <4> HIDE DEF y
      <4>1. QED
        BY <1>1, <3>1, Sizes
    <3>3. Nth(v2, o2, x) = IF x <= y THEN v2[x] ELSE o2[x - y]
      BY Zenon DEF Nth
    <3> HIDE DEF x, y
    <3>4. Nth(v2, o2, x) = o2[k]
      BY <3>2, <3>3, Zenon
    <3>5. QED
      BY <3>4, Zenon DEF x, o2
  <2>6. e + HeaderSize <= e + HeaderSize
    BY <1>1, Sizes
  <2>7. Placed(v2, o2, e, m)
    BY <1>1, <1>3, <2>3, <2>4, <2>5, <2>6, Zenon DEF Placed, len, o2
  <2>8. QED
    BY <2>1, <2>7, Zenon
<1>14. \A i \in 1..(l + 1) : Placed(v2, o2, at2[i], q2[i])
  <2>1. \A i \in 1..(l + 1) : i \in 1..l \/ i = l + 1
    BY <1>1
  <2>2. QED
    BY <1>12, <1>13, <2>1, Zenon
<1>15. Len(v2) + Len(o2) = at2[l + 2] /\ Len(v2) + Len(o2) <= at2[l + 2]
  BY <1>1, <1>3, <1>6, Sizes
<1>16. \E c \in Nat : Len(v2) = at2[l + 1] + HeaderSize + c * Chunk
  <2>1. at2[l + 1] = e
    BY <1>4, <1>6, Zenon
  <2>2. 0 \in Nat /\ 0 * Chunk = 0 /\ e + HeaderSize + 0 = e + HeaderSize
    BY <1>1, Sizes
  <2>3. QED
    BY <1>3, <2>1, <2>2, Zenon
<1>17. Framed(at2, v2, o2, q2)
  BY <1>2, <1>7, <1>8, <1>9, <1>10, <1>11, <1>14, <1>15, <1>16, Zenon DEF Framed
<1>18. QED
  BY <1>2, <1>8, <1>15, <1>17, Zenon DEF Whole, v2, o2, q2

\* The first message is taken: the others move up.
LEMMA FramedTaken ==
    ASSUME NEW q \in Seq(Message), NEW v \in Seq(Int), NEW o \in Seq(Int), NEW at,
           Framed(at, v, o, q), q # <<>>, at[2] <= Len(v)
    PROVE  LET v2 == SubSeq(v, at[2] + 1, Len(v))
           IN \E at2 : /\ Framed(at2, v2, o, Tail(q))
                       /\ Whole(at, v, o, q) => Whole(at2, v2, o, Tail(q))
<1> DEFINE l == Len(q)
           d == at[2]
           e == Len(v)
           b == Len(o)
           q2 == Tail(q)
           v2 == SubSeq(v, d + 1, e)
           at2 == [i \in 1..l |-> at[i + 1] - d]
<1>1. l \in Nat \ {0} /\ e \in Nat /\ b \in Nat
  OBVIOUS
<1>2. /\ q2 \in Seq(Message) /\ Len(q2) = l - 1
      /\ \A i \in 1..(l - 1) : q2[i] = q[i + 1]
  OBVIOUS
<1>3. /\ \A i \in 1..(l + 1) : at[i] \in Nat
      /\ \A i \in 1..l : /\ i \in 1..(l + 1) /\ i + 1 \in 1..(l + 1)
                         /\ at[i] \in Nat /\ at[i] + HeaderSize <= e
      /\ at[l + 1] \in Nat
  BY Offsets, Zenon
<1>4. /\ at[1] = 0
      /\ \A i \in 1..l : at[i + 1] = at[i] + HeaderSize + q[i].len
      /\ \A i \in 1..(l + 1), j \in 1..(l + 1) : i <= j => at[i] <= at[j]
      /\ \A i \in 1..l : Placed(v, o, at[i], q[i])
      /\ e + b <= at[l + 1]
      /\ e < at[l + 1] => \E c \in Nat : e = at[l] + HeaderSize + c * Chunk
  BY Zenon DEF Framed
<1>5. /\ 2 \in 1..(l + 1) /\ l \in 1..l /\ l - 1 + 1 = l
      /\ \A i \in 1..l : i + 1 \in 1..(l + 1) /\ 2 <= i + 1
  BY <1>1
<1>6. d \in Nat /\ d <= e
  BY <1>3, <1>5, Zenon
<1> HIDE DEF l, d, e, b, q2
<1>7. ASSUME NEW i \in 1..l
      PROVE  at2[i] = at[i + 1] - d /\ at2[i] \in Nat /\ at[i + 1] \in Nat
  <2>1. d <= at[i + 1] /\ at[i + 1] \in Nat
    BY <1>3, <1>4, <1>5, Zenon DEF d
  <2>2. at[i + 1] - d \in Nat
    BY <1>6, <2>1
  <2>3. at2[i] = at[i + 1] - d
    OBVIOUS
  <2>4. QED
    BY <2>1, <2>2, <2>3, Zenon
<1>8. at2 \in [1..l -> Nat]
  BY <1>7
<1> HIDE DEF at2
<1>9. /\ v2 \in Seq(Int) /\ Len(v2) = e - d
      /\ \A k \in 1..(e - d) : v2[k] = v[d + k]
  <2>1. d + 1 \in Nat \ {0} /\ e - (d + 1) + 1 = e - d
        /\ (IF d + 1 <= e THEN e - d ELSE 0) = e - d
    BY <1>1, <1>6
  <2>2. /\ v2 \in Seq(Int)
        /\ Len(v2) = IF d + 1 <= e THEN e - (d + 1) + 1 ELSE 0
        /\ \A k \in 1..(e - (d + 1) + 1) : v2[k] = v[d + 1 + k - 1]
    <3>1. e \in Int /\ e <= Len(v)
      BY <1>1 DEF e
    <3>2. QED
      BY <2>1, <3>1, Part, ZenonT(40)
  <2> HIDE DEF v2
  <2>3. \A k \in 1..(e - d) : d + 1 + k - 1 = d + k
    BY <1>1, <1>6
  <2>4. Len(v2) = e - d
    BY <2>1, <2>2
  <2>5. \A k \in 1..(e - d) : v2[k] = v[d + 1 + k - 1]
    BY <2>1, <2>2
  <2>6. QED
    BY <2>2, <2>3, <2>4, <2>5, Zenon
<1> HIDE DEF v2
<1>10. at2[1] = 0
  <2>1. 1 \in 1..l /\ 1 + 1 = 2 /\ d - d = 0
    BY <1>1, <1>6
  <2>2. QED
    BY <1>7, <2>1, Zenon DEF d
<1>11. ASSUME NEW i \in 1..(l - 1)
       PROVE  at2[i + 1] = at2[i] + HeaderSize + q2[i].len
  <2>1. i \in 1..l /\ i + 1 \in 1..l
    BY <1>1
  <2>2. /\ at2[i] = at[i + 1] - d /\ at2[i + 1] = at[i + 1 + 1] - d
        /\ at[i + 1] \in Nat
        /\ at[i + 1 + 1] = at[i + 1] + HeaderSize + q[i + 1].len
        /\ q2[i] = q[i + 1]
    BY <1>2, <1>4, <1>7, <2>1, Zenon
  <2> DEFINE len == q2[i].len
             x == at[i + 1]
             y == at[i + 1 + 1]
  <2>3. len \in Nat
    BY <1>4, <2>1, <2>2, Zenon DEF Placed
  <2>4. y = x + HeaderSize + len /\ x \in Nat
    BY <2>2, Zenon
  <2> HIDE DEF len, x, y
  <2>5. y - d = x - d + HeaderSize + len
    BY <1>6, <2>3, <2>4, Sizes
  <2>6. QED
    BY <2>2, <2>5, Zenon DEF len, x, y
<1>12. ASSUME NEW i \in 1..l, NEW j \in 1..l, i <= j
       PROVE  at2[i] <= at2[j]
  <2>1. i + 1 <= j + 1
    BY <1>1, <1>12
  <2>2. at[i + 1] <= at[j + 1]
    BY <1>3, <1>4, <2>1, Zenon
  <2>3. /\ at2[i] = at[i + 1] - d /\ at2[j] = at[j + 1] - d
        /\ at[i + 1] \in Nat /\ at[j + 1] \in Nat
    BY <1>7, Zenon
  <2>4. at[i + 1] - d <= at[j + 1] - d
    BY <1>6, <2>2, <2>3
  <2>5. QED
    BY <2>3, <2>4, Zenon
<1>13. ASSUME NEW i \in 1..(l - 1)
       PROVE  Placed(v2, o, at2[i], q2[i])
  <2> DEFINE p == at2[i]
             r == at[i + 1]
             len == q2[i].len
  <2>1. i \in 1..l /\ i + 1 \in 1..l
    BY <1>1
  <2>2. /\ Placed(v, o, r, q2[i]) /\ r \in Nat /\ r + HeaderSize <= e
        /\ p = r - d /\ p \in Nat
    BY <1>2, <1>3, <1>4, <1>7, <2>1, Zenon
  <2>3. len \in Nat
    BY <2>2, Zenon DEF Placed
  <2> HIDE DEF p, r, len
  <2>4. p + HeaderSize <= e - d
    BY <1>1, <1>6, <2>2, Sizes
  <2>5. ASSUME NEW k \in 1..12 PROVE v2[p + k] = v[r + k]
    <3>1. e - d \in Nat
      BY <1>1, <1>6
    <3>2. p + k \in 1..(e - d)
      BY <2>2, <2>4, <3>1, InHeader, Zenon
    <3>3. d + (p + k) = r + k
      <4>1. p \in Int /\ r \in Int /\ d \in Int /\ k \in Int /\ p = r - d
        BY <1>6, <2>2
      <4>2. QED
        BY <4>1
    <3>4. QED
      BY <1>9, <3>2, <3>3, Zenon
  <2>6. /\ v2[p + 1] = len /\ v2[p + 5] = q2[i].type /\ v2[p + 9] = q2[i].pid
    BY <2>2, <2>5, 1 \in 1..12, 5 \in 1..12, 9 \in 1..12, Zenon DEF Placed, len
  <2>7. ASSUME NEW k \in 1..3 PROVE v2[p + 1 + k] = Pad
    <3>1. p \in Int /\ r \in Int
      BY <2>2
    <3>2. 1 + k \in 1..12 /\ p + 1 + k = p + (1 + k) /\ r + 1 + k = r + (1 + k)
      BY <3>1
    <3>3. v[r + 1 + k] = Pad
      BY <2>2, Zenon DEF Placed
    <3>4. v2[p + (1 + k)] = v[r + (1 + k)]
      BY <2>5, <3>2, Zenon
    <3>5. QED
      BY <3>2, <3>3, <3>4
  <2>8. ASSUME NEW k \in 1..len, p + HeaderSize + k <= Len(v2) + Len(o)
        PROVE  Nth(v2, o, p + HeaderSize + k) = q2[i].data[k]
    <3> DEFINE x == p + HeaderSize + k
               y == r + HeaderSize + k
    <3>1. x \in Nat \ {0} /\ y = d + x
      <4>1. p \in Nat /\ r \in Nat /\ p = r - d
        BY <2>2, Zenon
      <4>2. QED
        BY <1>6, <2>3, <4>1, Sizes
    <3> HIDE DEF x, y
    <3>2. x <= e - d + b
      BY <1>9, <2>8, Zenon DEF x, b
    <3>3. y <= e + b
      BY <1>1, <1>6, <3>1, <3>2
    <3>4. Nth(v, o, y) = q2[i].data[k]
      BY <2>2, <3>3, Zenon DEF Placed, y, len, e, b
    <3>5. Nth(v, o, y) = IF y <= e THEN v[y] ELSE o[y - e]
      BY Zenon DEF Nth, e
    <3>6. Nth(v2, o, x) = IF x <= e - d THEN v2[x] ELSE o[x - (e - d)]
      BY <1>9, Zenon DEF Nth
    <3>7. CASE y <= e
      <4>1. x \in 1..(e - d) /\ x <= e - d
        BY <1>1, <1>6, <3>1, <3>7
      <4>2. QED
        BY <1>9, <3>1, <3>4, <3>5, <3>6, <3>7, <4>1, Zenon DEF x
    <3>8. CASE ~(y <= e)
      <4>1. ~(x <= e - d) /\ x - (e - d) = y - e
        BY <1>1, <1>6, <3>1, <3>8
      <4>2. QED
        BY <3>4, <3>5, <3>6, <3>8, <4>1, Zenon DEF x
    <3>9. QED
      BY <3>7, <3>8, Zenon
  <2>9. p + HeaderSize <= Len(v2)
    BY <1>9, <2>4, Zenon
  <2>10. QED
    BY <2>2, <2>6, <2>7, <2>8, <2>9, Zenon DEF Placed, p, len
<1>14. at2[l] = at[l + 1] - d /\ at[l + 1] \in Nat
  BY <1>3, <1>5, <1>7, Zenon
<1> DEFINE top == at[l + 1]
<1>15. top \in Nat /\ e + b <= top
  BY <1>3, <1>4, Zenon
<1> HIDE DEF top
<1>16. e - d + b <= top - d /\ (e + b = top => e - d + b = top - d)
  BY <1>1, <1>6, <1>15
<1>17. Len(v2) + Len(o) <= at2[l] /\ (e + b = top => Len(v2) + Len(o) = at2[l])
  BY <1>9, <1>14, <1>16, Zenon DEF top, b
<1>18. ASSUME Len(v2) < at2[l]
       PROVE  \E c \in Nat : Len(v2) = at2[l - 1] + HeaderSize + c * Chunk
  <2>1. e - d < top - d
    BY <1>9, <1>14, <1>18, Zenon DEF top
  <2>2. e < top
    BY <1>1, <1>6, <1>15, <2>1
  <2>3. PICK c \in Nat : e = at[l] + HeaderSize + c * Chunk
    BY <1>4, <2>2, Zenon DEF top
  <2>4. l # 1
    <3>1. ASSUME l = 1 PROVE FALSE
      <4>1. l + 1 = 2
        BY <3>1
      <4>2. top = d
        BY <4>1, Zenon DEF top, d
      <4>3. QED
        BY <1>1, <1>6, <1>15, <2>2, <4>2
    <3>2. QED
      BY <3>1
  <2>5. l - 1 \in 1..l /\ l - 1 + 1 = l
    BY <1>1, <2>4
  <2> DEFINE x == at2[l - 1]
             y == at[l]
             z == c * Chunk
  <2>6. x = y - d /\ y \in Nat
    BY <1>7, <2>5, Zenon
  <2>7. z \in Int /\ e = y + HeaderSize + z
    BY <2>3, Sizes
  <2> HIDE DEF x, y, z
  <2>8. e - d = x + HeaderSize + z
    BY <1>1, <1>6, <2>6, <2>7, Sizes
  <2>9. Len(v2) = at2[l - 1] + HeaderSize + c * Chunk
    BY <1>9, <2>8, Zenon DEF x, z
  <2>10. QED
    BY <2>9, Zenon
<1>19. Framed(at2, v2, o, q2)
  BY <1>2, <1>5, <1>8, <1>10, <1>11, <1>12, <1>13, <1>17, <1>18, Zenon DEF Framed
<1>20. QED
  BY <1>2, <1>5, <1>17, <1>19, Zenon DEF Whole, v2, q2, d, e, b, top, l

-----------------------------------------------------------------------------
(* What is on its way *)

\* What was received of the message that is being read, and what is in the
\* socket.
Arrived ==
    IF rst = "body" THEN SubSeq(rbuf.data, 1, HeaderSize + recvlen) \o stream
    ELSE stream

\* What the sender has still to send of a message whose header is sent.
InHand == IF sst = "body" THEN out ELSE <<>>

\* The bytes are those of the pending messages, to the end unless the sender
\* has gone.
Framing ==
    \E at : /\ Framed(at, Arrived, InHand, pending)
            /\ sst # "crashed" => Whole(at, Arrived, InHand, pending)

\* Every round of the loop has brought a piece.
Rounds == \E d \in Nat : recvlen = d * Chunk /\ reads <= d

StreamInv ==
    /\ pending \in Seq(Message)
    /\ rst # "done" => ropen
    /\ (~cut /\ rst # "done") => Framing
    /\ (~cut /\ rst = "body") => Rounds

\* The first n bytes of the buffer with s behind them.
LEMMA Glued ==
    ASSUME NEW data \in Seq(Int), NEW s \in Seq(Int), NEW n \in Nat, n <= Len(data)
    PROVE  LET g == SubSeq(data, 1, n) \o s
           IN /\ g \in Seq(Int) /\ Len(g) = n + Len(s)
              /\ \A k \in 1..n : g[k] = data[k]
              /\ \A k \in 1..Len(s) : g[n + k] = s[k]
<1> DEFINE a == SubSeq(data, 1, n)
<1>1. n \in Int /\ 1 \in Nat \ {0} /\ (IF 1 <= n THEN n - 1 + 1 ELSE 0) = n
  OBVIOUS
<1>2. /\ a \in Seq(Int) /\ Len(a) = IF 1 <= n THEN n - 1 + 1 ELSE 0
      /\ \A k \in 1..(n - 1 + 1) : a[k] = data[1 + k - 1]
  BY <1>1, Part, Zenon
<1> HIDE DEF a
<1>3. Len(a) = n
  BY <1>1, <1>2
<1>4. \A k \in 1..n : a[k] = data[k]
  BY <1>2
<1>5. /\ a \o s \in Seq(Int) /\ Len(a \o s) = Len(a) + Len(s)
      /\ \A k \in 1..Len(a) : (a \o s)[k] = a[k]
      /\ \A k \in 1..Len(s) : (a \o s)[Len(a) + k] = s[k]
  BY <1>2, Join, Zenon
<1>6. QED
  BY <1>3, <1>4, <1>5, Zenon DEF a

\* Behind the first n bytes of the buffer, m bytes of s were written.
More(data, n, s, m, data2) ==
    /\ n <= Len(data) /\ m <= Len(s) /\ n + m <= Len(data2)
    /\ \A k \in 1..n : data2[k] = data[k]
    /\ \A k \in 1..m : data2[n + k] = s[k]

\* What is in the buffer and what is behind it are the same bytes as before.
SameBytes(data, n, s, m, data2) ==
    LET rest == SubSeq(s, m + 1, Len(s))
        g == SubSeq(data, 1, n) \o s
    IN /\ SubSeq(data2, 1, n + m) \o rest = g
       /\ rest = SubSeq(g, n + m + 1, Len(g))

\* m bytes more are read: they are the same bytes.
LEMMA ReadOn ==
    ASSUME NEW data \in Seq(Int), NEW s \in Seq(Int), NEW n \in Nat,
           NEW data2 \in Seq(Int), NEW m \in Nat, More(data, n, s, m, data2)
    PROVE  SameBytes(data, n, s, m, data2)
<1> DEFINE rest == SubSeq(s, m + 1, Len(s))
           g == SubSeq(data, 1, n) \o s
           g2 == SubSeq(data2, 1, n + m) \o rest
           l == Len(s)
           drop == SubSeq(g, n + m + 1, Len(g))
<1> /\ n <= Len(data) /\ m <= Len(s) /\ n + m <= Len(data2)
    /\ \A k \in 1..n : data2[k] = data[k]
    /\ \A k \in 1..m : data2[n + k] = s[k]
  BY Zenon DEF More
<1>1. l \in Nat /\ n + m \in Nat /\ m + 1 \in Nat \ {0}
  OBVIOUS
<1>2. /\ rest \in Seq(Int) /\ Len(rest) = l - m
      /\ \A k \in 1..(l - m) : rest[k] = s[m + k]
  <2>1. /\ rest \in Seq(Int)
        /\ Len(rest) = IF m + 1 <= Len(s) THEN Len(s) - (m + 1) + 1 ELSE 0
        /\ \A k \in 1..(Len(s) - (m + 1) + 1) : rest[k] = s[m + 1 + k - 1]
    BY <1>1, Part
  <2> HIDE DEF rest, l
  <2>2. l = Len(s)
    BY DEF l
  <2>3. Len(rest) = l - m
    BY <1>1, <2>1, <2>2
  <2>4. \A k \in 1..(l - m) : k \in 1..(l - (m + 1) + 1) /\ m + 1 + k - 1 = m + k
    BY <1>1
  <2>5. QED
    BY <2>1, <2>2, <2>3, <2>4, Zenon
<1>3. /\ g \in Seq(Int) /\ Len(g) = n + l
      /\ \A k \in 1..n : g[k] = data[k]
      /\ \A k \in 1..l : g[n + k] = s[k]
  BY Glued, Zenon
<1> HIDE DEF rest, g, l
<1>4. /\ g2 \in Seq(Int) /\ Len(g2) = n + m + Len(rest)
      /\ \A k \in 1..(n + m) : g2[k] = data2[k]
      /\ \A k \in 1..Len(rest) : g2[n + m + k] = rest[k]
  <2>1. n + m \in Nat
    OBVIOUS
  <2>2. QED
    BY <1>2, <2>1, Glued, Zenon
<1> HIDE DEF g2
<1>5. Len(g2) = n + l
  BY <1>1, <1>2, <1>4
<1>6. m <= l
  BY DEF l
<1>7. ASSUME NEW k \in 1..(n + l) PROVE g2[k] = g[k]
  <2>1. CASE k <= n
    <3>1. k \in 1..n /\ k \in 1..(n + m)
      BY <1>1, <2>1
    <3>2. QED
      BY <1>3, <1>4, <3>1, Zenon
  <2>2. CASE k > n /\ k <= n + m
    <3> DEFINE j == k - n
    <3>1. j \in 1..m /\ j \in 1..l /\ n + j = k /\ k \in 1..(n + m)
      BY <1>1, <1>6, <2>2
    <3> HIDE DEF j
    <3>2. QED
      BY <1>3, <1>4, <3>1, Zenon
  <2>3. CASE k > n + m
    <3> DEFINE j == k - n - m
               i == k - n
    <3>1. /\ j \in 1..(l - m) /\ n + m + j = k
          /\ i \in 1..l /\ n + i = k /\ m + j = i
      BY <1>1, <1>6, <2>3
    <3> HIDE DEF i, j
    <3>2. g2[k] = rest[j] /\ rest[j] = s[i] /\ g[k] = s[i]
      BY <1>2, <1>3, <1>4, <3>1, Zenon
    <3>3. QED
      BY <3>2, Zenon
  <2>4. (k <= n) \/ (k > n /\ k <= n + m) \/ (k > n + m)
    BY <1>1
  <2>5. QED
    BY <2>1, <2>2, <2>3, <2>4, Zenon
<1>8. g2 = g
  <2>1. \A k \in 1..Len(g2) : g2[k] = g[k]
    BY <1>5, <1>7, Zenon
  <2>2. QED
    BY <1>3, <1>4, <1>5, <2>1, SeqEqual, Zenon
<1>9. rest = drop
  <2> DEFINE f == n + m + 1
             t == Len(g)
             part == SubSeq(g, f, t)
  <2>1. f \in Nat \ {0} /\ t \in Int /\ t <= Len(g) /\ t = n + l /\ t - f + 1 = l - m
    BY <1>1, <1>3
  <2>2. part = drop
    OBVIOUS
  <2> HIDE DEF f, t, drop
  <2>3. /\ part \in Seq(Int)
        /\ Len(part) = IF f <= t THEN t - f + 1 ELSE 0
        /\ \A k \in 1..(t - f + 1) : part[k] = g[f + k - 1]
    BY <1>3, <2>1, Part
  <2> HIDE DEF part
  <2>4. Len(part) = l - m
    <3>1. f <= t \/ l - m = 0
      BY <1>1, <1>6, <2>1
    <3>2. ~(f <= t) => l - m = 0
      BY <1>1, <1>6, <2>1
    <3>3. QED
      BY <2>1, <2>3, <3>2, Zenon
  <2>5. ASSUME NEW k \in 1..(l - m) PROVE rest[k] = part[k]
    <3> DEFINE i == m + k
    <3>1. f + k - 1 = n + i /\ i \in 1..l
      BY <1>1, <1>6 DEF f
    <3>2. rest[k] = s[i]
      BY <1>2, Zenon
    <3> HIDE DEF i
    <3>3. part[k] = g[f + k - 1]
      BY <2>1, <2>3, Zenon
    <3>4. QED
      BY <1>3, <3>1, <3>2, <3>3, Zenon
  <2>6. QED
    BY <1>2, <2>2, <2>3, <2>4, <2>5, SeqEqual, Zenon
<1>10. QED
  BY <1>8, <1>9, Zenon DEF SameBytes, rest, g, g2, drop

\* What arrived, byte by byte.
LEMMA ArrivedIs ==
    ASSUME BufferInv
    PROVE  /\ Arrived \in Seq(Int)
           /\ rst # "body" => Arrived = stream
           /\ rst = "body" =>
                 /\ HeaderSize + recvlen \in Nat
                 /\ HeaderSize + recvlen <= Len(rbuf.data)
                 /\ Arrived = SubSeq(rbuf.data, 1, HeaderSize + recvlen) \o stream
                 /\ Len(Arrived) = HeaderSize + recvlen + Len(stream)
                 /\ \A k \in 1..(HeaderSize + recvlen) : Arrived[k] = rbuf.data[k]
           /\ rbuf.data \in Seq(Int) /\ stream \in Seq(Int) /\ InHand \in Seq(Int)
<1>1. rbuf.data \in Seq(Int) /\ stream \in Seq(Int) /\ out \in Seq(Int)
  BY DEF BufferInv, RecvSide, SendSide, BufferOK
<1>2. InHand \in Seq(Int)
  BY <1>1 DEF InHand
<1>3. CASE rst # "body"
  <2>1. Arrived = stream
    BY <1>3, Zenon DEF Arrived
  <2>2. QED
    BY <1>1, <1>2, <1>3, <2>1, Zenon
<1>4. CASE rst = "body"
  <2> DEFINE n == HeaderSize + recvlen
  <2>1. n \in Nat /\ n <= Len(rbuf.data)
    <3>1. recvlen \in Nat /\ Len(rbuf.data) >= HeaderSize + recvlen
      BY <1>4 DEF BufferInv, RecvSide, Loop
    <3>2. Len(rbuf.data) \in Nat
      BY <1>1
    <3>3. QED
      BY <3>1, <3>2, Sizes
  <2> HIDE DEF n
  <2>2. Arrived = SubSeq(rbuf.data, 1, n) \o stream
    BY <1>4, Zenon DEF Arrived, n
  <2>3. /\ Arrived \in Seq(Int) /\ Len(Arrived) = n + Len(stream)
        /\ \A k \in 1..n : Arrived[k] = rbuf.data[k]
    BY <1>1, <2>1, <2>2, Glued, ZenonT(40)
  <2>4. QED
    BY <1>1, <1>2, <1>4, <2>1, <2>2, <2>3, Zenon DEF n
<1>5. QED
  BY <1>3, <1>4, Zenon

\* Where something has arrived, a message is pending, and it is what arrived
\* first.
LEMMA FirstMessage ==
    ASSUME BufferInv, pending \in Seq(Message), Arrived # <<>>,
           NEW at, Framed(at, Arrived, InHand, pending)
    PROVE  /\ pending # <<>> /\ Head(pending) = pending[1] /\ pending[1] \in Message
           /\ at[2] = HeaderSize + pending[1].len
           /\ Placed(Arrived, InHand, 0, pending[1])
           /\ HeaderSize <= Len(Arrived)
<1>1. /\ Arrived \in Seq(Int) /\ InHand \in Seq(Int)
      /\ Len(Arrived) \in Nat \ {0} /\ Len(InHand) \in Nat
  <2>1. Arrived \in Seq(Int) /\ InHand \in Seq(Int)
    BY ArrivedIs, Zenon
  <2>2. QED
    BY <2>1
<1>2. /\ at[1] = 0
      /\ \A i \in 1..Len(pending) : at[i + 1] = at[i] + HeaderSize + pending[i].len
      /\ \A i \in 1..Len(pending) : Placed(Arrived, InHand, at[i], pending[i])
      /\ Len(Arrived) + Len(InHand) <= at[Len(pending) + 1]
  BY Zenon DEF Framed
<1>3. Len(pending) \in Nat
  OBVIOUS
<1>4. Len(pending) # 0
  <2>1. ASSUME Len(pending) = 0 PROVE FALSE
    <3>1. Len(pending) + 1 = 1
      BY <2>1
    <3>2. Len(Arrived) + Len(InHand) <= 0
      BY <1>2, <3>1, Zenon
    <3>3. QED
      BY <1>1, <3>2
  <2>2. QED
    BY <2>1
<1>5. pending # <<>> /\ Head(pending) = pending[1] /\ 1 \in 1..Len(pending)
  BY <1>3, <1>4
<1>6. pending[1] \in Message
  BY <1>5
<1>7. Placed(Arrived, InHand, 0, pending[1])
  BY <1>2, <1>5, Zenon
<1>8. pending[1].len \in Nat /\ 0 + HeaderSize <= Len(Arrived)
  BY <1>7, Zenon DEF Placed
<1>9. at[1 + 1] = at[1] + HeaderSize + pending[1].len
  BY <1>2, <1>5, Zenon
<1> DEFINE len == pending[1].len
           x == at[2]
<1>10. x = 0 + HeaderSize + len
  <2>1. 1 + 1 = 2
    OBVIOUS
  <2>2. QED
    BY <1>2, <1>9, <2>1, Zenon
<1>11. len \in Nat
  BY <1>8, Zenon
<1> HIDE DEF len, x
<1>12. x = HeaderSize + len
  BY <1>10, <1>11, Sizes
<1>13. HeaderSize <= Len(Arrived)
  BY <1>1, <1>8, Sizes
<1>14. QED
  BY <1>5, <1>6, <1>7, <1>12, <1>13, Zenon DEF x, len

\* The message that HandOver makes of the buffer.
Seen(data) ==
    [len |-> data[1], type |-> data[5], pid |-> data[9],
     data |-> Bytes(data, HeaderSize + 1, data[1])]

\* It is message m, when the buffer begins with the bytes of m.
LEMMA SeenIs ==
    ASSUME NEW data \in Seq(Int), NEW m \in Message,
           m.len \in Nat, Len(m.data) = m.len,
           data[1] = m.len, data[5] = m.type, data[9] = m.pid,
           HeaderSize + m.len <= Len(data),
           \A k \in 1..m.len : data[HeaderSize + k] = m.data[k]
    PROVE  Seen(data) = m
<1> DEFINE len == m.len
           body == Bytes(data, HeaderSize + 1, len)
<1>1. len \in Nat /\ HeaderSize + 1 \in Nat \ {0} /\ Len(data) \in Nat
  BY Sizes
<1>2. m.data \in Seq(Int) /\ m = [len |-> m.len, type |-> m.type, pid |-> m.pid, data |-> m.data]
  BY m \in Message DEF Message
<1>9. len = m.len
  OBVIOUS
<1> HIDE DEF len
<1>3. /\ body \in Seq(Int) /\ Len(body) = len
      /\ \A k \in 1..len : body[k] =
            IF HeaderSize + 1 + k - 1 <= Len(data) THEN data[HeaderSize + 1 + k - 1] ELSE Stale
  BY <1>1, BytesAre, Zenon
<1> HIDE DEF body
<1>4. ASSUME NEW k \in 1..len PROVE body[k] = m.data[k]
  <2>1. HeaderSize + len <= Len(data)
    BY <1>9, Zenon
  <2>2. HeaderSize + 1 + k - 1 = HeaderSize + k /\ HeaderSize + k <= Len(data)
    BY <1>1, <2>1, Sizes
  <2>3. body[k] = data[HeaderSize + k]
    BY <1>3, <2>2, Zenon
  <2>4. QED
    BY <1>9, <2>3, Zenon
<1>5. body = m.data
  <2>1. Len(body) = Len(m.data) /\ \A k \in 1..Len(body) : body[k] = m.data[k]
    BY <1>3, <1>4, <1>9, Zenon
  <2>2. QED
    BY <1>2, <1>3, <2>1, SeqEqual, Zenon
<1>6. Seen(data) = [len |-> m.len, type |-> m.type, pid |-> m.pid, data |-> body]
  BY <1>9, Zenon DEF Seen, body
<1>7. QED
  BY <1>2, <1>5, <1>6, Zenon

\* What is waiting on a connection nobody was cut short on is a whole header,
\* that of the first message pending.
LEMMA HeaderWaits ==
    ASSUME BufferInv, StreamInv, ~cut, rst = "idle", stream # <<>>
    PROVE  /\ pending \in Seq(Message) /\ pending # <<>>
           /\ Head(pending) = pending[1] /\ pending[1] \in Message
           /\ Taking = HeaderSize
           /\ HeaderSize <= Len(stream)
           /\ pending[1].len \in Nat /\ Len(pending[1].data) = pending[1].len
           /\ stream[1] = pending[1].len
           /\ stream[5] = pending[1].type /\ stream[9] = pending[1].pid
           /\ \A k \in 1..3 : stream[1 + k] = Pad
<1>1. rst # "done" /\ rst # "body"
  BY Zenon
<1>2. pending \in Seq(Message) /\ Framing
  BY <1>1, Zenon DEF StreamInv
<1>3. PICK at : Framed(at, Arrived, InHand, pending)
  BY <1>2, Zenon DEF Framing
<1>4. Arrived = stream /\ stream \in Seq(Int)
  BY <1>1, ArrivedIs, Zenon
<1>5. /\ pending # <<>> /\ Head(pending) = pending[1] /\ pending[1] \in Message
      /\ Placed(Arrived, InHand, 0, pending[1])
      /\ HeaderSize <= Len(Arrived)
  BY <1>2, <1>3, <1>4, FirstMessage, Zenon
<1>6. Taking = HeaderSize
  <2>1. HeaderSize <= Len(stream)
    BY <1>4, <1>5, Zenon
  <2>2. Len(stream) \in Nat
    BY <1>4
  <2> DEFINE l == Len(stream)
  <2>3. Least(HeaderSize, l) = HeaderSize
    <3> l \in Nat /\ HeaderSize <= l
      BY <2>1, <2>2, Zenon
    <3> HIDE DEF l
    <3>1. QED
      BY DEF Least, HeaderSize
  <2>4. QED
    BY <2>3, Zenon DEF Taking
<1>7. /\ pending[1].len \in Nat /\ Len(pending[1].data) = pending[1].len
      /\ stream[0 + 1] = pending[1].len
      /\ stream[0 + 5] = pending[1].type /\ stream[0 + 9] = pending[1].pid
      /\ \A k \in 1..3 : stream[0 + 1 + k] = Pad
  BY <1>4, <1>5, Zenon DEF Placed
<1>8. 0 + 1 = 1 /\ 0 + 5 = 5 /\ 0 + 9 = 9
  OBVIOUS
<1>9. QED
  BY <1>2, <1>4, <1>5, <1>6, <1>7, <1>8, Zenon

\* The length read is that of the first message pending, and the header in the
\* buffer is the one sent; a message without a body is there whole.
LEMMA HeaderMatches ==
    ASSUME BufferInv, StreamInv, ~cut, rst = "idle", stream # <<>>,
           NEW len \in Int, NEW head \in Seq(Int), HeaderTaken(len, head)
    PROVE  /\ len = pending[1].len /\ len \in Nat
           /\ \A k \in 1..HeaderSize : head[k] = stream[k]
           /\ len = 0 => Seen(head) = Head(pending)
<1>1. /\ pending[1] \in Message /\ Head(pending) = pending[1]
      /\ HeaderSize <= Len(stream)
      /\ pending[1].len \in Nat /\ Len(pending[1].data) = pending[1].len
      /\ stream[1] = pending[1].len
      /\ stream[5] = pending[1].type /\ stream[9] = pending[1].pid
      /\ \A k \in 1..3 : stream[1 + k] = Pad
  BY HeaderWaits, Zenon
<1>2. /\ (\A k \in 1..3 : stream[1 + k] = Pad) => len = stream[1]
      /\ Len(head) >= HeaderSize
      /\ head[1] = len
      /\ \A k \in 1..3 : head[1 + k] = Pad
      /\ \A k \in 5..HeaderSize : head[k] = stream[k]
  BY Zenon DEF HeaderTaken
<1>3. len = pending[1].len /\ len = stream[1] /\ len \in Nat
  BY <1>1, <1>2, Zenon
<1>4. ASSUME NEW k \in 1..HeaderSize
      PROVE  head[k] = stream[k]
  <2>1. CASE k = 1
    BY <1>2, <1>3, <2>1, Zenon
  <2>2. CASE k \in 2..4
    <3>1. k - 1 \in 1..3 /\ 1 + (k - 1) = k
      BY <2>2
    <3>2. QED
      BY <1>1, <1>2, <3>1, Zenon
  <2>3. CASE k \in 5..HeaderSize
    BY <1>2, <2>3, Zenon
  <2>4. k = 1 \/ k \in 2..4 \/ k \in 5..HeaderSize
    BY DEF HeaderSize
  <2>5. QED
    BY <2>1, <2>2, <2>3, <2>4, Zenon
<1>5. ASSUME len = 0
      PROVE  Seen(head) = Head(pending)
  <2>1. 5 \in 1..HeaderSize /\ 9 \in 1..HeaderSize
    BY DEF HeaderSize
  <2>2. head[5] = pending[1].type /\ head[9] = pending[1].pid
    BY <1>1, <1>4, <2>1, Zenon
  <2>3. pending[1].len = 0 /\ head[1] = pending[1].len
    BY <1>2, <1>3, <1>5, Zenon
  <2>4. Len(head) \in Nat
    OBVIOUS
  <2>5. HeaderSize + pending[1].len <= Len(head)
    BY <1>2, <2>3, <2>4 DEF HeaderSize
  <2>6. \A k \in 1..pending[1].len : head[HeaderSize + k] = pending[1].data[k]
    <3>1. 1..pending[1].len = {}
      BY <2>3
    <3>2. QED
      BY <3>1, Zenon
  <2>7. Seen(head) = pending[1]
    BY <1>1, <2>2, <2>3, <2>5, <2>6, SeenIs, Zenon
  <2>8. QED
    BY <1>1, <2>7, Zenon
<1>6. QED
  BY <1>3, <1>4, <1>5, Zenon

\* c pieces are more than d pieces: at least one more.
LEMMA MorePieces ==
    ASSUME NEW c \in Nat, NEW d \in Nat, c * Chunk > d * Chunk
    PROVE  d + 1 <= c
<1>1. Chunk \in Nat
  BY Sizes
<1>2. ASSUME c <= d
      PROVE  c * Chunk <= d * Chunk
  <2>1. PICK e \in Nat : d = c + e
    <3>1. d - c \in Nat /\ d = c + (d - c)
      BY <1>2
    <3>2. QED
      BY <3>1
  <2>2. d * Chunk = c * Chunk + e * Chunk
    BY <1>1, <2>1
  <2>3. e * Chunk \in Nat /\ c * Chunk \in Nat
    BY <1>1
  <2>4. QED
    BY <2>2, <2>3
<1>3. c * Chunk \in Nat /\ d * Chunk \in Nat
  BY <1>1
<1>4. QED
  BY <1>2, <1>3

\* In the loop the buffer begins with the first message pending.
LEMMA BodyWaits ==
    ASSUME BufferInv, StreamInv, ~cut, rst = "body",
           NEW at, Framed(at, Arrived, InHand, pending)
    PROVE  /\ pending \in Seq(Message) /\ pending # <<>>
           /\ Head(pending) = pending[1] /\ pending[1] \in Message
           /\ at[2] = HeaderSize + pending[1].len
           /\ pending[1].len \in Nat /\ Len(pending[1].data) = pending[1].len
           /\ rbuf.data[1] = pending[1].len
           /\ rbuf.data[5] = pending[1].type /\ rbuf.data[9] = pending[1].pid
           /\ \A k \in 1..pending[1].len : HeaderSize + k <= Len(Arrived) =>
                 Arrived[HeaderSize + k] = pending[1].data[k]
<1>1. pending \in Seq(Message)
  BY Zenon DEF StreamInv
<1>2. /\ Arrived \in Seq(Int)
      /\ HeaderSize + recvlen \in Nat
      /\ Len(Arrived) = HeaderSize + recvlen + Len(stream)
      /\ \A k \in 1..(HeaderSize + recvlen) : Arrived[k] = rbuf.data[k]
      /\ stream \in Seq(Int) /\ InHand \in Seq(Int)
  BY ArrivedIs, Zenon
<1>3. recvlen \in Nat
  BY Sizes DEF BufferInv, RecvSide
<1>4. Arrived # <<>>
  <2>1. Len(Arrived) > 0
    BY <1>2, <1>3, Sizes
  <2>2. QED
    BY <2>1
<1>5. /\ pending # <<>> /\ Head(pending) = pending[1] /\ pending[1] \in Message
      /\ at[2] = HeaderSize + pending[1].len
      /\ Placed(Arrived, InHand, 0, pending[1])
  BY <1>1, <1>4, FirstMessage, Zenon
<1>6. /\ pending[1].len \in Nat /\ Len(pending[1].data) = pending[1].len
      /\ Arrived[0 + 1] = pending[1].len
      /\ Arrived[0 + 5] = pending[1].type /\ Arrived[0 + 9] = pending[1].pid
      /\ \A k \in 1..pending[1].len :
            0 + HeaderSize + k <= Len(Arrived) + Len(InHand) =>
               Nth(Arrived, InHand, 0 + HeaderSize + k) = pending[1].data[k]
  BY <1>5, Zenon DEF Placed
<1>7. \A k \in {1, 5, 9} : 0 + k = k /\ k \in 1..(HeaderSize + recvlen)
  BY <1>3 DEF HeaderSize
<1>8. /\ rbuf.data[1] = pending[1].len
      /\ rbuf.data[5] = pending[1].type /\ rbuf.data[9] = pending[1].pid
  BY <1>2, <1>6, <1>7, Zenon
<1>9. ASSUME NEW k \in 1..pending[1].len, HeaderSize + k <= Len(Arrived)
      PROVE  Arrived[HeaderSize + k] = pending[1].data[k]
  <2>1. Len(Arrived) \in Nat /\ Len(InHand) \in Nat
    BY <1>2
  <2>2. k \in Nat
    BY <1>6
  <2>3. /\ 0 + HeaderSize + k <= Len(Arrived) + Len(InHand)
        /\ 0 + HeaderSize + k = HeaderSize + k
    BY <1>9, <2>1, <2>2 DEF HeaderSize
  <2>4. Nth(Arrived, InHand, HeaderSize + k) = pending[1].data[k]
    BY <1>6, <2>3, Zenon
  <2>5. QED
    BY <1>9, <2>4, Zenon DEF Nth
<1>10. QED
  BY <1>1, <1>5, <1>6, <1>8, <1>9, Zenon

\* A round moves bytes from the socket to the buffer, behind those that are
\* there; the last one makes the message whole.
LEMMA BodyMatches ==
    ASSUME BufferInv, StreamInv, ~cut, rst = "body",
           NEW n \in Nat \ {0}, NEW data \in Seq(Int), BodyTaken(n, data)
    PROVE  /\ SubSeq(data, 1, HeaderSize + recvlen + n) \o stream' = Arrived
           /\ stream' = SubSeq(Arrived, HeaderSize + recvlen + n + 1, Len(Arrived))
           /\ rbuf.data[1] = pending[1].len
           /\ data[1] = rbuf.data[1]
           /\ recvlen + n = rbuf.data[1] => Seen(data) = Head(pending)
<1>1. /\ n <= Len(stream)
      /\ stream' = SubSeq(stream, n + 1, Len(stream))
      /\ Len(data) >= HeaderSize + recvlen + n
      /\ \A k \in 1..(HeaderSize + recvlen) : data[k] = rbuf.data[k]
      /\ \A k \in 1..n : data[HeaderSize + recvlen + k] = stream[k]
  BY Zenon DEF BodyTaken
<1>2. rst # "done" /\ Framing
  BY Zenon DEF StreamInv
<1>3. PICK at : Framed(at, Arrived, InHand, pending)
  BY <1>2, Zenon DEF Framing
<1>4. /\ Head(pending) = pending[1] /\ pending[1] \in Message
      /\ pending[1].len \in Nat /\ Len(pending[1].data) = pending[1].len
      /\ rbuf.data[1] = pending[1].len
      /\ rbuf.data[5] = pending[1].type /\ rbuf.data[9] = pending[1].pid
      /\ \A k \in 1..pending[1].len : HeaderSize + k <= Len(Arrived) =>
            Arrived[HeaderSize + k] = pending[1].data[k]
  BY <1>3, BodyWaits, Zenon
<1>5. /\ HeaderSize + recvlen \in Nat
      /\ HeaderSize + recvlen <= Len(rbuf.data)
      /\ Arrived = SubSeq(rbuf.data, 1, HeaderSize + recvlen) \o stream
      /\ Len(Arrived) = HeaderSize + recvlen + Len(stream)
      /\ \A k \in 1..(HeaderSize + recvlen) : Arrived[k] = rbuf.data[k]
      /\ rbuf.data \in Seq(Int) /\ stream \in Seq(Int) /\ Arrived \in Seq(Int)
  BY ArrivedIs, Zenon
<1> DEFINE h == HeaderSize + recvlen
           rest == SubSeq(stream, n + 1, Len(stream))
<1>6. n \in Nat /\ h + n <= Len(data) /\ h \in Nat /\ recvlen \in Nat /\ Len(data) \in Nat
  <2>1. recvlen \in Nat
    BY Sizes DEF BufferInv, RecvSide
  <2>2. n \in Nat /\ Len(data) \in Nat
    OBVIOUS
  <2>3. HeaderSize + recvlen + n <= Len(data)
    BY <1>1, <2>1, <2>2 DEF HeaderSize
  <2>4. QED
    BY <1>5, <2>1, <2>2, <2>3, Zenon
<1>7. h <= Len(rbuf.data) /\ (\A k \in 1..h : data[k] = rbuf.data[k])
      /\ (\A k \in 1..n : data[h + k] = stream[k])
      /\ Arrived = SubSeq(rbuf.data, 1, h) \o stream
  BY <1>1, <1>5, Zenon
<1> HIDE DEF h
<1>8. /\ SubSeq(data, 1, h + n) \o rest = Arrived
      /\ rest = SubSeq(Arrived, h + n + 1, Len(Arrived))
  <2> DEFINE rd == rbuf.data
  <2>1. rd \in Seq(Int) /\ More(rd, h, stream, n, data)
    BY <1>1, <1>5, <1>6, <1>7, Zenon DEF More
  <2> HIDE DEF rd
  <2>2. SameBytes(rd, h, stream, n, data)
    BY <1>5, <1>6, <2>1, ReadOn, Zenon
  <2>3. QED
    BY <1>7, <2>2, Zenon DEF rd, SameBytes
<1>9. data[1] = rbuf.data[1] /\ data[5] = rbuf.data[5] /\ data[9] = rbuf.data[9]
  <2>1. 1 \in 1..(HeaderSize + recvlen) /\ 5 \in 1..(HeaderSize + recvlen)
        /\ 9 \in 1..(HeaderSize + recvlen)
    BY <1>6 DEF HeaderSize
  <2>2. QED
    BY <1>1, <2>1, Zenon
<1>10. ASSUME recvlen + n = rbuf.data[1]
       PROVE  Seen(data) = Head(pending)
  <2> DEFINE len == pending[1].len
  <2>1. len = recvlen + n /\ len \in Nat
    BY <1>4, <1>10, Zenon
  <2>2. h = HeaderSize + recvlen
    BY DEF h
  <2>3. ASSUME NEW k \in 1..len
        PROVE  data[HeaderSize + k] = pending[1].data[k]
    <3> HIDE DEF len
    <3>1. k \in Nat /\ k <= recvlen + n /\ k >= 1 /\ Len(stream) \in Nat
      BY <1>5, <2>1
    <3>2. HeaderSize + k <= Len(Arrived)
      BY <1>1, <1>5, <1>6, <3>1 DEF HeaderSize
    <3>3. Arrived[HeaderSize + k] = pending[1].data[k]
      BY <1>4, <3>2, Zenon DEF len
    <3>4. HeaderSize + k \in 1..(h + n)
      BY <1>6, <2>2, <3>1 DEF HeaderSize
    <3>5. /\ SubSeq(data, 1, h + n) \in Seq(Int)
          /\ Len(SubSeq(data, 1, h + n)) = h + n
          /\ SubSeq(data, 1, h + n)[HeaderSize + k] = data[HeaderSize + k]
      <4>1. h + n \in Nat
        BY <1>6
      <4> DEFINE e == h + n
                 p == HeaderSize + k
      <4>2. e \in Nat /\ e <= Len(data) /\ p \in 1..e
        BY <1>6, <3>4, <4>1, Zenon
      <4> HIDE DEF e, p
      <4>3. SubSeq(data, 1, e) \in Seq(Int) /\ Len(SubSeq(data, 1, e)) = e
            /\ SubSeq(data, 1, e)[p] = data[p]
        BY <4>2
      <4>4. QED
        BY <4>3, Zenon DEF e, p
    <3>6. rest \in Seq(Int)
      BY <1>1, <1>5, <1>6
    <3>7. (SubSeq(data, 1, h + n) \o rest)[HeaderSize + k]
             = SubSeq(data, 1, h + n)[HeaderSize + k]
      <4> HIDE DEF rest
      <4>1. \A j \in 1..Len(SubSeq(data, 1, h + n)) :
               (SubSeq(data, 1, h + n) \o rest)[j] = SubSeq(data, 1, h + n)[j]
        BY <3>5, <3>6, Join, Zenon
      <4>2. QED
        BY <3>4, <3>5, <4>1, Zenon
    <3>8. QED
      BY <1>8, <3>3, <3>5, <3>7, Zenon
  <2>4. HeaderSize + len <= Len(data)
    <3> HIDE DEF len
    <3>1. QED
      BY <1>6, <2>1, <2>2 DEF HeaderSize
  <2>5. data[1] = len /\ data[5] = pending[1].type /\ data[9] = pending[1].pid
    BY <1>4, <1>9, Zenon
  <2>6. Seen(data) = pending[1]
    BY <1>4, <2>3, <2>4, <2>5, SeenIs, Zenon
  <2>7. QED
    BY <1>4, <2>6, Zenon
<1>11. QED
  BY <1>1, <1>4, <1>8, <1>9, <1>10, Zenon DEF h

\* A round that does not bring the rest of the body empties the socket, and
\* has brought at least one more piece.
LEMMA BodyShort ==
    ASSUME BufferInv, StreamInv, ~cut, rst = "body",
           NEW n \in Nat \ {0}, NEW data \in Seq(Int), BodyTaken(n, data),
           recvlen + n < rbuf.data[1]
    PROVE  \E c \in Nat : recvlen + n = c * Chunk /\ reads + 1 <= c
<1> DEFINE l == Len(Arrived)
           q == Len(pending)
<1>1. rst # "done" /\ Framing /\ Rounds
  BY Zenon DEF StreamInv
<1>2. PICK at : Framed(at, Arrived, InHand, pending)
  BY <1>1, Zenon DEF Framing
<1>3. PICK d \in Nat : recvlen = d * Chunk /\ reads <= d
  BY <1>1, Zenon DEF Rounds
<1>4. /\ pending \in Seq(Message) /\ pending # <<>>
      /\ at[2] = HeaderSize + pending[1].len
      /\ pending[1].len \in Nat /\ rbuf.data[1] = pending[1].len
  BY <1>2, BodyWaits, Zenon
<1>5. l = HeaderSize + recvlen + Len(stream) /\ stream \in Seq(Int)
  BY ArrivedIs, Zenon
<1>6. recvlen \in Nat /\ reads \in Nat
  BY Sizes DEF BufferInv, RecvSide
<1>7. n = Len(stream)
  <2>1. n = Len(stream) \/ n = rbuf.data[1] - recvlen
    BY Zenon DEF BodyTaken
  <2>2. n # rbuf.data[1] - recvlen
    BY <1>4, <1>6
  <2>3. QED
    BY <2>1, <2>2, Zenon
<1>8. l < at[2] /\ l = HeaderSize + recvlen + n
  <2>1. l = HeaderSize + recvlen + n
    BY <1>5, <1>7, Zenon
  <2> HIDE DEF l
  <2>2. QED
    BY <1>4, <1>6, <2>1 DEF HeaderSize
<1>9. q \in Nat /\ q >= 1
  BY <1>4
<1>10. /\ \A i \in 1..q : at[i] \in Nat /\ at[i] + HeaderSize <= l
       /\ at[q + 1] \in Nat
  BY <1>2, <1>4, Offsets, Zenon
<1>11. at[1] = 0 /\ (l < at[q + 1] => \E c \in Nat : l = at[q] + HeaderSize + c * Chunk)
  BY <1>2, Zenon DEF Framed
<1> HIDE DEF l, q
<1>12. q = 1
  <2>1. ASSUME q # 1 PROVE FALSE
    <3>1. 2 \in 1..q
      BY <1>9, <2>1
    <3>2. at[2] \in Nat /\ at[2] + HeaderSize <= l
      BY <1>10, <3>1, Zenon
    <3>3. l \in Nat
      BY <1>6, <1>8 DEF HeaderSize
    <3>4. QED
      BY <1>8, <3>2, <3>3 DEF HeaderSize
  <2>2. QED
    BY <2>1, Zenon
<1>13. q + 1 = 2
  BY <1>12
<1>14. PICK c \in Nat : l = 0 + HeaderSize + c * Chunk
  BY <1>8, <1>11, <1>12, <1>13, Zenon
<1>15. recvlen + n = c * Chunk
  <2> DEFINE x == c * Chunk
  <2>1. x \in Nat
    BY Sizes
  <2>2. l = HeaderSize + x
    <3> HIDE DEF x
    <3>1. l = 0 + HeaderSize + x
      BY <1>14, Zenon DEF x
    <3>2. QED
      BY <2>1, <3>1 DEF HeaderSize
  <2> HIDE DEF x
  <2>3. recvlen + n = x
    BY <1>6, <1>8, <2>1, <2>2 DEF HeaderSize
  <2>4. QED
    BY <2>3, Zenon DEF x
<1>16. c * Chunk > d * Chunk
  <2> DEFINE x == c * Chunk
             y == d * Chunk
  <2>1. x = recvlen + n /\ y = recvlen
    BY <1>3, <1>15, Zenon
  <2> HIDE DEF x, y
  <2>2. x > y
    BY <1>6, <2>1
  <2>3. QED
    BY <2>2, Zenon DEF x, y
<1>17. d + 1 <= c
  BY <1>16, MorePieces, Zenon
<1>18. reads + 1 <= c
  BY <1>3, <1>6, <1>17
<1>19. QED
  BY <1>15, <1>18, Zenon

\* The bytes of the next state, once their places are known.
LEMMA FramingNext ==
    ASSUME NEW at, Framed(at, Arrived', InHand', pending'),
           sst' # "crashed" => Whole(at, Arrived', InHand', pending')
    PROVE  Framing'
BY Zenon DEF Framing

\* A connection that is given up.
LEMMA StreamOver ==
    ASSUME rst' = "done", pending' \in Seq(Message)
    PROVE  StreamInv'
BY Zenon DEF StreamInv

LEMMA GivenUp ==
    ASSUME NEW code, GiveUp(code)
    PROVE  StreamInv'
<1>1. rst' = "done" /\ pending' = <<>>
  BY Zenon DEF GiveUp
<1>2. <<>> \in Seq(Message)
  OBVIOUS
<1>3. QED
  BY <1>1, <1>2, StreamOver, Zenon

\* A connection on which a message was cut.
LEMMA StreamCut ==
    ASSUME StreamInv, cut', pending' \in Seq(Message), UNCHANGED ropen,
           rst' # "done" => rst # "done"
    PROVE  StreamInv'
BY Zenon DEF StreamInv

\* Nothing of the stream moves.
LEMMA StreamStays ==
    ASSUME StreamInv, UNCHANGED <<rst, ropen, recvlen, reads, pending, cut, stream>>,
           rst = "body" => UNCHANGED rbuf,
           InHand' = InHand, sst' # "crashed" => sst # "crashed"
    PROVE  StreamInv'
<1>1. Arrived' = Arrived
  <2>1. CASE rst = "body"
    BY <2>1, Zenon DEF Arrived
  <2>2. CASE rst # "body"
    BY <2>2, Zenon DEF Arrived
  <2>3. QED
    BY <2>1, <2>2, Zenon
<1>2. ASSUME ~cut', rst' # "done"
      PROVE  Framing'
  <2>1. Framing
    BY <1>2, Zenon DEF StreamInv
  <2>2. PICK at : /\ Framed(at, Arrived, InHand, pending)
                  /\ sst # "crashed" => Whole(at, Arrived, InHand, pending)
    BY <2>1, Zenon DEF Framing
  <2>3. pending' = pending
    BY Zenon
  <2>4. QED
    BY <1>1, <2>2, <2>3, FramingNext, Zenon
<1>3. ASSUME ~cut', rst' = "body"
      PROVE  Rounds'
  <2>1. Rounds
    BY <1>3, Zenon DEF StreamInv
  <2>2. QED
    BY <2>1, Zenon DEF Rounds
<1>4. QED
  BY <1>2, <1>3, Zenon DEF StreamInv

\* The first state, and a new connection: no bytes and no messages.
LEMMA NoBytes == Framed([i \in 1..1 |-> 0], <<>>, <<>>, <<>>)
<1> DEFINE at == [i \in 1..1 |-> 0]
           e == <<>>
<1>1. /\ Len(e) = 0 /\ Len(e) + 1 = 1 /\ Len(e) + Len(e) = 0
      /\ at \in [1..1 -> Nat] /\ at[1] = 0
      /\ 1..0 = {}
  OBVIOUS
<1>2. \A i \in 1..1, j \in 1..1 : i <= j => at[i] <= at[j]
  OBVIOUS
<1>3. 0 <= at[1] /\ ~(0 < at[1])
  BY <1>1
<1> HIDE DEF at, e
<1>4. Framed(at, e, e, e)
  BY <1>1, <1>2, <1>3, Zenon DEF Framed
<1>5. QED
  BY <1>4, Zenon DEF at, e

\* A connection without bytes.
LEMMA StreamFresh ==
    ASSUME stream' = <<>>, pending' = <<>>, rst' = "idle", ropen', sst' = "idle"
    PROVE  StreamInv'
<1>1. Arrived' = <<>> /\ InHand' = <<>>
  <2>1. rst' # "body" /\ sst' # "body"
    BY Zenon
  <2>2. QED
    BY <2>1, Zenon DEF Arrived, InHand
<1> DEFINE at == [i \in 1..1 |-> 0]
           e == <<>>
<1>2. Len(e) + Len(e) = at[Len(e) + 1] /\ e \in Seq(Message)
  OBVIOUS
<1>3. Framed(at, e, e, e)
  BY NoBytes, Zenon
<1>4. Arrived' = e /\ InHand' = e /\ pending' = e
  BY <1>1, Zenon
<1> HIDE DEF at, e
<1>5. Framing'
  BY <1>2, <1>3, <1>4, FramingNext, Zenon DEF Whole
<1>6. rst' # "body" /\ pending' \in Seq(Message)
  BY <1>2, <1>4, Zenon
<1>7. QED
  BY <1>5, <1>6, Zenon DEF StreamInv

LEMMA StreamInit == Init => StreamInv
<1> SUFFICES ASSUME Init PROVE StreamInv
  OBVIOUS
<1>1. /\ stream = <<>> /\ pending = <<>> /\ rst = "idle" /\ ropen = TRUE /\ sst = "idle"
  BY Zenon DEF Init
<1>2. Arrived = <<>> /\ InHand = <<>>
  <2>1. rst # "body" /\ sst # "body"
    BY <1>1, Zenon
  <2>2. QED
    BY <1>1, <2>1, Zenon DEF Arrived, InHand
<1> DEFINE at == [i \in 1..1 |-> 0]
           e == <<>>
<1>3. Len(e) + Len(e) = at[Len(e) + 1] /\ e \in Seq(Message)
  OBVIOUS
<1>4. Framed(at, e, e, e)
  BY NoBytes, Zenon
<1>5. Arrived = e /\ InHand = e /\ pending = e
  BY <1>1, <1>2, Zenon
<1> HIDE DEF at, e
<1>6. Framing
  BY <1>3, <1>4, <1>5, Zenon DEF Framing, Whole
<1>7. rst # "body" /\ pending \in Seq(Message)
  BY <1>1, <1>3, <1>5, Zenon
<1>8. QED
  BY <1>1, <1>6, <1>7, Zenon DEF StreamInv

\* A message is built: nothing of it is on the connection yet.
LEMMA BuildStreams ==
    ASSUME StreamInv, NEW m \in Messages, pt_comm_build_msg(m)
    PROVE  StreamInv'
<1>1. /\ sst = "idle" /\ sst' \in {"idle", "header", "crashed"}
      /\ UNCHANGED <<rst, ropen, recvlen, reads, pending, cut, stream, rbuf>>
  BY Zenon DEF pt_comm_build_msg, receiverVars
<1>2. InHand' = InHand /\ sst # "crashed"
  BY <1>1, Zenon DEF InHand
<1>3. QED
  BY <1>1, <1>2, StreamStays, Zenon

\* A send() that is cut short, or fails.
LEMMA InterruptStreams ==
    ASSUME BufferInv, StreamInv, SendInterrupted
    PROVE  StreamInv'
<1>1. /\ UNCHANGED <<rst, ropen, recvlen, reads, pending, stream, rbuf>>
      /\ sst' = "idle" /\ cut' = (cut \/ sst = "body") /\ sst \in {"header", "body"}
  BY Zenon DEF SendInterrupted, receiverVars
<1>2. CASE sst = "body"
  <2>1. cut' /\ pending' \in Seq(Message)
    BY <1>1, <1>2, Zenon DEF StreamInv
  <2>2. QED
    BY <1>1, <2>1, StreamCut, Zenon
<1>3. CASE sst = "header" /\ ~cut
  <2>1. InHand' = InHand /\ sst # "crashed"
    BY <1>1, <1>3, Zenon DEF InHand
  <2>2. cut' = cut
    <3>1. cut = FALSE
      BY <1>3, Zenon DEF BufferInv, Flags
    <3>2. sst # "body"
      BY <1>3, Zenon
    <3>3. QED
      BY <1>1, <3>1, <3>2
  <2>3. QED
    BY <1>1, <2>1, <2>2, StreamStays, Zenon
<1>4. CASE sst = "header" /\ cut
  <2>1. cut' /\ pending' \in Seq(Message)
    BY <1>1, <1>4, Zenon DEF StreamInv
  <2>2. QED
    BY <1>1, <2>1, StreamCut, Zenon
<1>5. QED
  BY <1>1, <1>2, <1>3, <1>4, Zenon

LEMMA FailStreams ==
    ASSUME StreamInv, SendFailed
    PROVE  StreamInv'
<1>1. ~ropen /\ rst' = rst /\ pending' = pending
  BY Zenon DEF SendFailed, receiverVars
<1>2. rst' = "done" /\ pending' \in Seq(Message)
  BY <1>1, Zenon DEF StreamInv
<1>3. QED
  BY <1>2, StreamOver, Zenon

\* The sender ends: what it had not sent is lost.
LEMMA EndStreams ==
    ASSUME BufferInv, StreamInv, SenderEnds
    PROVE  StreamInv'
<1>1. /\ UNCHANGED <<rst, ropen, recvlen, reads, pending, stream, rbuf, cut>>
      /\ sst' = "crashed" \/ (sst = "idle" /\ sst' = "closed")
  BY Zenon DEF SenderEnds, receiverVars
<1>2. CASE sst = "idle" /\ sst' = "closed"
  <2>1. InHand' = InHand /\ sst # "crashed"
    BY <1>2, Zenon DEF InHand
  <2>2. QED
    BY <1>1, <2>1, StreamStays, Zenon
<1>3. CASE sst' = "crashed"
  <2>1. InHand' = <<>>
    BY <1>3, Zenon DEF InHand
  <2>2. Arrived' = Arrived /\ pending' = pending
    BY <1>1, Zenon DEF Arrived
  <2>3. ASSUME ~cut', rst' # "done" PROVE Framing'
    <3>1. Framing /\ pending \in Seq(Message)
      BY <1>1, <2>3, Zenon DEF StreamInv
    <3>2. PICK at : Framed(at, Arrived, InHand, pending)
      BY <3>1, Zenon DEF Framing
    <3>3. Arrived \in Seq(Int) /\ InHand \in Seq(Int)
      BY ArrivedIs, Zenon
    <3>4. Framed(at, Arrived, <<>>, pending)
      BY <3>1, <3>2, <3>3, FramedLost, Zenon
    <3>5. QED
      BY <1>3, <2>1, <2>2, <3>4, FramingNext, Zenon
  <2>4. ASSUME ~cut', rst' = "body" PROVE Rounds'
    <3>1. Rounds
      BY <1>1, <2>4, Zenon DEF StreamInv
    <3>2. QED
      BY <1>1, <3>1, Zenon DEF Rounds
  <2>5. pending' \in Seq(Message) /\ (rst' # "done" => ropen')
    BY <1>1, Zenon DEF StreamInv
  <2>6. QED
    BY <2>3, <2>4, <2>5, Zenon DEF StreamInv
<1>4. QED
  BY <1>1, <1>2, <1>3, Zenon

\* A new connection, and the end of the receiver.
LEMMA ReconnectStreams ==
    ASSUME Reconnect
    PROVE  StreamInv'
<1>1. stream' = <<>> /\ pending' = <<>> /\ rst' = "idle" /\ ropen' /\ sst' = "idle"
  BY Zenon DEF Reconnect
<1>2. QED
  BY <1>1, StreamFresh, Zenon

LEMMA DownStreams ==
    ASSUME RecvBodyDown \/ RecvInterrupted \/ ReceiverEnds
    PROVE  StreamInv'
<1>1. rst' = "done" /\ pending' = <<>>
  BY Zenon DEF RecvBodyDown, RecvInterrupted, ReceiverEnds, GiveUp
<1>2. <<>> \in Seq(Message)
  OBVIOUS
<1>3. QED
  BY <1>1, <1>2, StreamOver, Zenon

LEMMA NothingStreams ==
    ASSUME StreamInv, RecvNothing
    PROVE  StreamInv'
<1>1. \/ \E code : GiveUp(code)
      \/ UNCHANGED <<rst, ropen, recvlen, reads, pending>>
  BY Zenon DEF RecvNothing
<1>2. rst = "idle" /\ UNCHANGED <<stream, cut, sst, out>>
  BY Zenon DEF RecvNothing, senderVars
<1>3. InHand' = InHand
  BY <1>2, Zenon DEF InHand
<1>4. rst # "body" /\ sst' = sst
  BY <1>2, Zenon
<1>5. QED
  BY <1>1, <1>2, <1>3, <1>4, GivenUp, StreamStays, Zenon

\* What is sent goes behind what has arrived.
LEMMA ArrivedGrows ==
    ASSUME BufferInv, NEW h \in Seq(Int), stream' = stream \o h,
           UNCHANGED <<rst, rbuf, recvlen>>
    PROVE  Arrived' = Arrived \o h
<1>1. stream \in Seq(Int)
  BY ArrivedIs, Zenon
<1>2. CASE rst = "body"
  <2> DEFINE part == SubSeq(rbuf.data, 1, HeaderSize + recvlen)
  <2>1. /\ HeaderSize + recvlen \in Nat
        /\ HeaderSize + recvlen <= Len(rbuf.data)
        /\ rbuf.data \in Seq(Int)
    BY <1>2, ArrivedIs, Zenon
  <2>2. part \in Seq(Int)
    BY <2>1, Part, 1 \in Nat \ {0}
  <2>3. Arrived = part \o stream /\ Arrived' = part \o stream'
    BY <1>2, Zenon DEF Arrived
  <2> HIDE DEF part
  <2>4. part \o (stream \o h) = (part \o stream) \o h
    BY <1>1, <2>2, SMTT(40)
  <2>5. QED
    BY <2>3, <2>4, Zenon
<1>3. CASE rst # "body"
  BY <1>3, Zenon DEF Arrived
<1>4. QED
  BY <1>2, <1>3, Zenon

\* The message that is ready, and its header.
LEMMA OutgoingIs ==
    ASSUME BufferInv, sst = "header"
    PROVE  LET h == SubSeq(out, 1, HeaderSize)
               m == Outgoing
           IN /\ m \in Message /\ m.len \in Nat /\ Len(m.data) = m.len
              /\ m.data = SubSeq(out, HeaderSize + 1, Len(out))
              /\ m.len = out[1]
              /\ h \in Seq(Int) /\ Len(h) = HeaderSize
              /\ h[1] = m.len /\ h[5] = m.type /\ h[9] = m.pid
              /\ \A k \in 1..3 : h[1 + k] = Pad
<1> DEFINE h == SubSeq(out, 1, HeaderSize)
           d == SubSeq(out, HeaderSize + 1, Len(out))
           m == Outgoing
<1>1. out \in Seq(Int) /\ Ready
  BY Zenon DEF BufferInv, SendSide
<1>2. /\ out[1] \in Nat /\ Len(out) = HeaderSize + out[1]
      /\ \A k \in 1..3 : out[1 + k] = Pad
  BY <1>1, Zenon DEF Ready
<1>3. m = [len |-> out[1], type |-> out[5], pid |-> out[9], data |-> d]
  BY DEF Outgoing
<1>4. Len(out) \in Nat /\ Len(out) >= 12 /\ HeaderSize = 12
  BY <1>1, <1>2 DEF HeaderSize
<1>5. out[5] \in Int /\ out[9] \in Int /\ out[1] \in Int
  BY <1>1, <1>4
<1>6. d \in Seq(Int) /\ Len(d) = out[1]
  <2> DEFINE f == HeaderSize + 1
             l == Len(out)
             n == out[1]
  <2>1. f \in Nat \ {0} /\ l \in Int /\ l <= Len(out)
    BY <1>4
  <2>2. /\ SubSeq(out, f, l) \in Seq(Int)
        /\ Len(SubSeq(out, f, l)) = IF f <= l THEN l - f + 1 ELSE 0
    <3> HIDE DEF f, l
    <3>1. QED
      BY <1>1, <2>1, Part
  <2>3. l = HeaderSize + n /\ n \in Nat
    BY <1>2, Zenon
  <2>4. (IF f <= l THEN l - f + 1 ELSE 0) = n
    <3> HIDE DEF l, n
    <3>1. QED
      BY <2>3 DEF HeaderSize
  <2>5. d = SubSeq(out, f, l) /\ n = out[1]
    OBVIOUS
  <2> HIDE DEF d, f, l, n
  <2>6. QED
    BY <2>2, <2>4, <2>5, Zenon
<1>7. /\ h \in Seq(Int) /\ Len(h) = HeaderSize
      /\ \A k \in 1..HeaderSize : h[k] = out[k]
  <2>1. /\ SubSeq(out, 1, 12) \in Seq(Int) /\ Len(SubSeq(out, 1, 12)) = 12
        /\ \A k \in 1..12 : SubSeq(out, 1, 12)[k] = out[k]
    <3>1. 12 <= Len(out) /\ 12 \in Int /\ 1 \in Nat \ {0}
      BY <1>4
    <3>2. /\ SubSeq(out, 1, 12) \in Seq(Int)
          /\ Len(SubSeq(out, 1, 12)) = IF 1 <= 12 THEN 12 - 1 + 1 ELSE 0
          /\ \A k \in 1..(12 - 1 + 1) : SubSeq(out, 1, 12)[k] = out[1 + k - 1]
      BY <1>1, <3>1, Part
    <3>3. /\ (IF 1 <= 12 THEN 12 - 1 + 1 ELSE 0) = 12 /\ 12 - 1 + 1 = 12
          /\ \A k \in 1..12 : 1 + k - 1 = k
      OBVIOUS
    <3>4. QED
      BY <3>2, <3>3, Zenon
  <2>2. QED
    BY <1>4, <2>1, Zenon
<1> HIDE DEF h, d
<1>8. /\ m.len = out[1] /\ m.type = out[5] /\ m.pid = out[9] /\ m.data = d
      /\ m \in Message
  <2> HIDE DEF m
  <2>1. QED
    BY <1>3, <1>5, <1>6 DEF Message
<1>9. \A k \in 1..3 : 1 + k \in 1..HeaderSize
  BY <1>4
<1>10. 1 \in 1..HeaderSize /\ 5 \in 1..HeaderSize /\ 9 \in 1..HeaderSize
  BY <1>4
<1>11. \A k \in 1..3 : h[1 + k] = Pad
  BY <1>2, <1>7, <1>9, Zenon
<1>12. h[1] = m.len /\ h[5] = m.type /\ h[9] = m.pid
  BY <1>7, <1>8, <1>10, Zenon
<1>13. m.len \in Nat /\ Len(m.data) = m.len
  BY <1>2, <1>6, <1>8, Zenon
<1>14. QED
  BY <1>7, <1>8, <1>11, <1>12, <1>13, Zenon DEF h, d

\* A header is sent: a new message is pending, and its body in hand.
LEMMA HeaderStreams ==
    ASSUME BufferInv, StreamInv, SendHeader
    PROVE  StreamInv'
<1> DEFINE h == SubSeq(out, 1, HeaderSize)
           m == Outgoing
<1>1. /\ sst = "header" /\ stream' = stream \o h
      /\ out' = SubSeq(out, HeaderSize + 1, Len(out))
      /\ sst' = IF out[1] = 0 THEN "idle" ELSE "body"
      /\ pending' = Append(pending, m)
      /\ UNCHANGED <<rst, ropen, recvlen, reads, rbuf, cut>>
  BY Zenon DEF SendHeader, receiverVars
<1>2. /\ m \in Message /\ m.len \in Nat /\ Len(m.data) = m.len
      /\ m.data = SubSeq(out, HeaderSize + 1, Len(out))
      /\ m.len = out[1]
      /\ h \in Seq(Int) /\ Len(h) = HeaderSize
      /\ h[1] = m.len /\ h[5] = m.type /\ h[9] = m.pid
      /\ \A k \in 1..3 : h[1 + k] = Pad
  BY <1>1, OutgoingIs, Zenon
<1> HIDE DEF h, m
<1>3. pending \in Seq(Message)
  BY Zenon DEF StreamInv
<1>4. pending' \in Seq(Message)
  <2>1. Append(pending, m) \in Seq(Message)
    BY <1>2, <1>3
  <2>2. QED
    BY <1>1, <2>1, Zenon
<1>5. Arrived' = Arrived \o h
  BY <1>1, <1>2, ArrivedGrows, Zenon
<1>6. InHand = <<>> /\ sst # "crashed"
  BY <1>1, Zenon DEF InHand
<1>7. InHand' = m.data
  <2>1. CASE out[1] = 0
    <3>1. InHand' = <<>>
      BY <1>1, <2>1, Zenon DEF InHand
    <3>2. m.data = <<>>
      <4>1. m.data \in Seq(Int) /\ Len(m.data) = 0
        BY <1>2, <2>1 DEF Message
      <4>2. QED
        BY <4>1
    <3>3. QED
      BY <3>1, <3>2, Zenon
  <2>2. CASE out[1] # 0
    <3>1. sst' = "body"
      BY <1>1, <2>2, Zenon
    <3>2. QED
      BY <1>1, <1>2, <3>1, Zenon DEF InHand
  <2>3. QED
    BY <2>1, <2>2, Zenon
<1>8. ASSUME ~cut', rst' # "done" PROVE Framing'
  <2>1. Framing
    BY <1>1, <1>8, Zenon DEF StreamInv
  <2>2. PICK at : /\ Framed(at, Arrived, InHand, pending)
                  /\ Len(Arrived) + Len(InHand) = at[Len(pending) + 1]
    BY <1>6, <2>1, Zenon DEF Framing, Whole
  <2>3. Arrived \in Seq(Int)
    BY ArrivedIs, Zenon
  <2>4. Len(Arrived) = at[Len(pending) + 1]
    <3>1. Len(Arrived) \in Nat /\ Len(<<>>) = 0
      BY <2>3
    <3>2. Len(Arrived) + 0 = at[Len(pending) + 1]
      BY <1>6, <2>2, <3>1, Zenon
    <3>3. Len(Arrived) + 0 = Len(Arrived)
      BY <3>1
    <3>4. QED
      BY <3>2, <3>3, Zenon
  <2>5. \E at2 : /\ Framed(at2, Arrived \o h, m.data, Append(pending, m))
                 /\ Whole(at2, Arrived \o h, m.data, Append(pending, m))
    BY <1>2, <1>3, <1>6, <2>2, <2>3, <2>4, FramedNew, Zenon
  <2>6. QED
    BY <1>1, <1>5, <1>7, <2>5, FramingNext, Zenon
<1>9. ASSUME ~cut', rst' = "body" PROVE Rounds'
  <2>1. Rounds
    BY <1>1, <1>9, Zenon DEF StreamInv
  <2>2. QED
    BY <1>1, <2>1, Zenon DEF Rounds
<1>10. rst' # "done" => ropen'
  BY <1>1, Zenon DEF StreamInv
<1>11. QED
  BY <1>4, <1>8, <1>9, <1>10, Zenon DEF StreamInv

\* A piece of a body is sent.
LEMMA BodyStreams ==
    ASSUME BufferInv, StreamInv, SendBody
    PROVE  StreamInv'
<1> DEFINE n == Least(Chunk, Len(out))
           v2 == Arrived \o SubSeq(out, 1, n)
           o2 == SubSeq(out, n + 1, Len(out))
<1>1. /\ sst = "body" /\ stream' = stream \o SubSeq(out, 1, n)
      /\ out' = o2
      /\ sst' = IF out' = <<>> THEN "idle" ELSE "body"
      /\ UNCHANGED <<rst, ropen, recvlen, reads, rbuf, cut, pending>>
  BY Zenon DEF SendBody, receiverVars
<1>2. out \in Seq(Int)
  BY Zenon DEF BufferInv, SendSide
<1>3. /\ n \in Nat /\ n <= Len(out) /\ (n = Len(out) \/ n = Chunk)
      /\ SubSeq(out, 1, n) \in Seq(Int)
  <2>1. Len(out) \in Nat /\ Chunk \in Nat
    BY <1>2, Sizes
  <2>2. n \in Nat /\ n <= Len(out) /\ (n = Len(out) \/ n = Chunk)
    BY <2>1 DEF Least
  <2> HIDE DEF n
  <2>3. SubSeq(out, 1, n) \in Seq(Int)
    BY <1>2, <2>2
  <2>4. QED
    BY <2>2, <2>3, Zenon
<1> HIDE DEF n
<1>4. Arrived' = v2
  BY <1>1, <1>3, ArrivedGrows, Zenon
<1>5. InHand = out /\ InHand' = o2 /\ sst # "crashed"
  <2>1. CASE out' = <<>>
    BY <1>1, <2>1, Zenon DEF InHand
  <2>2. CASE out' # <<>>
    BY <1>1, <2>2, Zenon DEF InHand
  <2>3. QED
    BY <2>1, <2>2, Zenon
<1>6. pending \in Seq(Message) /\ pending' = pending
  BY <1>1, Zenon DEF StreamInv
<1>8. ASSUME ~cut', rst' # "done" PROVE Framing'
  <2>1. Framing
    BY <1>1, <1>8, Zenon DEF StreamInv
  <2>2. PICK at : /\ Framed(at, Arrived, out, pending)
                  /\ Whole(at, Arrived, out, pending)
    BY <1>5, <2>1, Zenon DEF Framing
  <2>3. Arrived \in Seq(Int)
    BY ArrivedIs, Zenon
  <2>4. Framed(at, v2, o2, pending) /\ Whole(at, v2, o2, pending)
    BY <1>2, <1>3, <1>6, <2>2, <2>3, FramedSent, Zenon
  <2> HIDE DEF v2, o2
  <2>5. QED
    BY <1>4, <1>5, <1>6, <2>4, FramingNext, Zenon
<1>9. ASSUME ~cut', rst' = "body" PROVE Rounds'
  <2>1. Rounds
    BY <1>1, <1>9, Zenon DEF StreamInv
  <2>2. QED
    BY <1>1, <2>1, Zenon DEF Rounds
<1>10. pending' \in Seq(Message) /\ (rst' # "done" => ropen')
  BY <1>1, <1>6, Zenon DEF StreamInv
<1>11. QED
  BY <1>8, <1>9, <1>10, Zenon DEF StreamInv

\* A message is handed over: the one behind it is the first.
LEMMA TakenStreams ==
    ASSUME BufferInv, StreamInv, rst # "done", NEW data, HandOver(data),
           UNCHANGED <<cut, sst, out>>,
           ~cut => /\ pending # <<>>
                   /\ \A at : Framed(at, Arrived, InHand, pending) =>
                         /\ at[2] <= Len(Arrived)
                         /\ stream' = SubSeq(Arrived, at[2] + 1, Len(Arrived))
    PROVE  StreamInv'
<1>1. /\ rst' = "idle" /\ UNCHANGED ropen
      /\ pending' = IF pending = <<>> THEN pending ELSE Tail(pending)
  BY Zenon DEF HandOver
<1>2. pending \in Seq(Message)
  BY Zenon DEF StreamInv
<1>3. pending' \in Seq(Message)
  <2>1. CASE pending = <<>>
    BY <1>1, <1>2, <2>1, Zenon
  <2>2. CASE pending # <<>>
    <3>1. Tail(pending) \in Seq(Message)
      BY <1>2, <2>2
    <3>2. QED
      BY <1>1, <2>2, <3>1, Zenon
  <2>3. QED
    BY <2>1, <2>2, Zenon
<1>4. rst' # "body" /\ rst' # "done"
  BY <1>1, Zenon
<1>5. ropen'
  BY <1>1, Zenon DEF StreamInv
<1>6. ASSUME ~cut' PROVE Framing'
  <2>1. Framing /\ ~cut
    BY <1>6, Zenon DEF StreamInv
  <2>2. PICK at : /\ Framed(at, Arrived, InHand, pending)
                  /\ sst # "crashed" => Whole(at, Arrived, InHand, pending)
    BY <2>1, Zenon DEF Framing
  <2>3. /\ pending # <<>> /\ at[2] <= Len(Arrived)
        /\ stream' = SubSeq(Arrived, at[2] + 1, Len(Arrived))
    BY <2>1, <2>2, Zenon
  <2>4. Arrived \in Seq(Int) /\ InHand \in Seq(Int)
    BY ArrivedIs, Zenon
  <2>5. \E at2 :
           /\ Framed(at2, SubSeq(Arrived, at[2] + 1, Len(Arrived)), InHand, Tail(pending))
           /\ Whole(at, Arrived, InHand, pending) =>
                 Whole(at2, SubSeq(Arrived, at[2] + 1, Len(Arrived)), InHand, Tail(pending))
    BY <1>2, <2>2, <2>3, <2>4, FramedTaken, Zenon
  <2>6. Arrived' = stream' /\ InHand' = InHand /\ pending' = Tail(pending)
    <3>1. InHand' = InHand
      BY Zenon DEF InHand
    <3>2. Arrived' = stream'
      BY <1>4, Zenon DEF Arrived
    <3>3. pending' = Tail(pending)
      BY <1>1, <2>3, Zenon
    <3>4. QED
      BY <3>1, <3>2, <3>3, Zenon
  <2>7. \E at2 : /\ Framed(at2, Arrived', InHand', pending')
                 /\ Whole(at, Arrived, InHand, pending) =>
                       Whole(at2, Arrived', InHand', pending')
    BY <2>3, <2>5, <2>6, Zenon
  <2>8. PICK at2 : /\ Framed(at2, Arrived', InHand', pending')
                   /\ Whole(at, Arrived, InHand, pending) =>
                         Whole(at2, Arrived', InHand', pending')
    BY <2>7, Zenon
  <2>9. sst' # "crashed" => Whole(at2, Arrived', InHand', pending')
    BY <2>2, <2>8, Zenon
  <2>10. QED
    BY <2>8, <2>9, FramingNext, Zenon
<1>7. QED
  BY <1>3, <1>4, <1>5, <1>6, Zenon DEF StreamInv

\* The bytes are the same, in the buffer and in the socket, and the loop goes on.
LEMMA LoopStreams ==
    ASSUME BufferInv, StreamInv, rst # "done", rst' = "body",
           UNCHANGED <<ropen, pending, cut, sst, out>>,
           ~cut => Arrived' = Arrived /\ Rounds'
    PROVE  StreamInv'
<1>1. InHand' = InHand
  BY Zenon DEF InHand
<1>2. rst' # "done" /\ pending' = pending /\ sst' = sst
  BY Zenon
<1>3. pending' \in Seq(Message) /\ ropen'
  BY Zenon DEF StreamInv
<1>4. ASSUME ~cut' PROVE Framing'
  <2>1. Framing /\ ~cut
    BY <1>4, Zenon DEF StreamInv
  <2>2. PICK at : /\ Framed(at, Arrived, InHand, pending)
                  /\ sst # "crashed" => Whole(at, Arrived, InHand, pending)
    BY <2>1, Zenon DEF Framing
  <2>3. QED
    BY <1>1, <1>2, <2>1, <2>2, FramingNext, Zenon
<1>5. ~cut' => Rounds'
  BY Zenon
<1>6. QED
  BY <1>2, <1>3, <1>4, <1>5, Zenon DEF StreamInv

\* A round of the loop.
LEMMA RoundStreams ==
    ASSUME BufferInv, StreamInv, RecvBody
    PROVE  StreamInv'
<1>1. rst = "body" /\ UNCHANGED <<cut, sst, out>> /\ rst # "done"
  BY Zenon DEF RecvBody, senderVars
<1>2. PICK n \in Nat \ {0}, data \in Seq(Int) : BodyTaken(n, data)
  BY RecvBodyIs, Zenon
<1>3. CASE recvlen + n = rbuf.data[1] /\ HandOver(data)
  <2>1. ASSUME ~cut
        PROVE  /\ pending # <<>>
               /\ \A at : Framed(at, Arrived, InHand, pending) =>
                     /\ at[2] <= Len(Arrived)
                     /\ stream' = SubSeq(Arrived, at[2] + 1, Len(Arrived))
    <3>1. /\ stream' = SubSeq(Arrived, HeaderSize + recvlen + n + 1, Len(Arrived))
          /\ rbuf.data[1] = pending[1].len
      BY <1>1, <1>2, <2>1, BodyMatches, Zenon
    <3>2. Framing
      BY <1>1, <2>1, Zenon DEF StreamInv
    <3>3. pending # <<>>
      <4>1. PICK at : Framed(at, Arrived, InHand, pending)
        BY <3>2, Zenon DEF Framing
      <4>2. QED
        BY <1>1, <2>1, <4>1, BodyWaits, Zenon
    <3>4. ASSUME NEW at, Framed(at, Arrived, InHand, pending)
          PROVE  /\ at[2] <= Len(Arrived)
                 /\ stream' = SubSeq(Arrived, at[2] + 1, Len(Arrived))
      <4>1. at[2] = HeaderSize + pending[1].len
        BY <1>1, <2>1, <3>4, BodyWaits, Zenon
      <4>2. recvlen \in Nat
        BY Sizes DEF BufferInv, RecvSide
      <4>3. at[2] = HeaderSize + (recvlen + n)
        BY <1>3, <3>1, <4>1, Zenon
      <4>4. HeaderSize + (recvlen + n) = HeaderSize + recvlen + n
        BY <4>2 DEF HeaderSize
      <4>5. /\ Len(Arrived) = HeaderSize + recvlen + Len(stream)
            /\ stream \in Seq(Int) /\ n <= Len(stream)
        BY <1>1, <1>2, ArrivedIs, Zenon DEF BodyTaken
      <4>6. HeaderSize + recvlen + n <= HeaderSize + recvlen + Len(stream)
        <5>1. Len(stream) \in Nat
          BY <4>5
        <5>2. QED
          BY <4>2, <4>5, <5>1 DEF HeaderSize
      <4>7. QED
        BY <3>1, <4>3, <4>4, <4>5, <4>6, Zenon
    <3>5. QED
      BY <3>3, <3>4, Zenon
  <2>2. QED
    BY <1>1, <1>3, <2>1, TakenStreams, Zenon
<1>4. CASE /\ recvlen + n < rbuf.data[1]
           /\ recvlen' = recvlen + n
           /\ reads' = reads + 1
           /\ UNCHANGED <<rst, ropen, ret, pending, got>>
  <2>1. ASSUME ~cut PROVE Arrived' = Arrived /\ Rounds'
    <3>1. SubSeq(data, 1, HeaderSize + recvlen + n) \o stream' = Arrived
      BY <1>1, <1>2, <2>1, BodyMatches, Zenon
    <3>2. \E c \in Nat : recvlen + n = c * Chunk /\ reads + 1 <= c
      BY <1>1, <1>2, <1>4, <2>1, BodyShort, Zenon
    <3>3. rbuf'.data = data
      <4>1. rbuf' = [rbuf EXCEPT !.data = data] /\ BufferOK(rbuf)
        BY <1>2, Zenon DEF BodyTaken, BufferInv, RecvSide
      <4>2. rbuf \in [size : Nat, cap : Nat, data : Seq(Int)]
        BY <4>1, Zenon DEF BufferOK
      <4>3. QED
        BY <4>1, <4>2
    <3>4. HeaderSize + recvlen + n = HeaderSize + recvlen'
      <4>1. recvlen \in Nat /\ n \in Nat
        BY Sizes DEF BufferInv, RecvSide
      <4>2. HeaderSize + recvlen + n = HeaderSize + (recvlen + n)
        BY <4>1 DEF HeaderSize
      <4>3. QED
        BY <1>4, <4>2, Zenon
    <3>5. Arrived' = SubSeq(rbuf'.data, 1, HeaderSize + recvlen') \o stream'
      <4>1. rst' = "body"
        BY <1>1, <1>4, Zenon
      <4>2. QED
        BY <4>1, Zenon DEF Arrived
    <3>6. Rounds'
      BY <1>4, <3>2, Zenon DEF Rounds
    <3>7. QED
      BY <3>1, <3>3, <3>4, <3>5, <3>6, Zenon
  <2>2. rst' = "body"
    BY <1>1, <1>4, Zenon
  <2>3. QED
    BY <1>1, <1>4, <2>1, <2>2, LoopStreams, Zenon
<1>5. CASE GiveUp("INVALID")
  BY <1>5, GivenUp, Zenon
<1>6. QED
  BY <1>2, <1>3, <1>4, <1>5, Zenon DEF BodyTaken

\* A header is read.
LEMMA RecvHeaderStreams ==
    ASSUME BufferInv, StreamInv, RecvHeader
    PROVE  StreamInv'
<1>1. rst = "idle" /\ stream # <<>> /\ UNCHANGED <<cut, sst, out>> /\ rst # "done" /\ rst # "body"
  BY Zenon DEF RecvHeader, senderVars
<1>2. HeaderOutcome /\ stream' = SubSeq(stream, Taking + 1, Len(stream))
  BY RecvHeaderIs, Zenon
<1>3. Arrived = stream /\ stream \in Seq(Int)
  BY <1>1, ArrivedIs, Zenon
<1>4. CASE Taking < HeaderSize /\ GiveUp("INVALID")
  BY <1>4, GivenUp, Zenon
<1>5. ASSUME NEW len \in Int, NEW head \in Seq(Int), HeaderTaken(len, head)
      PROVE  StreamInv'
  <2>1. CASE len = 0 /\ HandOver(head)
    <3>1. ASSUME ~cut
          PROVE  /\ pending # <<>>
                 /\ \A at : Framed(at, Arrived, InHand, pending) =>
                       /\ at[2] <= Len(Arrived)
                       /\ stream' = SubSeq(Arrived, at[2] + 1, Len(Arrived))
      <4>1. /\ pending \in Seq(Message) /\ pending # <<>>
            /\ Taking = HeaderSize /\ HeaderSize <= Len(stream)
        BY <1>1, <3>1, HeaderWaits, Zenon
      <4>2. len = pending[1].len
        BY <1>1, <1>5, <3>1, HeaderMatches, Zenon
      <4>3. ASSUME NEW at, Framed(at, Arrived, InHand, pending)
            PROVE  at[2] = HeaderSize
        <5>1. at[2] = HeaderSize + pending[1].len
          BY <1>1, <1>3, <4>1, <4>3, FirstMessage, Zenon
        <5>2. at[2] = HeaderSize + 0 /\ HeaderSize + 0 = HeaderSize
          <6>1. HeaderSize + 0 = HeaderSize
            BY DEF HeaderSize
          <6>2. QED
            BY <2>1, <4>2, <5>1, <6>1, Zenon
        <5>3. QED
          BY <5>2, Zenon
      <4>4. QED
        BY <1>2, <1>3, <4>1, <4>3, Zenon
    <3>2. QED
      BY <1>1, <2>1, <3>1, TakenStreams, Zenon
  <2>2. CASE /\ rst' = "body" /\ rbuf'.data = head
             /\ UNCHANGED <<ropen, recvlen, reads, ret, pending, got>>
    <3>1. recvlen = 0 /\ reads = 0
      BY <1>1, Zenon DEF BufferInv, RecvSide, Loop
    <3>2. ASSUME ~cut PROVE Arrived' = Arrived
      <4>1. Taking = HeaderSize /\ HeaderSize <= Len(stream)
        BY <1>1, <3>2, HeaderWaits, Zenon
      <4>2. \A k \in 1..HeaderSize : head[k] = stream[k]
        BY <1>1, <1>5, <3>2, HeaderMatches, Zenon
      <4>3. Len(head) >= HeaderSize /\ Len(head) \in Nat
        BY <1>5 DEF HeaderTaken
      <4>4. More(head, 0, stream, HeaderSize, head)
        <5>1. /\ 0 <= Len(head) /\ 0 + HeaderSize <= Len(head) /\ 1..0 = {}
          BY <4>3 DEF HeaderSize
        <5>2. \A k \in 1..HeaderSize : 0 + k = k
          BY DEF HeaderSize
        <5>3. QED
          BY <4>1, <4>2, <5>1, <5>2, Zenon DEF More
      <4>5. SameBytes(head, 0, stream, HeaderSize, head)
        <5>1. 0 \in Nat /\ HeaderSize \in Nat
          BY DEF HeaderSize
        <5>2. QED
          BY <1>3, <4>4, <5>1, ReadOn, Zenon
      <4>6. SubSeq(head, 1, 0 + HeaderSize) \o stream' = SubSeq(head, 1, 0) \o stream
        BY <1>2, <4>1, <4>5, Zenon DEF SameBytes
      <4>7. SubSeq(head, 1, 0) = <<>> /\ <<>> \o stream = stream
        BY <1>3
      <4>8. 0 + HeaderSize = HeaderSize + 0
        BY DEF HeaderSize
      <4>9. Arrived' = SubSeq(rbuf'.data, 1, HeaderSize + recvlen') \o stream'
        BY <2>2, Zenon DEF Arrived
      <4>10. Arrived' = SubSeq(head, 1, HeaderSize + 0) \o stream'
        BY <2>2, <3>1, <4>9, Zenon
      <4>11. QED
        BY <1>3, <4>6, <4>7, <4>8, <4>10, Zenon
    <3>3. Rounds'
      <4>1. 0 \in Nat /\ 0 = 0 * Chunk /\ 0 <= 0
        BY Sizes
      <4>2. recvlen' = 0 /\ reads' = 0
        BY <2>2, <3>1, Zenon
      <4>3. QED
        BY <4>1, <4>2, Zenon DEF Rounds
    <3>4. QED
      BY <1>1, <2>2, <3>2, <3>3, LoopStreams, Zenon
  <2>3. CASE \E code : GiveUp(code)
    BY <2>3, GivenUp, Zenon
  <2>4. QED
    BY <1>5, <2>1, <2>2, <2>3, Zenon DEF HeaderTaken
<1>6. QED
  BY <1>2, <1>4, <1>5, Zenon DEF HeaderOutcome

LEMMA StreamStep == BufferInv /\ StreamInv /\ [Next]_vars => StreamInv'
<1> SUFFICES ASSUME BufferInv, StreamInv, [Next]_vars PROVE StreamInv'
  OBVIOUS
<1>1. CASE UNCHANGED vars
  <2>1. /\ UNCHANGED <<rst, ropen, recvlen, reads, pending, cut, stream, rbuf, sst, out>>
    BY <1>1, Zenon DEF vars
  <2>2. InHand' = InHand
    BY <2>1, Zenon DEF InHand
  <2>3. QED
    BY <2>1, <2>2, StreamStays, Zenon
<1>2. CASE Next
  <2>1. ASSUME NEW m \in Messages, pt_comm_build_msg(m) PROVE StreamInv'
    BY <2>1, BuildStreams, Zenon
  <2>2. CASE Sending
    BY <2>2, HeaderStreams, BodyStreams, InterruptStreams, FailStreams, Zenon DEF Sending
  <2>3. CASE SenderEnds
    BY <2>3, EndStreams, Zenon
  <2>4. CASE RecvNothing
    BY <2>4, NothingStreams, Zenon
  <2>5. CASE RecvHeader
    BY <2>5, RecvHeaderStreams, Zenon
  <2>6. CASE Receiving
    BY <2>6, RoundStreams, DownStreams, Zenon DEF Receiving
  <2>7. CASE RecvInterrupted \/ ReceiverEnds
    BY <2>7, DownStreams, Zenon
  <2>8. CASE Reconnect
    BY <2>8, ReconnectStreams, Zenon
  <2>9. QED
    BY <1>2, <2>1, <2>2, <2>3, <2>4, <2>5, <2>6, <2>7, <2>8, Zenon DEF Next
<1>3. QED
  BY <1>1, <1>2, Zenon

LEMMA StreamsKept == Spec => [](BufferInv /\ StreamInv)
<1>1. BufferInv /\ StreamInv /\ [Next]_vars => (BufferInv /\ StreamInv)'
  BY BufferStep, StreamStep, Zenon
<1>2. QED
  BY BufferInit, StreamInit, <1>1, PTL DEF Spec

-----------------------------------------------------------------------------
(* What pt_comm_recv_msg rejects *)

\* The last round is over and the body is not: it has more bytes than all the
\* rounds can bring.
LEMMA TooManyPieces ==
    ASSUME BufferInv, StreamInv, ~cut, rst = "body", LastRound,
           NEW n \in Nat \ {0}, NEW data \in Seq(Int), BodyTaken(n, data),
           recvlen + n < rbuf.data[1]
    PROVE  rbuf.data[1] > MaxRecv * Chunk
<1>1. PICK c \in Nat : recvlen + n = c * Chunk /\ reads + 1 <= c
  BY BodyShort, Zenon
<1>2. reads + 1 = MaxRecv
  BY DEF LastRound
<1>3. MaxRecv <= c
  BY <1>1, <1>2, Zenon
<1>4. MaxRecv \in Nat /\ Chunk \in Nat
  BY Sizes
<1>5. MaxRecv * Chunk <= c * Chunk
  <2>1. c - MaxRecv \in Nat /\ c = MaxRecv + (c - MaxRecv)
    BY <1>3, <1>4
  <2>2. PICK e \in Nat : c = MaxRecv + e
    BY <2>1
  <2>3. c * Chunk = MaxRecv * Chunk + e * Chunk
    BY <1>4, <2>2
  <2>4. e * Chunk \in Nat /\ MaxRecv * Chunk \in Nat
    BY <1>4
  <2>5. QED
    BY <2>3, <2>4
<1> DEFINE x == MaxRecv * Chunk
           y == c * Chunk
           z == rbuf.data[1]
<1>6. x \in Nat /\ y \in Nat
  BY <1>4
<1>7. z \in Nat
  BY Sizes DEF BufferInv, RecvSide, Loop
<1>8. x <= y /\ y < z
  <2>1. recvlen + n < z
    OBVIOUS
  <2>2. QED
    BY <1>1, <1>5, <2>1, Zenon
<1> HIDE DEF x, y, z
<1>9. z > x
  BY <1>6, <1>7, <1>8
<1>10. QED
  BY <1>9, Zenon DEF x, z

\* The steps that return PT_MSG_INVALID, and what they have seen.
LEMMA InvalidCause ==
    ASSUME BufferInv, StreamInv, [Next]_vars,
           rst' = "done", ret' = "INVALID", rst # "done", ~cut
    PROVE  \/ Head(pending).len > SizeMax
           \/ Head(pending).len > MaxRecv * Chunk
<1>1. \A code : GiveUp(code) => code = "INVALID"
  BY Zenon DEF GiveUp
<1>2. ~UNCHANGED rst
  BY Zenon
<1>3. \A data : ~HandOver(data)
  BY Zenon DEF HandOver
<1>4. CASE RecvHeader
  <2>1. rst = "idle" /\ stream # <<>>
    BY <1>4, Zenon DEF RecvHeader
  <2>2. HeaderOutcome
    BY <1>4, RecvHeaderIs, Zenon
  <2>3. /\ Taking = HeaderSize /\ Head(pending) = pending[1]
        /\ pending[1].len \in Nat
    BY <2>1, HeaderWaits, Zenon
  <2>4. ~(Taking < HeaderSize)
    BY <2>3 DEF HeaderSize
  <2>5. PICK len \in Int, head \in Seq(Int) : HeaderTaken(len, head)
    BY <2>2, <2>4, Zenon DEF HeaderOutcome
  <2>6. len = pending[1].len /\ len \in Nat
    BY <2>1, <2>5, HeaderMatches, Zenon
  <2>7. "ERR_BUF" # "INVALID" /\ rst' # "body"
    OBVIOUS
  <2>8. len > SizeMax \/ len < 0
    BY <1>1, <1>3, <2>5, <2>7, Zenon DEF HeaderTaken
  <2>9. len > SizeMax
    BY <2>6, <2>8
  <2>10. QED
    BY <2>3, <2>6, <2>9, Zenon
<1>5. CASE RecvBody
  <2>1. rst = "body"
    BY <1>5, Zenon DEF RecvBody
  <2>2. PICK n \in Nat \ {0}, data \in Seq(Int) : BodyTaken(n, data)
    BY <1>5, RecvBodyIs, Zenon
  <2>3. recvlen + n < rbuf.data[1] /\ LastRound
    BY <1>2, <1>3, <2>2, Zenon DEF BodyTaken
  <2>4. rbuf.data[1] > MaxRecv * Chunk
    BY <2>1, <2>2, <2>3, TooManyPieces, Zenon
  <2>5. Framing
    BY <2>1, Zenon DEF StreamInv
  <2>6. PICK at : Framed(at, Arrived, InHand, pending)
    BY <2>5, Zenon DEF Framing
  <2>7. Head(pending) = pending[1] /\ rbuf.data[1] = pending[1].len
    BY <2>1, <2>6, BodyWaits, Zenon
  <2>8. QED
    BY <2>4, <2>7, Zenon
<1>6. CASE RecvNothing
  <2>1. \/ GiveUp("ERR_BUF") \/ GiveUp("ERR_SOCK") \/ GiveUp("PEERDOWN")
        \/ UNCHANGED rst
    BY <1>6, Zenon DEF RecvNothing
  <2>2. "ERR_BUF" # "INVALID" /\ "ERR_SOCK" # "INVALID" /\ "PEERDOWN" # "INVALID"
    OBVIOUS
  <2>3. QED
    BY <1>1, <1>2, <2>1, <2>2, Zenon
<1>7. CASE RecvBodyDown \/ RecvInterrupted
  <2>1. GiveUp("ERR_SOCK") \/ GiveUp("PEERDOWN")
    BY <1>7, Zenon DEF RecvBodyDown, RecvInterrupted
  <2>2. "ERR_SOCK" # "INVALID" /\ "PEERDOWN" # "INVALID"
    OBVIOUS
  <2>3. QED
    BY <1>1, <2>1, <2>2, Zenon
<1>8. CASE ReceiverEnds
  <2>1. ret' = "EMPTY" /\ "EMPTY" # "INVALID"
    BY <1>8 DEF ReceiverEnds
  <2>2. QED
    BY <2>1, Zenon
<1>9. CASE Reconnect
  <2>1. rst' = "idle"
    BY <1>9, Zenon DEF Reconnect
  <2>2. QED
    BY <2>1, Zenon
<1>10. CASE \/ UNCHANGED vars \/ Sending \/ SenderEnds
            \/ \E m \in Messages : pt_comm_build_msg(m)
  <2>1. UNCHANGED rst
    BY <1>10, Zenon DEF vars, Sending, SendHeader, SendBody, SendInterrupted,
       SendFailed, SenderEnds, pt_comm_build_msg, receiverVars
  <2>2. QED
    BY <1>2, <2>1, Zenon
<1>11. QED
  BY <1>4, <1>5, <1>6, <1>7, <1>8, <1>9, <1>10, Zenon DEF Next, Receiving

\* pt_comm_recv_msg returns PT_MSG_INVALID, on a connection nobody was cut
\* short on, only for a message that is longer than PT_MSG_SIZE_MAX or that
\* came in more pieces than PT_COMM_MAXRECV reads.
THEOREM InvalidIsTooLong == Spec => FitsArrives
<1>1. BufferInv /\ StreamInv /\ [Next]_vars =>
         [ (rst' = "done" /\ ret' = "INVALID" /\ rst # "done" /\ ~cut)
           => \/ Head(pending).len > SizeMax
              \/ Head(pending).len > MaxRecv * Chunk ]_vars
  BY InvalidCause, Zenon
<1>2. QED
  BY StreamsKept, <1>1, PTL DEF Spec, FitsArrives

-----------------------------------------------------------------------------
(* One direction of a connection is a Channel *)

\* Nothing that the Channel tells apart changes.
LEMMA StepStutters ==
    ASSUME UNCHANGED <<pending, got, cut>>, (rst' = "done") <=> (rst = "done")
    PROVE  UNCHANGED Promise!vars
<1>1. (~cut)' = ~cut
  BY Zenon
<1>2. (rst' # "done") = (rst # "done")
  BY Zenon
<1>3. QED
  BY <1>1, <1>2, Zenon DEF Promise!vars

LEMMA StepLoses ==
    ASSUME UNCHANGED <<got, cut>>, rst' = "done", pending' = <<>>
    PROVE  Promise!Lose
<1>1. (rst' # "done") = FALSE
  BY Zenon
<1>2. (~cut)' = ~cut
  BY Zenon
<1>3. QED
  BY <1>1, <1>2, Zenon DEF Promise!Lose

\* What is handed over is the first message pending, unless one was cut.
LEMMA StepReceives ==
    ASSUME UNCHANGED cut, rst # "done", NEW data, HandOver(data),
           ~cut => pending # <<>> /\ Seen(data) = Head(pending)
    PROVE  Promise!Receive \/ Promise!Garbled
<1>1. /\ rst' = "idle" /\ got' = Seen(data)
      /\ pending' = IF pending = <<>> THEN pending ELSE Tail(pending)
  BY Zenon DEF HandOver, Seen
<1>2. (~cut)' = ~cut
  BY Zenon
<1>3. (rst' # "done") = (rst # "done")
  BY <1>1, Zenon
<1>4. CASE cut
  BY <1>2, <1>4, Zenon DEF Promise!Garbled
<1>5. CASE ~cut
  <2>1. pending # <<>> /\ got' = Head(pending) /\ pending' = Tail(pending)
    BY <1>1, <1>5, Zenon
  <2>2. QED
    BY <1>2, <1>3, <1>5, <2>1, Zenon DEF Promise!Receive
<1>6. QED
  BY <1>4, <1>5, Zenon

\* The header of a message goes out.
LEMMA StepSends ==
    ASSUME BufferInv, StreamInv, SendHeader
    PROVE  Promise!Send
<1>1. /\ pending' = Append(pending, Outgoing)
      /\ UNCHANGED <<got, cut, rst>>
      /\ sst = "header"
  BY Zenon DEF SendHeader, receiverVars
<1>2. pending \in Seq(Message) /\ Outgoing \in Message
  BY <1>1, OutgoingIs, Zenon DEF StreamInv
<1> DEFINE m == Outgoing
<1> HIDE DEF m
<1>3. /\ Len(Append(pending, m)) = Len(pending) + 1
      /\ SubSeq(Append(pending, m), 1, Len(pending)) = pending
  <2>1. m \in Message
    BY <1>2, Zenon DEF m
  <2>2. /\ Append(pending, m) \in Seq(Message)
        /\ Len(Append(pending, m)) = Len(pending) + 1
        /\ \A i \in 1..Len(pending) : Append(pending, m)[i] = pending[i]
    BY <1>2, <2>1
  <2> DEFINE a == Append(pending, m)
             s == SubSeq(a, 1, Len(pending))
  <2> HIDE DEF a
  <2>3. /\ a \in Seq(Message) /\ Len(a) = Len(pending) + 1 /\ Len(pending) \in Nat
        /\ \A i \in 1..Len(pending) : a[i] = pending[i]
    BY <1>2, <2>2 DEF a
  <2>4. s \in Seq(Message) /\ Len(s) = Len(pending) /\ \A i \in 1..Len(pending) : s[i] = a[i]
    BY <2>3
  <2> HIDE DEF s
  <2>5. s = pending
    <3>1. \A i \in 1..Len(s) : s[i] = pending[i]
      BY <2>3, <2>4, Zenon
    <3>2. QED
      BY <1>2, <2>4, <3>1, SeqEqual, Zenon
  <2>6. QED
    BY <2>2, <2>5, Zenon DEF a, s
<1>4. (~cut)' = ~cut /\ (rst' # "done") = (rst # "done")
  BY <1>1, Zenon
<1>5. pending' = Append(pending, m)
  BY <1>1, Zenon DEF m
<1>6. QED
  BY <1>1, <1>3, <1>4, <1>5, Zenon DEF Promise!Send

\* A send() that a signal ends.
LEMMA StepGarbles ==
    ASSUME BufferInv, SendInterrupted
    PROVE  Promise!Garble \/ UNCHANGED Promise!vars
<1>1. /\ UNCHANGED <<pending, got, rst>> /\ sst \in {"header", "body"}
      /\ cut' = (cut \/ sst = "body")
  BY Zenon DEF SendInterrupted, receiverVars
<1>2. CASE cut'
  <2>1. (~cut)' = FALSE /\ (rst' # "done") = (rst # "done")
    BY <1>1, <1>2, Zenon
  <2>2. QED
    BY <1>1, <2>1, Zenon DEF Promise!Garble
<1>3. CASE ~cut'
  <2>1. ~cut /\ (rst' # "done") = (rst # "done")
    BY <1>1, <1>3, Zenon
  <2>2. (~cut)' = ~cut
    BY <1>3, <2>1, Zenon
  <2>3. QED
    BY <1>1, <2>1, <2>2, Zenon DEF Promise!vars
<1>4. QED
  BY <1>2, <1>3, Zenon

\* A new connection.
LEMMA StepReopens ==
    ASSUME Reconnect
    PROVE  Promise!Reopen
<1>1. /\ rst = "done" /\ rst' = "idle" /\ pending' = <<>> /\ cut' = FALSE /\ got' = got
  BY Zenon DEF Reconnect
<1>2. ~(rst # "done") /\ (rst' # "done") = TRUE /\ (~cut)' = TRUE
  BY <1>1, Zenon
<1>3. QED
  BY <1>1, <1>2, Zenon DEF Promise!Reopen

\* Giving up is losing what was not read.
LEMMA GiveUpLoses ==
    ASSUME UNCHANGED cut, NEW code, GiveUp(code)
    PROVE  Promise!Lose
<1>1. UNCHANGED <<got, cut>> /\ rst' = "done" /\ pending' = <<>>
  BY Zenon DEF GiveUp
<1>2. QED
  BY <1>1, StepLoses, Zenon

\* A header is read: nothing the Channel knows of, a message without a body,
\* or the end.
LEMMA StepHeader ==
    ASSUME BufferInv, StreamInv, RecvHeader
    PROVE  [Promise!Next]_(Promise!vars)
<1>1. rst = "idle" /\ stream # <<>> /\ UNCHANGED cut /\ rst # "done"
  BY Zenon DEF RecvHeader
<1>2. HeaderOutcome
  BY RecvHeaderIs, Zenon
<1>3. CASE \E code : GiveUp(code)
  BY <1>1, <1>3, GiveUpLoses, Zenon DEF Promise!Next
<1>4. ASSUME NEW len \in Int, NEW head \in Seq(Int), HeaderTaken(len, head)
      PROVE  [Promise!Next]_(Promise!vars)
  <2>1. CASE len = 0 /\ HandOver(head)
    <3>1. ASSUME ~cut PROVE pending # <<>> /\ Seen(head) = Head(pending)
      BY <1>1, <1>4, <2>1, <3>1, HeaderWaits, HeaderMatches, Zenon
    <3>2. Promise!Receive \/ Promise!Garbled
      BY <1>1, <2>1, <3>1, StepReceives, Zenon
    <3>3. QED
      BY <3>2, Zenon DEF Promise!Next
  <2>2. CASE rst' = "body" /\ UNCHANGED <<ropen, recvlen, reads, ret, pending, got>>
    <3>1. (rst' = "done") <=> (rst = "done")
      BY <1>1, <2>2, Zenon
    <3>2. QED
      BY <1>1, <2>2, <3>1, StepStutters, Zenon
  <2>3. QED
    BY <1>3, <1>4, <2>1, <2>2, Zenon DEF HeaderTaken
<1>5. QED
  BY <1>2, <1>3, <1>4, Zenon DEF HeaderOutcome

\* A round of the loop: the same.
LEMMA StepRound ==
    ASSUME BufferInv, StreamInv, RecvBody
    PROVE  [Promise!Next]_(Promise!vars)
<1>1. rst = "body" /\ UNCHANGED cut /\ rst # "done"
  BY Zenon DEF RecvBody
<1>2. PICK n \in Nat \ {0}, data \in Seq(Int) : BodyTaken(n, data)
  BY RecvBodyIs, Zenon
<1>3. CASE recvlen + n = rbuf.data[1] /\ HandOver(data)
  <2>1. ASSUME ~cut PROVE pending # <<>> /\ Seen(data) = Head(pending)
    <3>1. Seen(data) = Head(pending)
      BY <1>1, <1>2, <1>3, <2>1, BodyMatches, Zenon
    <3>2. PICK at : Framed(at, Arrived, InHand, pending)
      BY <1>1, <2>1, Zenon DEF StreamInv, Framing
    <3>3. pending # <<>>
      BY <1>1, <2>1, <3>2, BodyWaits, Zenon
    <3>4. QED
      BY <3>1, <3>3, Zenon
  <2>2. Promise!Receive \/ Promise!Garbled
    BY <1>1, <1>3, <2>1, StepReceives, Zenon
  <2>3. QED
    BY <2>2, Zenon DEF Promise!Next
<1>4. CASE UNCHANGED <<rst, ropen, ret, pending, got>>
  BY <1>1, <1>4, StepStutters, Zenon
<1>5. CASE GiveUp("INVALID")
  BY <1>1, <1>5, GiveUpLoses, Zenon DEF Promise!Next
<1>6. QED
  BY <1>2, <1>3, <1>4, <1>5, Zenon DEF BodyTaken

\* Every step is one of the Channel's, or one it does not see.
LEMMA ChannelStep ==
    ASSUME BufferInv, StreamInv, [Next]_vars
    PROVE  [Promise!Next]_(Promise!vars)
<1>1. CASE \/ UNCHANGED vars \/ SendBody \/ SendFailed \/ SenderEnds
           \/ \E m \in Messages : pt_comm_build_msg(m)
  <2>1. UNCHANGED <<pending, got, cut, rst>>
    BY <1>1, Zenon DEF vars, SendBody, SendFailed, SenderEnds,
       pt_comm_build_msg, receiverVars
  <2>2. QED
    BY <2>1, StepStutters, Zenon
<1>2. CASE SendHeader
  BY <1>2, StepSends, Zenon DEF Promise!Next
<1>3. CASE SendInterrupted
  BY <1>3, StepGarbles, Zenon DEF Promise!Next
<1>4. CASE RecvNothing
  <2>1. \/ \E code : GiveUp(code)
        \/ UNCHANGED <<rst, pending, got>>
    BY <1>4, Zenon DEF RecvNothing
  <2>2. UNCHANGED cut
    BY <1>4, Zenon DEF RecvNothing
  <2>3. QED
    BY <2>1, <2>2, GiveUpLoses, StepStutters, Zenon DEF Promise!Next
<1>5. CASE RecvHeader
  BY <1>5, StepHeader, Zenon
<1>6. CASE RecvBody
  BY <1>6, StepRound, Zenon
<1>7. CASE RecvBodyDown \/ RecvInterrupted
  <2>1. (\E code : GiveUp(code)) /\ UNCHANGED cut
    BY <1>7, Zenon DEF RecvBodyDown, RecvInterrupted
  <2>2. QED
    BY <2>1, GiveUpLoses, Zenon DEF Promise!Next
<1>8. CASE ReceiverEnds
  <2>1. UNCHANGED <<got, cut>> /\ rst' = "done" /\ pending' = <<>>
    BY <1>8, Zenon DEF ReceiverEnds
  <2>2. QED
    BY <2>1, StepLoses, Zenon DEF Promise!Next
<1>9. CASE Reconnect
  BY <1>9, StepReopens, Zenon DEF Promise!Next
<1>10. QED
  BY <1>1, <1>2, <1>3, <1>4, <1>5, <1>6, <1>7, <1>8, <1>9, Zenon
     DEF Next, Sending, Receiving

LEMMA ChannelInit == Init => Promise!Init
<1> SUFFICES ASSUME Init PROVE Promise!Init
  OBVIOUS
<1>1. pending = <<>> /\ got = NoMessage /\ cut = FALSE /\ rst = "idle"
  BY Zenon DEF Init
<1>2. ~cut = TRUE /\ (rst # "done") = TRUE
  BY <1>1, Zenon
<1>3. QED
  BY <1>1, <1>2, Zenon DEF Promise!Init

\* One direction of a connection implements the Channel: on a connection that
\* nobody was cut short on, what pt_comm_recv_msg hands over is what
\* pt_comm_send_msg sent, whole, in order and once, for every set of messages,
\* every size of the pieces the kernel takes from a send() and of the socket's
\* buffer, and wherever either process ends.
THEOREM WireIsChannel == Spec => ImplementsChannel
<1>1. BufferInv /\ StreamInv /\ [Next]_vars => [Promise!Next]_(Promise!vars)
  BY ChannelStep, Zenon
<1>2. QED
  BY StreamsKept, ChannelInit, <1>1, PTL DEF Spec, ImplementsChannel, Promise!Spec
=============================================================================
