-------------------------------- MODULE Wire --------------------------------
(***************************************************************************)
(* One direction of one connection of common/trace_comm.c, byte by byte:   *)
(* the static buffer of each process (buf_prepare), the two send() calls   *)
(* of a message, the stream the kernel carries in pieces, the recv() calls *)
(* that put it together again, and what both sides do when one fails.      *)
(* Bytes are those of module Memory.                                       *)
(***************************************************************************)
EXTENDS Memory, Sequences

CONSTANTS
    Messages,   \* what is sent: records [type, len, pid, data], where len is
                \* the size passed to pt_comm_build_msg and data the bytes
                \* that are then packed into msg->data
    SizeMax,    \* PT_MSG_SIZE_MAX (1 MB)
    MaxRecv,    \* PT_COMM_MAXRECV (10): reads for one body
    MinBuf,     \* the smallest buffer that buf_prepare allocates (4096)
    Chunk,      \* bytes the kernel takes from a blocked send() at a time
    Capacity,   \* send() blocks while the stream holds this many bytes
    MaxSend     \* BOUND: messages sent

HeaderSize == 12        \* PT_MSG_HEADER_SIZE: len, type and pid, 4 bytes each

ASSUME WireAssumption ==
    /\ \A n \in {SizeMax, MaxRecv, MinBuf, Chunk, Capacity} : n \in Nat \ {0}
    /\ MaxSend \in Nat
    /\ HeaderSize <= MinBuf
    /\ \A m \in Messages :
          /\ m = [type |-> m.type, len |-> m.len, pid |-> m.pid, data |-> m.data]
          /\ m.len \in Nat /\ {m.type, m.pid} \subseteq Int
          /\ m.data \in Seq(Int)

\* What is packed into a message is no longer than what was asked for, except
\* for the content of a filter, which is at most 254 bytes of 4096.
ASSUME PackedAssumption ==
    \A m \in Messages : \/ Len(m.data) <= m.len
                        \/ HeaderSize + Len(m.data) <= MinBuf

VARIABLES
    sbuf,       \* the sender's buffer: size (buf->size), cap (the bytes that
                \* buf->data really has, 0 for NULL), data (those written)
    sst,        \* sender: "idle", "header" or "body" (which send() is next),
                \* "closed" (its end of the connection), "crashed"
    out,        \* what the sender has still to pass to send()
    stream,     \* the bytes in the socket
    rbuf,       \* the receiver's buffer
    rst,        \* receiver: "idle", "body" (in the loop), "done" (gave up)
    ropen,      \* the receiver's end is open
    recvlen,    \* bytes of the body received
    reads,      \* rounds of the loop taken
    ret,        \* what pt_comm_recv_msg returned last
    sent,       \* messages sent so far
    \* history variables
    pending,    \* the messages whose header went out, and not handed over
    got,        \* the message last handed over
    cut,        \* a message of this connection was left unfinished
    wild,       \* the buffer was written beyond its end
    oom         \* an allocation has failed

vars == <<sbuf, sst, out, stream, rbuf, rst, ropen, recvlen, reads, ret, sent,
          pending, got, cut, wild, oom>>

senderVars == <<sbuf, sst, out, sent>>
receiverVars == <<rbuf, rst, ropen, recvlen, reads, ret>>

-----------------------------------------------------------------------------
(* Bytes *)

Least(a, b) == IF a < b THEN a ELSE b
Most(a, b) == IF a < b THEN b ELSE a

PACK(w, v) == <<v>> \o [i \in 1..(w - 1) |-> Pad]

\* n bytes of memory from position i on.
Bytes(data, i, n) ==
    LET there == SubSeq(data, i, Least(i + n - 1, Len(data)))
    IN there \o [k \in 1..(n - Len(there)) |-> Stale]

\* data after bytes were written to it from position i on.
Write(data, i, bytes) ==
    Bytes(data, 1, i - 1) \o bytes
        \o SubSeq(data, i + Len(bytes), Len(data))

\* The numbers of 4 bytes that may be read at position i.  Bytes of a message
\* that was cut make up anything: the wrong sign, too much, or a small number.
Word(data, i) ==
    IF Bytes(data, i + 1, 3) = <<Pad, Pad, Pad>> THEN {data[i]}
    ELSE {-1, 1, SizeMax + 1}

Header(m) == PACK(4, m.len) \o PACK(4, m.type) \o PACK(4, m.pid)

-----------------------------------------------------------------------------
(* The buffer *)

NoBuffer == [size |-> 0, cap |-> 0, data |-> <<>>]

\* Mutant: the size asked for is compared as if it were the whole buffer.
buf_prepare_tight(b, require) ==
    IF b.size >= require - HeaderSize THEN {b}
    ELSE {[size |-> require, cap |-> require, data |-> b.data],
          [NoBuffer EXCEPT !.size = require]}

\* The possible results of buf_prepare: size is stored before the allocation,
\* and stays when the allocation fails and buf->data becomes NULL.
buf_prepare(b, require) ==
    IF b.size >= require THEN {b}
    ELSE LET size == Most(require * 2, MinBuf)
         IN {[size |-> size, cap |-> size, data |-> b.data],
             [NoBuffer EXCEPT !.size = size]}

\* buf_prepare returned -1.
Failed(b, require, nb) == b.size < require /\ nb.cap = 0
-----------------------------------------------------------------------------
(* Sending *)

\* pt_comm_build_msg and the packing of the body by its caller.  A buffer
\* that could not be allocated is NULL to the next call that finds it large
\* enough: the process dies of SIGSEGV.
pt_comm_build_msg(m) ==
    /\ sst = "idle" /\ sent < MaxSend
    /\ sent' = sent + 1
    /\ \E nb \in buf_prepare(sbuf, HeaderSize + m.len) :
          LET bytes == Header(m) \o m.data
              data == Write(nb.data, 1, bytes)
          IN \/ /\ Failed(sbuf, HeaderSize + m.len, nb)
                /\ oom' = TRUE
                /\ sbuf' = nb
                /\ UNCHANGED <<sst, out, wild>>
             \/ /\ ~Failed(sbuf, HeaderSize + m.len, nb)
                /\ nb.cap = 0
                /\ sbuf' = NoBuffer
                /\ sst' = "crashed"
                /\ wild' = TRUE
                /\ UNCHANGED <<out, oom>>
             \/ /\ nb.cap > 0
                /\ sbuf' = [nb EXCEPT !.data = data]
                /\ sst' = "header"
                /\ out' = Bytes(data, 1, HeaderSize + m.len)
                /\ wild' = (wild \/ Len(bytes) > nb.cap)
                /\ UNCHANGED oom
    /\ UNCHANGED <<stream, pending, got, cut>>
    /\ UNCHANGED receiverVars

\* The message in out as its receiver should see it.
Outgoing ==
    [len |-> out[1], type |-> out[5], pid |-> out[9],
     data |-> SubSeq(out, HeaderSize + 1, Len(out))]

Room == Len(stream) < Capacity

\* send() of the header, which the kernel takes whole.
SendHeader ==
    /\ sst = "header" /\ ropen /\ Room
    /\ stream' = stream \o SubSeq(out, 1, HeaderSize)
    /\ out' = SubSeq(out, HeaderSize + 1, Len(out))
    /\ sst' = IF out[1] = 0 THEN "idle" ELSE "body"
    /\ pending' = Append(pending, Outgoing)
    /\ UNCHANGED <<sbuf, sent, got, cut, wild, oom>>
    /\ UNCHANGED receiverVars

\* The kernel takes the next piece of the body; send() returns at the last.
SendBody ==
    /\ sst = "body" /\ ropen /\ Room
    /\ LET n == Least(Chunk, Len(out))
       IN /\ stream' = stream \o SubSeq(out, 1, n)
          /\ out' = SubSeq(out, n + 1, Len(out))
    /\ sst' = IF out' = <<>> THEN "idle" ELSE "body"
    /\ UNCHANGED <<sbuf, sent, pending, got, cut, wild, oom>>
    /\ UNCHANGED receiverVars

\* A signal ends a send() that waits for room.  In the body pt_comm_send_msg
\* has sent the header and perhaps a part already: it returns -1, or 0 since
\* the count is not looked at, and nothing sends the rest.
SendInterrupted ==
    /\ sst \in {"header", "body"} /\ ropen /\ ~Room
    /\ sst' = "idle"
    /\ out' = <<>>
    /\ cut' = (cut \/ sst = "body")
    /\ UNCHANGED <<sbuf, sent, stream, pending, got, wild, oom>>
    /\ UNCHANGED receiverVars

\* send() returns -1 once the other end is closed.
SendFailed ==
    /\ sst \in {"header", "body"} /\ ~ropen
    /\ sst' = "idle"
    /\ out' = <<>>
    /\ UNCHANGED <<sbuf, sent, stream, pending, got, cut, wild, oom>>
    /\ UNCHANGED receiverVars

\* The sender closes its end between messages, or its process dies anywhere;
\* what is in the socket stays readable.
SenderEnds ==
    /\ sst \notin {"closed", "crashed"}
    /\ \/ sst = "idle" /\ sst' = "closed" /\ sbuf' = sbuf
       \/ sst' = "crashed" /\ sbuf' = NoBuffer
    /\ out' = <<>>
    /\ UNCHANGED <<sent, stream, pending, got, cut, wild, oom>>
    /\ UNCHANGED receiverVars

\* Mutant: the end of a sender is not told from silence.
SenderUpAlways == TRUE

SenderUp == sst \notin {"closed", "crashed"}

-----------------------------------------------------------------------------
(* Receiving *)

\* pt_comm_recv_msg returns one of the codes on which both of its users leave
\* the connection.  The end is closed, except by a PHP process that connects
\* again in handle_error and keeps the old descriptor.
GiveUp(code) ==
    /\ ret' = code
    /\ rst' = "done"
    /\ ropen' \in BOOLEAN
    /\ recvlen' = 0 /\ reads' = 0
    /\ pending' = <<>>
    /\ UNCHANGED got

\* pt_comm_recv_msg returns the type of the message in its buffer.
HandOver(data) ==
    LET m == [len |-> data[1], type |-> data[5], pid |-> data[9],
              data |-> Bytes(data, HeaderSize + 1, data[1])]
    IN /\ ret' = "message"
       /\ rst' = "idle"
       /\ recvlen' = 0 /\ reads' = 0
       /\ got' = m
       /\ pending' = IF pending = <<>> THEN pending ELSE Tail(pending)
       /\ UNCHANGED ropen
\* recv() of the header finds nothing to read, or the buffer cannot be used:
\* recv() into NULL returns -1 (EFAULT).
RecvNothing ==
    /\ rst = "idle"
    /\ \E nb \in buf_prepare(rbuf, HeaderSize) :
          \/ /\ Failed(rbuf, HeaderSize, nb)
             /\ GiveUp("ERR_BUF")
             /\ rbuf' = nb
             /\ oom' = TRUE
          \/ /\ ~Failed(rbuf, HeaderSize, nb) /\ nb.cap = 0
             /\ GiveUp("ERR_SOCK")
             /\ UNCHANGED <<rbuf, oom>>
          \/ /\ nb.cap > 0 /\ stream = <<>> /\ SenderUp
             /\ ret' = "EMPTY"
             /\ rbuf' = nb
             /\ UNCHANGED <<rst, ropen, recvlen, reads, pending, got, oom>>
          \/ /\ nb.cap > 0 /\ stream = <<>> /\ ~SenderUp
             /\ \E code \in {"PEERDOWN", "ERR_SOCK"} : GiveUp(code)
             /\ rbuf' = nb
             /\ UNCHANGED oom
    /\ UNCHANGED <<stream, cut, wild>>
    /\ UNCHANGED senderVars

\* The body of len bytes is next; its buffer is made first.
PrepareBody(nb, len) ==
    \E nb2 \in buf_prepare(nb, HeaderSize + len) :
       /\ rbuf' = nb2
       /\ \/ /\ Failed(nb, HeaderSize + len, nb2)
             /\ GiveUp("ERR_BUF")
             /\ oom' = TRUE
          \/ /\ nb2.cap > 0
             /\ rst' = "body"
             /\ UNCHANGED <<ropen, recvlen, reads, ret, pending, got, oom>>

\* recv() of the header and the checks on it.
RecvHeader ==
    /\ rst = "idle" /\ stream # <<>>
    /\ \E nb \in buf_prepare(rbuf, HeaderSize) :
          LET n == Least(HeaderSize, Len(stream))
              data == Write(nb.data, 1, SubSeq(stream, 1, n))
          IN /\ nb.cap > 0
             /\ stream' = SubSeq(stream, n + 1, Len(stream))
             /\ \/ /\ n < HeaderSize
                   /\ GiveUp("INVALID")
                   /\ rbuf' = [nb EXCEPT !.data = data]
                   /\ UNCHANGED oom
                \/ /\ n = HeaderSize
                   /\ \E len \in Word(data, 1) :
                         LET head == Write(data, 1, PACK(4, len))
                             lb == [nb EXCEPT !.data = head]
                         IN \/ /\ len > SizeMax \/ len < 0
                               /\ GiveUp("INVALID")
                               /\ rbuf' = lb
                               /\ UNCHANGED oom
                            \/ /\ len = 0
                               /\ HandOver(head)
                               /\ rbuf' = lb
                               /\ UNCHANGED oom
                            \/ /\ len \in 1..SizeMax
                               /\ PrepareBody(lb, len)
    /\ UNCHANGED <<cut, wild>>
    /\ UNCHANGED senderVars

\* Mutant: every part of the body is written to its start.
BodyPlaceFixed == HeaderSize + 1

\* msg->data + recvlen, as a position in the buffer.
BodyPlace == HeaderSize + 1 + recvlen

\* Mutant: the reads are not counted.
LastRoundNever == FALSE

\* Mutant: one read too few.
LastRoundEarly == reads + 2 = MaxRecv

LastRound == reads + 1 = MaxRecv

\* One round of the loop that receives the body; recv() takes what is there.
RecvBody ==
    /\ rst = "body" /\ stream # <<>>
    /\ LET len == rbuf.data[1]
           n == Least(Len(stream), len - recvlen)
           data == Write(rbuf.data, BodyPlace, SubSeq(stream, 1, n))
       IN /\ stream' = SubSeq(stream, n + 1, Len(stream))
          /\ rbuf' = [rbuf EXCEPT !.data = data]
          /\ wild' = (wild \/ BodyPlace + n - 1 > rbuf.cap)
          /\ \/ recvlen + n = len /\ HandOver(data)
             \/ /\ recvlen + n < len /\ ~LastRound
                /\ recvlen' = recvlen + n
                /\ reads' = reads + 1
                /\ UNCHANGED <<rst, ropen, ret, pending, got>>
             \/ /\ recvlen + n < len /\ LastRound
                /\ GiveUp("INVALID")
    /\ UNCHANGED <<cut, oom>>
    /\ UNCHANGED senderVars

\* recv() in the loop returns 0 (or -1) once the sender has gone.
RecvBodyDown ==
    /\ rst = "body" /\ stream = <<>> /\ ~SenderUp
    /\ \E code \in {"PEERDOWN", "ERR_SOCK"} : GiveUp(code)
    /\ UNCHANGED <<rbuf, stream, cut, wild, oom>>
    /\ UNCHANGED senderVars

\* A signal ends a recv() in the loop that waits.
RecvInterrupted ==
    /\ rst = "body" /\ stream = <<>> /\ SenderUp
    /\ GiveUp("ERR_SOCK")
    /\ UNCHANGED <<rbuf, stream, cut, wild, oom>>
    /\ UNCHANGED senderVars

\* The receiver closes its end, or its process dies, in the middle of a
\* message too.
ReceiverEnds ==
    /\ rst # "done" \/ ropen
    /\ rst' = "done"
    /\ ropen' = FALSE
    /\ recvlen' = 0 /\ reads' = 0
    /\ rbuf' \in {rbuf, NoBuffer}
    /\ ret' = "EMPTY"
    /\ pending' = <<>>
    /\ UNCHANGED <<stream, got, cut, wild, oom>>
    /\ UNCHANGED senderVars

\* A new connection, between processes that keep their static buffers.
Reconnect ==
    /\ rst = "done" /\ sst \in {"idle", "closed", "crashed"}
    /\ sst' = "idle" /\ rst' = "idle"
    /\ ropen' = TRUE
    /\ stream' = <<>> /\ pending' = <<>>
    /\ cut' = FALSE
    /\ UNCHANGED <<sbuf, out, sent, rbuf, recvlen, reads, ret, got, wild, oom>>

-----------------------------------------------------------------------------
NoMessage == [len |-> 0, type |-> 0, pid |-> 0, data |-> <<>>]

Init ==
    /\ sbuf = NoBuffer /\ rbuf = NoBuffer
    /\ sst = "idle" /\ rst = "idle" /\ ropen = TRUE
    /\ out = <<>> /\ stream = <<>>
    /\ recvlen = 0 /\ reads = 0 /\ ret = "EMPTY" /\ sent = 0
    /\ pending = <<>> /\ got = NoMessage
    /\ cut = FALSE /\ wild = FALSE /\ oom = FALSE

Sending == SendHeader \/ SendBody \/ SendInterrupted \/ SendFailed

Receiving == RecvBody \/ RecvBodyDown

Next ==
    \/ \E m \in Messages : pt_comm_build_msg(m)
    \/ Sending
    \/ SenderEnds
    \/ RecvNothing
    \/ RecvHeader
    \/ Receiving
    \/ RecvInterrupted
    \/ ReceiverEnds
    \/ Reconnect

\* A send() that can go on does, and so does a recv() that has something to
\* return: both are in the kernel's hands.
Fairness == WF_vars(Sending) /\ WF_vars(Receiving)

Spec == Init /\ [][Next]_vars /\ Fairness

-----------------------------------------------------------------------------
(* Properties *)

TypeOK ==
    /\ \A b \in {sbuf, rbuf} :
          /\ b.size \in Nat /\ b.cap \in {0, b.size}
          /\ b.data \in Seq(Int)
    /\ sst \in {"idle", "header", "body", "closed", "crashed"}
    /\ rst \in {"idle", "body", "done"}
    /\ ropen \in BOOLEAN
    /\ out \in Seq(Int) /\ stream \in Seq(Int)
    /\ recvlen \in 0..SizeMax /\ reads \in 0..(MaxRecv - 1)
    /\ ret \in {"message", "EMPTY", "PEERDOWN", "ERR_SOCK", "ERR_BUF", "INVALID"}
    /\ sent \in 0..MaxSend
    /\ {cut, wild, oom} \subseteq BOOLEAN

\* Neither side ever writes beyond what it allocated, although the size that
\* pt_comm_build_msg is told need not be the size that is packed, unless an
\* allocation failed before: then buf->size is believed and buf->data is NULL.
InBuffer == wild => oom

\* pt_comm_recv_msg returns PT_MSG_INVALID on a connection nobody was cut
\* short on only for a message that is too long: over PT_MSG_SIZE_MAX, or
\* more pieces than it is ready to read.
FitsArrives ==
    [][ (rst' = "done" /\ ret' = "INVALID" /\ rst # "done" /\ ~cut)
        => \/ Head(pending).len > SizeMax
           \/ Head(pending).len > MaxRecv * Chunk ]_vars

\* A receiver that blocks for a body does not block for ever: the rest comes,
\* or the sender ends, unless a send() was cut short.
RecvReturns == (rst = "body") ~> (rst # "body" \/ cut)

Promise == INSTANCE Channel WITH
    queue <- pending, got <- got, sound <- ~cut, open <- (rst # "done")

\* One direction of a connection is a Channel: what pt_comm_recv_msg hands
\* over is what was sent, whole, in order and once.
ImplementsChannel == Promise!Spec
=============================================================================
