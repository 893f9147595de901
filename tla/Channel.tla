------------------------------ MODULE Channel ------------------------------
(***************************************************************************)
(* What one direction of the comm channel (common/trace_comm.c) promises   *)
(* to its two users: the messages handed over are the messages sent, in    *)
(* order, each once, up to a point after which the connection is closed    *)
(* and the rest is lost.                                                   *)
(*                                                                         *)
(* The promise has an end: a send() that a signal cuts short leaves half a *)
(* message on the connection, which is then not sound any more, and until  *)
(* a new connection is made anything may be handed over.                   *)
(***************************************************************************)
EXTENDS Integers, Sequences

CONSTANT NoMessage      \* nothing was handed over yet

VARIABLES
    queue,      \* the messages sent and not handed over
    got,        \* the message last handed over
    sound,      \* no message of this connection was cut
    open        \* the receiver still reads from this connection

vars == <<queue, got, sound, open>>

Init ==
    /\ queue = <<>>
    /\ got = NoMessage
    /\ sound = TRUE
    /\ open = TRUE

Send ==
    /\ Len(queue') = Len(queue) + 1
    /\ SubSeq(queue', 1, Len(queue)) = queue
    /\ UNCHANGED <<got, sound, open>>

Receive ==
    /\ open /\ sound
    /\ queue # <<>>
    /\ got' = Head(queue)
    /\ queue' = Tail(queue)
    /\ UNCHANGED <<sound, open>>

\* The receiver gives the connection up, and what it did not read is lost.
Lose ==
    /\ open' = FALSE
    /\ queue' = <<>>
    /\ UNCHANGED <<got, sound>>

Garble ==
    /\ sound' = FALSE
    /\ UNCHANGED <<queue, got, open>>

\* Nothing is promised of a connection that is not sound.
Garbled ==
    /\ ~sound /\ ~sound'
    /\ open' => open

Reopen ==
    /\ ~open
    /\ open' = TRUE
    /\ sound' = TRUE
    /\ queue' = <<>>
    /\ UNCHANGED got

Next == Send \/ Receive \/ Lose \/ Garble \/ Garbled \/ Reopen

Spec == Init /\ [][Next]_vars
=============================================================================
