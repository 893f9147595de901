------------------------------ MODULE Transfer ------------------------------
(***************************************************************************)
(* From one side to the other: what the extension reports (Report) or the  *)
(* tool commands is packed (TypeCodec), sent and received (Wire), unpacked *)
(* from the receiver's buffer and displayed.  The direction does not       *)
(* matter to the channel, so reports and commands share one model of it.   *)
(***************************************************************************)
EXTENDS Wire, Report

CONSTANTS
    Calls,      \* calls as [stack, level, exit, bailout, value, inc, exc],
                \* reported at the entry or at the exit
    Served,     \* requests as [sg, type], sg being SG(...) and the memory in use
    Asked,      \* moments at which the status is asked for, as [sg, stack]
    Filters,    \* pt_filter_t values of the command line
    Pid         \* PTG(pid)

ASSUME CallsAssumption ==
    \A c \in Calls :
       /\ IsStack(c.stack) /\ c.stack # <<>>
       /\ IsValue(c.value)
       /\ {c.level, c.inc, c.exc} \subseteq Int

ASSUME RequestsAssumption ==
    /\ \A q \in Served : IsServed(q.sg) /\ q.type \in 0..255
    /\ \A a \in Asked : IsServed(a.sg) /\ IsStack(a.stack)

\* parse_args refuses an empty content.
ASSUME FiltersAssumption ==
    \A f \in Filters :
       /\ f = [type |-> f.type, content |-> f.content]
       /\ f.type \in 0..255
       /\ f.content \in Seq(Nat) \ {<<>>}

PT_MSG_DO_TRACE == 1
PT_MSG_DO_STATUS == 2
PT_MSG_DO_FILTER == 3
PT_MSG_FRAME == 4
PT_MSG_REQ == 5
PT_MSG_STATUS == 6

-----------------------------------------------------------------------------
(* What is sent *)

\* frame_send, request_send, status_send
frame_send(f) ==
    [type |-> PT_MSG_FRAME, len |-> pt_type_len_frame(f), pid |-> Pid,
     data |-> pt_type_pack_frame(f)]

request_send(r) ==
    [type |-> PT_MSG_REQ, len |-> pt_type_len_request(r), pid |-> Pid,
     data |-> pt_type_pack_request(r)]

status_send(s) ==
    [type |-> PT_MSG_STATUS, len |-> pt_type_len_status(s), pid |-> Pid,
     data |-> pt_type_pack_status(s)]

\* Mutant: the size of the content is taken for that of the message.
filter_send_content(f) ==
    [type |-> PT_MSG_DO_FILTER, len |-> Len(f.content), pid |-> Stale,
     data |-> pt_filter_pack_filter_msg(f)]

\* The filter of pt_send_msg; nobody sets the pid.
filter_send(f) ==
    [type |-> PT_MSG_DO_FILTER, len |-> PT_FILTER_SIZE, pid |-> Stale,
     data |-> pt_filter_pack_filter_msg(f)]

pt_comm_send_type(type) ==
    [type |-> type, len |-> 0, pid |-> Stale, data |-> <<>>]

Entry(c) == EntryFrame(c.stack, c.level)
Exit(c) == ExitFrame(Entry(c), c.bailout, c.value, c.inc, c.exc)

\* zf is NULL in a frame that the engine makes up: a status of a stack with
\* one ends the PHP process, so there is no such report.
Walkable(stack) == \A i \in DOMAIN stack : stack[i].func # NoFunc

Statuses == {status_build(a.sg, a.stack) : a \in {a \in Asked : Walkable(a.stack)}}

Requests == {request_build(q.sg, q.type) : q \in Served}

FrameOf(c) == IF c.exit THEN Exit(c) ELSE Entry(c)

Frames == {FrameOf(c) : c \in Calls}

frameMsg == [f \in Frames |-> frame_send(f)]
requestMsg == [r \in Requests |-> request_send(r)]
statusMsg == [s \in Statuses |-> status_send(s)]

AllMessages ==
    Range(frameMsg) \cup Range(requestMsg) \cup Range(statusMsg)
        \cup {filter_send(f) : f \in Filters}
        \cup {pt_comm_send_type(t) : t \in {PT_MSG_DO_TRACE, PT_MSG_DO_STATUS}}

-----------------------------------------------------------------------------
(* What is received *)

\* The receiver is about to look at the message that it was handed.
Delivered == ret = "message" /\ rst = "idle" /\ ~cut

\* g is m as it arrives: the bytes that were packed, as far as they are sent.
Carries(g, m) ==
    /\ g.type = m.type /\ g.len = m.len /\ g.pid = m.pid
    /\ \A k \in 1..Least(m.len, Len(m.data)) : g.data[k] = m.data[k]

\* It may be m that it was handed.
Is(m) == Carries(got, m)

Body == HeaderSize + 1

frameIn == pt_type_unpack_frame(rbuf.data, Body)
requestIn == pt_type_unpack_request(rbuf.data, Body)
statusIn == pt_type_unpack_status(rbuf.data, Body)
filterIn == pt_filter_unpack_filter_msg(rbuf.data, Body)

-----------------------------------------------------------------------------
(* Properties *)

\* An empty string comes out as NULL, and nothing else changes.
OrNull(s) == IF s = <<>> THEN NULL ELSE s
OrNulls(seq) == [i \in DOMAIN seq |-> OrNull(seq[i])]

NormalFrame(f) ==
    [f EXCEPT !.filename = OrNull(@), !.class = OrNull(@), !.function = OrNull(@),
              !.args = OrNulls(@), !.retval = OrNull(@)]

NormalRequest(r) ==
    [r EXCEPT !.sapi = OrNull(@), !.script = OrNull(@), !.method = OrNull(@),
              !.uri = OrNull(@), !.argv = OrNulls(@)]

NormalStatus(s) ==
    [s EXCEPT !.php_version = OrNull(@), !.request = NormalRequest(@),
              !.frames = [i \in DOMAIN @ |-> NormalFrame(@[i])]]

\* Nothing is handed over that nobody built: every message that arrives on a
\* connection that was not cut is one of those sent.
HandedOverWasSent == Delivered => \E m \in Messages : Is(m)

\* What is unpacked is what was packed, from a message whose body arrived in
\* parts, in a buffer with the bytes of earlier messages, and unpacking ends
\* where the message ends.  (Empty strings become NULL.)
RoundTrip ==
    Delivered =>
      CASE got.type = PT_MSG_FRAME ->
             LET in == frameIn
             IN \A f \in Frames : Is(frameMsg[f]) =>
                   in = [val |-> NormalFrame(f), end |-> Body + got.len]
        [] got.type = PT_MSG_REQ ->
             LET in == requestIn
             IN \A r \in Requests : Is(requestMsg[r]) =>
                   in = [val |-> NormalRequest(r), end |-> Body + got.len]
        [] got.type = PT_MSG_STATUS ->
             LET in == statusIn
             IN \A s \in Statuses : Is(statusMsg[s]) =>
                   in = [val |-> NormalStatus(s), end |-> Body + got.len]
        [] OTHER -> TRUE

\* A filter arrives as it was given on the command line, if its content fits
\* into the sizeof(pt_filter_t) bytes that are sent.
ShortFilterArrives ==
    Delivered => \A f \in Filters :
        (Is(filter_send(f)) /\ Len(pt_filter_pack_filter_msg(f)) <= PT_FILTER_SIZE) => filterIn.val = f

\* A filter arrives as it was given on the command line.
FilterArrives ==
    Delivered => \A f \in Filters : Is(filter_send(f)) => filterIn.val = f

NoneEmpty(r) ==
    <<>> \notin {r.sapi, r.script, r.method, r.uri} \cup ToSet(r.argv)

\* The tool prints of a frame or a status what the extension itself would
\* print of it (trace.dotrace), although it prints a copy.  Only a text of a
\* request that is empty (an argument, the uri) shows as if there was none.
PrintsSame ==
    Delivered =>
      /\ got.type = PT_MSG_FRAME =>
            LET shown == pt_type_display_frame(frameIn.val)
            IN \A f \in Frames : Is(frameMsg[f]) => shown = pt_type_display_frame(f)
      /\ got.type = PT_MSG_STATUS =>
            LET shown == pt_type_display_status(statusIn.val)
            IN \A s \in Statuses :
                  (Is(statusMsg[s]) /\ NoneEmpty(s.request)) =>
                      shown = pt_type_display_status(s)

\* The frame that arrived is one of call c.
IsOf(c) == got.type = PT_MSG_FRAME /\ Is(frameMsg[FrameOf(c)])

\* The text of an argument: a string in quotes, its first Limit bytes and
\* dots when there are more.
ArgText(v) ==
    CASE v.type = "STRING" /\ Len(v.str) <= Limit -> sdscatrepr(v.str)
      [] v.type = "STRING" /\ Len(v.str) > Limit ->
            sdscatrepr(SubSeq(v.str, 1, Limit)) \o Dots
      [] OTHER -> repr_zval(v)

\* The arguments that the tool shows are those that were passed, declared or
\* not, in their order.  (Of a user function that declares none, frame_build
\* looks for them among the variables.)
ShownArgs ==
    Delivered => \A c \in Calls :
        LET ex == c.stack[1]
        IN (/\ IsOf(c)
            /\ ex.func.name # NULL
            /\ ex.func.user => ex.func.num_args > 0)
           => frameIn.val.args = [i \in DOMAIN ex.args |-> ArgText(ex.args[i])]

\* Where the call was made: the innermost user code below it.
Below(stack) == IF HasPrev(stack, 1) THEN 2..Len(stack) ELSE {1}
UserBelow(stack) == {k \in Below(stack) : IsUser(stack[k])}

SiteOf(stack) == CHOOSE k \in UserBelow(stack) : \A j \in UserBelow(stack) : k <= j
CallSite(stack) == stack[SiteOf(stack)]

\* At most one frame is between a call and the code that made it, and that
\* code is at an opcode that calls, or nothing called it.
PlainSite(stack) ==
    /\ UserBelow(stack) \cap {1, 2, 3} # {}
    /\ CallSite(stack).opline.set
    /\ CallSite(stack).opline.call \/ SiteOf(stack) = Len(stack)

\* "called at [file:line]": both are those of the code that made the call,
\* when it was made through an internal function too, whose opline may be
\* NULL or left over.
ShownSite ==
    Delivered => \A c \in Calls :
        (IsOf(c) /\ PlainSite(c.stack)) =>
            pt_type_display_frame(frameIn.val).at =
                <<CallSite(c.stack).func.filename, CallSite(c.stack).opline.lineno>>
=============================================================================
