----------------------------- MODULE TypeCodec -----------------------------
(***************************************************************************)
(* The types of common/trace_type.c and common/trace_filter.c: how long a  *)
(* value is on the wire, which bytes it is packed to, what is unpacked     *)
(* from bytes, and which parts of it are displayed.                        *)
(*                                                                         *)
(* Bytes are those of module Memory.  A string is the sequence of its      *)
(* characters (codes); NULL is told from every string.  A value is a       *)
(* record with the fields of the C struct.                                 *)
(***************************************************************************)
EXTENDS Memory, Sequences, SequencesExt

NULL == <<-9>>

PT_FRAME_ENTRY == 1
PT_FRAME_EXIT == 2
PT_FRAME_STACK == 3

PT_FUNC_INTERNAL == 128
PT_FUNC_NORMAL == 1
PT_FUNC_MEMBER == 2
PT_FUNC_STATIC == 3
PT_FUNC_EVAL == 4
PT_FUNC_INCLUDE == 16
PT_FUNC_INCLUDE_ONCE == 17
PT_FUNC_REQUIRE == 18
PT_FUNC_REQUIRE_ONCE == 19

PT_FILTER_EMPTY == 1
PT_FILTER_URL == 2
PT_FILTER_FUNCTION_NAME == 4
PT_FILTER_CLASS_NAME == 8

-----------------------------------------------------------------------------
(* Numbers and strings *)

\* The numbers of a sequence, added up.
Total(lens) ==
    LET sum[k \in 0..Len(lens)] == IF k = 0 THEN 0 ELSE sum[k - 1] + lens[k]
    IN sum[Len(lens)]

SumOver(f(_), seq) == Total([i \in DOMAIN seq |-> f(seq[i])])
PackAll(f(_), seq) == FlattenSeq([i \in DOMAIN seq |-> f(seq[i])])

\* A number in w bytes; an uint8_t keeps the last 8 bits.
Packed(w, v) ==
    <<IF w = 1 THEN v % 256 ELSE v>> \o [i \in 1..(w - 1) |-> Pad]

StrLen(s) == IF s = NULL THEN 0 ELSE Len(s)

LEN_STR(s) == 4 + StrLen(s)

PACK_STR(s) == Packed(4, StrLen(s)) \o (IF s = NULL THEN <<>> ELSE s)

\* A byte of memory; what was never written is Stale.
ByteAt(buf, p) == IF p \in DOMAIN buf THEN buf[p] ELSE Stale

\* A length that is no number is left over from something else: the string
\* is taken for empty here, whatever the bytes would spell.
LenAt(buf, p) == IF ByteAt(buf, p) >= 0 THEN ByteAt(buf, p) ELSE 0

\* Mutant: an empty string is not NULL.
UNPACK_STR_Empty(buf, p) ==
    [k \in 1..LenAt(buf, p) |-> ByteAt(buf, p + 3 + k)]

UNPACK_STR(buf, p) ==
    IF LenAt(buf, p) = 0 THEN NULL
    ELSE [k \in 1..LenAt(buf, p) |-> ByteAt(buf, p + 3 + k)]

AfterStr(buf, p) == p + 4 + LenAt(buf, p)

\* n strings from position p on, and the position behind them.
UNPACK_STRS(buf, p, n) ==
    LET at[k \in 0..n] == IF k = 0 THEN p ELSE AfterStr(buf, at[k - 1])
    IN [vals |-> [k \in 1..n |-> UNPACK_STR(buf, at[k - 1])], end |-> at[n]]

-----------------------------------------------------------------------------
(* pt_frame_t *)

pt_type_len_frame(f) ==
    1 + 1 + 4
        + LEN_STR(f.filename) + LEN_STR(f.class) + LEN_STR(f.function)
        + 4 + 4 + SumOver(LEN_STR, f.args)
        + LEN_STR(f.retval) + 8 + 8

pt_type_pack_frame(f) ==
    Packed(1, f.type) \o Packed(1, f.functype) \o Packed(4, f.lineno)
        \o PACK_STR(f.filename) \o PACK_STR(f.class) \o PACK_STR(f.function)
        \o Packed(4, f.level)
        \o Packed(4, Len(f.args)) \o PackAll(PACK_STR, f.args)
        \o PACK_STR(f.retval)
        \o Packed(8, f.inc_time) \o Packed(8, f.exc_time)

\* The frame at position p, and the position behind it.
pt_type_unpack_frame(buf, p) ==
    LET names == UNPACK_STRS(buf, p + 6, 3)
        args == UNPACK_STRS(buf, names.end + 8, LenAt(buf, names.end + 4))
        times == AfterStr(buf, args.end)
    IN [val |-> [type |-> ByteAt(buf, p), functype |-> ByteAt(buf, p + 1),
                 lineno |-> ByteAt(buf, p + 2),
                 filename |-> names.vals[1], class |-> names.vals[2],
                 function |-> names.vals[3],
                 level |-> ByteAt(buf, names.end),
                 args |-> args.vals,
                 retval |-> UNPACK_STR(buf, args.end),
                 inc_time |-> ByteAt(buf, times),
                 exc_time |-> ByteAt(buf, times + 8)],
        end |-> times + 16]

-----------------------------------------------------------------------------
(* pt_request_t *)

pt_type_len_request(r) ==
    1 + LEN_STR(r.sapi) + LEN_STR(r.script) + 8
        + LEN_STR(r.method) + LEN_STR(r.uri)
        + 4 + SumOver(LEN_STR, r.argv)

pt_type_pack_request(r) ==
    Packed(1, r.type) \o PACK_STR(r.sapi) \o PACK_STR(r.script)
        \o Packed(8, r.time)
        \o PACK_STR(r.method) \o PACK_STR(r.uri)
        \o Packed(4, Len(r.argv)) \o PackAll(PACK_STR, r.argv)

\* Mutant: the method and the uri are read in the other order.
pt_type_unpack_request_swapped(buf, p) ==
    LET first == UNPACK_STRS(buf, p + 1, 2)
        second == UNPACK_STRS(buf, first.end + 8, 2)
        argv == UNPACK_STRS(buf, second.end + 4, LenAt(buf, second.end))
    IN [val |-> [type |-> ByteAt(buf, p),
                 sapi |-> first.vals[1], script |-> first.vals[2],
                 time |-> ByteAt(buf, first.end),
                 method |-> second.vals[2], uri |-> second.vals[1],
                 argv |-> argv.vals],
        end |-> argv.end]

pt_type_unpack_request(buf, p) ==
    LET first == UNPACK_STRS(buf, p + 1, 2)
        second == UNPACK_STRS(buf, first.end + 8, 2)
        argv == UNPACK_STRS(buf, second.end + 4, LenAt(buf, second.end))
    IN [val |-> [type |-> ByteAt(buf, p),
                 sapi |-> first.vals[1], script |-> first.vals[2],
                 time |-> ByteAt(buf, first.end),
                 method |-> second.vals[1], uri |-> second.vals[2],
                 argv |-> argv.vals],
        end |-> argv.end]

-----------------------------------------------------------------------------
(* pt_status_t *)

pt_type_len_status(s) ==
    LEN_STR(s.php_version) + 4 * 8
        + pt_type_len_request(s.request)
        + 4 + SumOver(pt_type_len_frame, s.frames)

pt_type_pack_status(s) ==
    PACK_STR(s.php_version)
        \o Packed(8, s.mem) \o Packed(8, s.mempeak)
        \o Packed(8, s.mem_real) \o Packed(8, s.mempeak_real)
        \o pt_type_pack_request(s.request)
        \o Packed(4, Len(s.frames)) \o PackAll(pt_type_pack_frame, s.frames)

\* n frames from position p on, and the position behind them.
UnpackFrames(buf, p, n) ==
    LET at[k \in 0..n] ==
            IF k = 0 THEN p ELSE pt_type_unpack_frame(buf, at[k - 1]).end
    IN [vals |-> [k \in 1..n |-> pt_type_unpack_frame(buf, at[k - 1]).val],
        end |-> at[n]]

pt_type_unpack_status(buf, p) ==
    LET mem == AfterStr(buf, p)
        request == pt_type_unpack_request(buf, mem + 32)
        frames == UnpackFrames(buf, request.end + 4, LenAt(buf, request.end))
    IN [val |-> [php_version |-> UNPACK_STR(buf, p),
                 mem |-> ByteAt(buf, mem), mempeak |-> ByteAt(buf, mem + 8),
                 mem_real |-> ByteAt(buf, mem + 16),
                 mempeak_real |-> ByteAt(buf, mem + 24),
                 request |-> request.val,
                 frames |-> frames.vals],
        end |-> frames.end]

-----------------------------------------------------------------------------
(* pt_filter_t *)

\* sizeof(pt_filter_t): a byte and a pointer, aligned.
PT_FILTER_SIZE == 16

pt_filter_pack_filter_msg(f) == Packed(1, f.type) \o PACK_STR(f.content)

pt_filter_unpack_filter_msg(buf, p) ==
    [val |-> [type |-> ByteAt(buf, p), content |-> UNPACK_STR(buf, p + 1)],
     end |-> AfterStr(buf, p + 1)]

-----------------------------------------------------------------------------
(* What is displayed *)

\* %s of a NULL pointer.
Shown(s) == IF s = NULL THEN <<-8>> ELSE s

\* How the function of a frame is written, after the PT_FUNC_TYPES mask.
FuncForm(functype) ==
    LET kind == functype % PT_FUNC_INTERNAL
    IN CASE kind = PT_FUNC_NORMAL \/ (kind \div PT_FUNC_INCLUDE) % 2 = 1 -> "f()"
         [] kind = PT_FUNC_MEMBER -> "c->f()"
         [] kind = PT_FUNC_STATIC -> "c::f()"
         [] kind = PT_FUNC_EVAL -> "f"
         [] OTHER -> "unknown"

pt_type_display_frame(f) ==
    LET form == FuncForm(f.functype)
        exit == f.type = PT_FRAME_EXIT
    IN [indent |-> (f.level - 1) * 4,
        form |-> form,
        function |-> IF form = "unknown" THEN <<>> ELSE Shown(f.function),
        class |-> IF form \in {"c->f()", "c::f()"} THEN Shown(f.class) ELSE <<>>,
        args |-> [i \in DOMAIN f.args |-> Shown(f.args[i])],
        retval |-> IF exit /\ f.retval # NULL THEN <<f.retval>> ELSE <<>>,
        at |-> <<Shown(f.filename), f.lineno>>,
        times |-> IF exit THEN <<f.inc_time, f.exc_time>> ELSE <<>>]

pt_type_display_request(r) ==
    [sapi |-> Shown(r.sapi),
     http |-> r.method # NULL,
     line |-> IF r.method # NULL THEN <<Shown(r.method), Shown(r.uri)>>
              ELSE [i \in DOMAIN r.argv |-> Shown(r.argv[i])]]

pt_type_display_status(s) ==
    [version |-> Shown(s.php_version),
     sapi |-> Shown(s.request.sapi), script |-> Shown(s.request.script),
     elapse |-> s.request.time # 0,
     memory |-> LET mem == <<s.mem, s.mempeak, s.mem_real, s.mempeak_real>>
                IN IF mem = <<0, 0, 0, 0>> THEN <<>> ELSE mem,
     request |-> SelectSeq(<<s.request.method, s.request.uri>>,
                           LAMBDA x : x # NULL),
     arguments |-> [i \in DOMAIN s.request.argv |-> Shown(s.request.argv[i])],
     backtrace |-> [i \in DOMAIN s.frames |->
         [pt_type_display_frame(s.frames[i]) EXCEPT !.indent = 0]]]
=============================================================================
