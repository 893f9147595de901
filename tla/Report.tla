------------------------------- MODULE Report -------------------------------
(***************************************************************************)
(* What the extension reports (extension/trace.c, built for PHP 7): the    *)
(* frame of a call, the request, the status with its backtrace.            *)
(*                                                                         *)
(* The engine's side is a stack of zend_execute_data, innermost first, as  *)
(* records with what frame_build looks at:                                 *)
(*   func    [name, naming, scope, alias, filename, user, num_args, nvars] *)
(*           name is NULL for a script, naming is "closure", "lambda" or   *)
(*           "plain", alias the name by which a trait's method is used;    *)
(*           nvars = last_var + T                                          *)
(*   this    a member call: P7_EX_OBJ(ex)                                  *)
(*   args    the arguments passed                                          *)
(*   opline  [set, call, lineno, ev]: set unless NULL, call if it is one   *)
(*           of the opcodes that call, ev its extended_value               *)
(* A zval is [type, str, num, ref].  Text made by printf is a number that  *)
(* tells its kind, followed by what was printed.                           *)
(***************************************************************************)
EXTENDS TypeCodec

CONSTANT Limit      \* the bytes of a string that are shown (32)

ASSUME ReportAssumption == Limit \in Nat \ {0}

-----------------------------------------------------------------------------
(* Values *)

\* sdscatrepr: quotes, and control characters as \xNN.
sdscatrepr(s) ==
    <<34>> \o FlattenSeq([i \in DOMAIN s |->
                IF s[i] < 32 THEN <<92, 120, s[i], s[i]>> ELSE <<s[i]>>])
        \o <<34>>

Dots == <<46, 46, 46>>

repr_string(str) ==
    LET tlen == IF Len(str) < Limit THEN Len(str) ELSE Limit
    IN sdscatrepr(SubSeq(str, 1, tlen))
         \o (IF Len(str) > Limit THEN Dots ELSE <<>>)

\* "array(%d)" and the like.
Text == [IS_TRUE |-> 201, IS_FALSE |-> 202, IS_NULL |-> 203, LONG |-> 204,
         DOUBLE |-> 205, ARRAY |-> 206, OBJECT |-> 207, RESOURCE |-> 208,
         UNDEF |-> 209, UNKNOWN |-> 210]

\* A reference is followed; the engine never makes a reference to one.
repr_zval(zval) ==
    LET zv == IF zval.type = "REFERENCE" THEN zval.ref ELSE zval
    IN CASE zv.type = "STRING" -> repr_string(zv.str)
         [] zv.type \in {"LONG", "DOUBLE", "ARRAY"} -> <<Text[zv.type], zv.num>>
         [] zv.type \in {"OBJECT", "RESOURCE"} ->
                <<Text[zv.type]>> \o zv.str \o <<zv.num>>
         [] OTHER -> <<Text[zv.type]>>

-----------------------------------------------------------------------------
(* What the engine guarantees *)

\* func = NULL.
NoFunc == [name |-> NULL, naming |-> "none", scope |-> NULL, alias |-> NULL,
           filename |-> NULL, user |-> FALSE, num_args |-> 0, nvars |-> 0]

IsPlainValue(v) ==
    /\ v.type \in DOMAIN Text \cup {"STRING"}
    /\ v.str \in Seq(Int) /\ v.num \in Int

IsValue(v) ==
    \/ IsPlainValue(v)
    \/ v.type = "REFERENCE" /\ IsPlainValue(v.ref)

\* Nothing has an empty name, user code has a file, and the parameters of a
\* user function are among its variables.
IsFunc(f) ==
    /\ f \in [name : Seq(Int), naming : {"closure", "lambda", "plain"},
              scope : Seq(Int), alias : Seq(Int), filename : Seq(Int),
              user : BOOLEAN, num_args : Nat, nvars : Nat]
    /\ <<>> \notin {f.name, f.scope, f.alias, f.filename}
    /\ f.user => f.filename # NULL /\ f.num_args <= f.nvars

\* A frame that the engine makes up has neither a function nor an opline.
IsExecuteData(ex) ==
    /\ IsFunc(ex.func) \/ (ex.func = NoFunc /\ ~ex.opline.set)
    /\ ex.this \in BOOLEAN
    /\ ex.args \in Seq(ToSet(ex.args))
    /\ \A i \in DOMAIN ex.args : IsValue(ex.args[i])
    /\ ex.opline \in [set : BOOLEAN, call : BOOLEAN, lineno : Int, ev : STRING]

IsStack(stack) ==
    /\ stack \in Seq(ToSet(stack))
    /\ \A i \in DOMAIN stack : IsExecuteData(stack[i])

\* SG(request_info) and the rest of what request_build looks at.
IsServed(sg) ==
    /\ \A s \in {sg.sapi, sg.path_translated, sg.method, sg.uri} : s \in Seq(Int)
    /\ sg.argv \in Seq(Seq(Int))
    /\ sg.time \in Int /\ sg.mem \in Int

-----------------------------------------------------------------------------
(* Arguments *)

Undef == [type |-> "UNDEF", str |-> <<>>, num |-> 0, ref |-> <<>>]

\* Where the engine keeps the arguments: in the first slots, and those beyond
\* the declared ones of a user function behind its variables.
Slots(ex) ==
    LET f == ex.func
        n == f.num_args
    IN IF f.user /\ Len(ex.args) > n
       THEN SubSeq(ex.args, 1, n) \o [k \in 1..(f.nvars - n) |-> Undef]
                \o SubSeq(ex.args, n + 1, Len(ex.args))
       ELSE ex.args

\* Mutant: the arguments beyond the declared ones are read in place.
SlotOfPlain(ex, i) == i

\* The slot frame_build reads the i-th argument from.
SlotOf(ex, i) ==
    LET f == ex.func
    IN IF f.user /\ f.num_args # 0 /\ i > f.num_args
       THEN f.nvars + i - f.num_args ELSE i

SlotAt(ex, k) == IF k \in DOMAIN Slots(ex) THEN Slots(ex)[k] ELSE Undef

Args(ex) == [i \in DOMAIN ex.args |-> repr_zval(SlotAt(ex, SlotOf(ex, i)))]

-----------------------------------------------------------------------------
(* Frames *)

\* Scripts by the extended_value of the opline that runs them.
ScriptKinds == {"include", "include_once", "require", "require_once", "eval"}

ScriptType(ev) ==
    CASE ev = "include" -> PT_FUNC_INCLUDE
      [] ev = "include_once" -> PT_FUNC_INCLUDE_ONCE
      [] ev = "require" -> PT_FUNC_REQUIRE
      [] ev = "require_once" -> PT_FUNC_REQUIRE_ONCE
      [] ev = "eval" -> PT_FUNC_EVAL
      [] OTHER -> PT_FUNC_NORMAL

ScriptName(ev) ==
    CASE ev = "include" -> <<101>>
      [] ev = "include_once" -> <<102>>
      [] ev = "require" -> <<103>>
      [] ev = "require_once" -> <<104>>
      [] ev = "eval" -> <<105>>
      [] OTHER -> <<106>>           \* {main}

CallType(ex) ==
    CASE ex.this -> PT_FUNC_MEMBER
      [] ~ex.this /\ ex.func.scope # NULL -> PT_FUNC_STATIC
      [] OTHER -> PT_FUNC_NORMAL

FunctionName(func) ==
    CASE func.naming = "closure" -> <<110>> \o func.filename
      [] func.naming = "lambda" -> <<111>> \o func.filename
      [] func.naming = "plain" /\ func.scope # NULL /\ func.alias # NULL -> func.alias
      [] OTHER -> func.name

HasPrev(stack, c) == c < Len(stack)

\* func is NULL in the frames that the engine makes up.
IsUser(ex) == ex.func # NoFunc /\ ex.func.user

\* Mutant: an internal caller is not stepped over.
CallerPlain(stack, c) == c

\* An internal caller is stepped over, and then a caller that is not at an
\* opcode that calls.
Caller(stack, c) ==
    LET c1 == IF stack[c].opline.set /\ HasPrev(stack, c)
                    /\ stack[c].func # NoFunc /\ ~stack[c].func.user
              THEN c + 1 ELSE c
    IN IF stack[c1].opline.set /\ HasPrev(stack, c1) /\ ~stack[c1].opline.call
       THEN c1 + 1 ELSE c1

LineOf(stack, c) ==
    CASE stack[c].opline.set -> stack[c].opline.lineno
      [] /\ ~stack[c].opline.set
         /\ HasPrev(stack, c) /\ stack[c + 1].opline.set ->
             stack[c + 1].opline.lineno
      [] OTHER -> 0

FileOf(stack, c) ==
    CASE IsUser(stack[c]) -> stack[c].func.filename
      [] ~IsUser(stack[c]) /\ HasPrev(stack, c) /\ IsUser(stack[c + 1]) ->
             stack[c + 1].func.filename
      [] OTHER -> NULL

\* The frame of stack[i], called from stack[c].
frame_build(stack, i, c, internal, type, level) ==
    LET ex == stack[i]
        func == ex.func
        ev == IF stack[c].opline.set THEN stack[c].opline.ev ELSE "none"
        script == func.name = NULL
        site == Caller(stack, c)
    IN [type |-> type,
        functype |-> (IF internal THEN PT_FUNC_INTERNAL ELSE 0)
                        + (IF script THEN ScriptType(ev) ELSE CallType(ex)),
        lineno |-> LineOf(stack, site),
        filename |-> FileOf(stack, site),
        class |-> IF script THEN NULL ELSE func.scope,
        function |-> IF script THEN ScriptName(ev) ELSE FunctionName(func),
        level |-> level,
        args |-> IF ~script THEN Args(ex)
                 ELSE IF ev \in ScriptKinds \ {"eval"}
                      THEN <<sdscatrepr(func.filename)>> ELSE <<>>,
        retval |-> NULL, inc_time |-> 0, exc_time |-> 0]

\* pt_execute_core: the caller is the frame below, if there is one.
EntryFrame(stack, level) ==
    frame_build(stack, 1, IF HasPrev(stack, 1) THEN 2 ELSE 1,
                ~stack[1].func.user, PT_FRAME_ENTRY, level)

\* ... and what it makes of the same frame at the exit.
ExitFrame(frame, bailout, value, inc, exc) ==
    [frame EXCEPT !.type = PT_FRAME_EXIT,
                  !.inc_time = inc, !.exc_time = exc,
                  !.retval = IF bailout THEN NULL ELSE repr_zval(value)]

-----------------------------------------------------------------------------
(* Requests and status *)

\* (long) t * PT_USEC_PER_SEC: the cast binds first.  A second has ten ticks
\* here.
WholeSeconds(t) == (t \div 10) * 10

request_build(sg, type) ==
    [type |-> type, sapi |-> sg.sapi, script |-> sg.path_translated,
     time |-> WholeSeconds(sg.time), method |-> sg.method, uri |-> sg.uri, argv |-> sg.argv]

\* Every frame is its own caller here: line and file are where it is now.
status_build(sg, stack) ==
    [php_version |-> <<55, 46, 48>>,
     mem |-> sg.mem, mempeak |-> sg.mem, mem_real |-> sg.mem + 1,
     mempeak_real |-> sg.mem + 1,
     request |-> request_build(sg, PT_FRAME_STACK),
     frames |-> [i \in DOMAIN stack |->
                   frame_build(stack, i, i, TRUE, PT_FRAME_STACK, 1)]]
=============================================================================
