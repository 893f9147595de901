----------------------------- MODULE MCTransfer -----------------------------
(***************************************************************************)
(* A small Transfer: one call of every shape that frame_build tells apart. *)
(***************************************************************************)
EXTENDS Transfer

Long(n) == [type |-> "LONG", str |-> <<>>, num |-> n, ref |-> <<>>]
String(s) == [type |-> "STRING", str |-> s, num |-> 0, ref |-> <<>>]
Ref(v) == [type |-> "REFERENCE", str |-> <<>>, num |-> 0, ref |-> v]
Object == [type |-> "OBJECT", str |-> <<67>>, num |-> 3, ref |-> <<>>]
True == [type |-> "IS_TRUE", str |-> <<>>, num |-> 0, ref |-> <<>>]

UserFunc == [name |-> <<97>>, naming |-> "plain", scope |-> NULL, alias |-> NULL,
             filename |-> <<70>>, user |-> TRUE, num_args |-> 1, nvars |-> 3]
Method == [UserFunc EXCEPT !.name = <<109>>, !.scope = <<67>>]
Aliased == [Method EXCEPT !.alias = <<116>>]
Internal == [UserFunc EXCEPT !.name = <<105>>, !.user = FALSE, !.num_args = 0,
                             !.filename = NULL]
Script == [UserFunc EXCEPT !.name = NULL, !.num_args = 0, !.filename = <<71>>]

NoLine == [set |-> FALSE, call |-> FALSE, lineno |-> 0, ev |-> "none"]
Left == [set |-> TRUE, call |-> FALSE, lineno |-> 9, ev |-> "none"]
At(n) == [set |-> TRUE, call |-> TRUE, lineno |-> n, ev |-> "none"]
Including(n, ev) == [At(n) EXCEPT !.ev = ev]

Ex(func, this, args, opline) ==
    [func |-> func, this |-> this, args |-> args, opline |-> opline]

Main(opline) == Ex(Script, FALSE, <<>>, opline)

Call(stack, exit, bailout) ==
    [stack |-> stack, level |-> Len(stack), exit |-> exit, bailout |-> bailout,
     value |-> Ref(Long(5)), inc |-> 7, exc |-> 4]

Callback ==
    <<Ex(Aliased, TRUE, <<Object>>, At(8)),
      Ex(Internal, FALSE, <<True>>, Left), Main(At(4))>>

MCCalls == {
    \* the script itself, and one that it includes
    Call(<<Main(Left)>>, TRUE, TRUE),
    Call(<<Main(At(1)), Main(Including(2, "require"))>>, FALSE, FALSE),
    \* arguments at and beyond the limit, and one beyond the declared ones
    Call(<<Ex(UserFunc, FALSE, <<String(<<97, 98, 99>>), String(<<1, 98, 99, 100>>)>>, NoLine),
           Main(At(3))>>, TRUE, FALSE),
    \* a method, called by an internal function with a left over opline
    Call(Callback, FALSE, FALSE),
    \* a static method, called by a frame that the engine made up
    Call(<<Ex(Method, FALSE, <<Long(1)>>, NoLine),
           Ex(NoFunc, FALSE, <<>>, NoLine), Main(At(5))>>, TRUE, FALSE)}

Http == [sapi |-> <<102>>, path_translated |-> <<71>>, time |-> 28,
         method |-> <<80>>, uri |-> <<47, 117>>, argv |-> <<>>, mem |-> 6]
Cli == [Http EXCEPT !.method = NULL, !.uri = NULL, !.time = 0, !.mem = 0,
                    !.argv = <<<<71>>, <<>>>>]

MCServed == {[sg |-> Http, type |-> PT_FRAME_ENTRY], [sg |-> Cli, type |-> PT_FRAME_EXIT]}

MCAsked == {[sg |-> sg, stack |-> Callback] : sg \in {Http, Cli}}

MCFilters == {[type |-> PT_FILTER_CLASS_NAME, content |-> <<77, 101>>],
              [type |-> PT_FILTER_URL, content |-> [i \in 1..11 |-> 64 + i]]}

LongFilter == {[type |-> PT_FILTER_URL, content |-> [i \in 1..12 |-> 64 + i]]}
=============================================================================
