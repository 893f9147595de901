------------------------------ MODULE MCLaunch ------------------------------
(***************************************************************************)
(* A small Launch.  Ints have 6 bits, longs 8, pids go up to 7: 2 is a     *)
(* process of the user, and leads group 2; 3 is one of somebody else.      *)
(***************************************************************************)
EXTENDS Launch

MCOwner == (-2 :> "mine") @@ (2 :> "mine") @@ (3 :> "other") @@ (7 :> "mine")

P(n) == [opt |-> "p", all |-> FALSE, num |-> n, tail |-> FALSE]
PTail == [P(2) EXCEPT !.tail = TRUE]
All == [P(0) EXCEPT !.all = TRUE]
L(n) == [opt |-> "l", num |-> n, tail |-> FALSE]
F(subs) == [opt |-> "f", subs |-> subs]
Type(name) == [tok |-> "type", val |-> name]
Content(len) == [tok |-> "content", val |-> len]
Other(o) == [opt |-> o]

Pids == {P(n) : n \in {-2, -1, 0, 3, 7, 8, 66, 200}} \cup {PTail, All}
Limits == {L(n) : n \in {-2, -1, 0, 5, 64, 300}}
FilterArgs == {F(<<>>), F(<<Type("url"), Content(2)>>), F(<<Content(1), Type("class")>>),
               F(<<Type("x"), Content(1)>>), F(<<Type("NULL")>>), F(<<Content(-1)>>),
               F(<<Type("function"), Content(5)>>), F(<<Content(0)>>),
               F(<<[tok |-> "?", val |-> ""]>>)}
Others == {Other(o) : o \in {"v", "ptrace", "h", "?"}}
Some == {P(2), P(3), All, L(5), F(<<Type("url"), Content(2)>>), F(<<Content(3)>>)}

\* Every option by itself and after each of Some, and every order of three.
Parsing ==
    {[word |-> w, opts |-> o] :
        w \in {"none", "version"},
        o \in {<<a>> : a \in Pids \cup Limits \cup FilterArgs \cup Others}
          \cup {<<a, b>> : a \in Some, b \in Pids \cup Limits \cup FilterArgs \cup Others}
          \cup {<<a, b, c>> : a \in Some, b \in Some, c \in Some}}

Commands ==
    {[word |-> w, opts |-> <<>>] : w \in {"noargs", "trace", "version", "bogus"}}
      \cup {[word |-> "status", opts |-> o] : o \in {<<P(2)>>, <<P(2), Other("ptrace")>>}}

MCLines == Parsing \cup Commands
StatusLines == {[word |-> "status", opts |-> <<P(2), Other("ptrace")>>]}

Func == [name |-> <<97>>, naming |-> "plain", scope |-> NULL, alias |-> NULL,
         filename |-> <<70>>, user |-> TRUE, num_args |-> 0, nvars |-> 0]
Method == [Func EXCEPT !.name = <<109>>, !.scope = <<67>>]
Script == [Func EXCEPT !.name = NULL]
Line(n) == [set |-> TRUE, call |-> TRUE, lineno |-> n, ev |-> "none"]
Ex(func, opline) == [func |-> func, this |-> FALSE, args |-> <<>>, opline |-> opline]

MCStacks == {<<Ex(Script, Line(1))>>,
             <<Ex(Method, Line(5)), Ex(Script, [Line(2) EXCEPT !.ev = "include"])>>}

MCRequests == {[sapi |-> <<102>>, path_translated |-> <<71>>, time |-> 28,
                method |-> <<80>>, uri |-> <<47>>, argv |-> <<<<71>>>>, mem |-> 6]}
=============================================================================
