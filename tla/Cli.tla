-------------------------------- MODULE Cli --------------------------------
(***************************************************************************)
(* The command line (src/cli.c, parse_args): one step per option and per   *)
(* sub-option of a filter, in the order getopt_long and getsubopt deliver  *)
(* them.                                                                   *)
(*                                                                         *)
(* A line is [word, opts]: word is the first argument if it is not an      *)
(* option ("none" if it is one, "noargs" if there is none), opts the      *)
(* options:                                                                *)
(*   [opt |-> "p", all, num, tail]   num is what strtol reads, tail whether*)
(*   [opt |-> "l", num, tail]        characters follow the number          *)
(*   [opt |-> "f", subs]             the sub-options [tok, val]; a content *)
(*                                   is its length, -1 if it has no value  *)
(*   [opt |-> "v"], "ptrace", "h", and "?" for an unknown one              *)
(***************************************************************************)
EXTENDS Integers, Sequences, SequencesExt

CONSTANTS Lines,          \* the command lines in the picture
          Owner,          \* what kill() finds, and whose it is: "mine", "other"
          PidMax,         \* PT_PID_MAX (4194304)
          IntWidth,       \* bits of an int (32)
          LongMax,        \* the largest long
          MaxFilter       \* MAX_FILTER_LENGTH (256)

\* (That powers of two are positive numbers is beyond the provers.)
ASSUME CliAssumption ==
    /\ IntWidth \in Nat /\ IntWidth > 5
    /\ 2^IntWidth \in Nat \ {0} /\ 2^(IntWidth - 1) \in Nat
    /\ 2^(IntWidth - 4) \in Nat /\ 2^(IntWidth - 4) > 2
    /\ PidMax \in Nat /\ PidMax < 2^(IntWidth - 1)
    /\ LongMax \in Nat /\ MaxFilter \in Nat
    /\ \A p \in DOMAIN Owner : Owner[p] \in {"mine", "other"}

\* What a command line is.
ASSUME LinesAssumption ==
    \A l \in Lines :
        /\ Len(l.opts) \in Nat /\ DOMAIN l.opts = 1..Len(l.opts)
        /\ l.word = "noargs" => Len(l.opts) = 0
        /\ \A i \in DOMAIN l.opts :
             LET o == l.opts[i]
             IN /\ o.opt \in {"p", "l"} => o.num \in Int
                /\ o.opt = "f" =>
                     /\ Len(o.subs) \in Nat /\ DOMAIN o.subs = 1..Len(o.subs)
                     /\ \A j \in DOMAIN o.subs :
                          o.subs[j].tok = "content" => o.subs[j].val \in Nat \cup {-1}

VARIABLES
    line,       \* the command line
    next,       \* the option getopt_long delivers next, or is at
    sub,        \* the sub-option of a filter that getsubopt delivers next
    clictx,     \* what main() and the commands use
    limit,      \* the local of parse_args
    errno,
    ppc         \* "parse", "parsed", "rejected", "usage", "segv"

cliVars == <<line, next, sub, clictx, limit, errno, ppc>>

PT_PID_INVALID == -1
PT_PID_ALL == -2^(IntWidth - 4) + 1        \* (int) 0xF0000001
PT_LIMIT_UNLIMITED == -1
EPERM == 1
ERANGE == 34
\* A content whose string has moved away from under it.
Dangling == -2

FilterName == [url |-> "url", function |-> "function", class |-> "class"]

(* What the line gives in the first place. *)
Command(word) ==
    CASE word \in {"trace", "version", "status"} -> word
      [] word \in {"none", "noargs"} -> "unknown"
      [] OTHER -> "invalid"

context_init ==
    [command |-> "unknown", verbose |-> 0, pid |-> PT_PID_INVALID,
     ptrace |-> FALSE, type |-> "empty", content |-> 0, room |-> 0,
     frame |-> PT_LIMIT_UNLIMITED, request |-> PT_LIMIT_UNLIMITED]

CliTypeOK ==
    /\ line \in Lines /\ next \in 1..(Len(line.opts) + 1) /\ sub \in Nat \ {0}
    /\ ppc \in {"parse", "parsed", "rejected", "usage", "segv"}
    /\ errno \in {0, EPERM, ERANGE}
    /\ clictx.pid \in 0..PidMax \cup {PT_PID_INVALID, PT_PID_ALL} \/ ppc = "rejected"
    /\ \A n \in {clictx.frame, clictx.request} : n >= PT_LIMIT_UNLIMITED /\ n # 0

CliInit ==
    /\ line \in Lines
    /\ next = 1 /\ sub = 1
    /\ clictx = [context_init EXCEPT !.command = Command(line.word)]
    /\ limit = 0
    /\ errno = 0
    /\ ppc = IF line.word = "noargs" THEN "parsed" ELSE "parse"

-----------------------------------------------------------------------------
(* Numbers *)

InLong(n) == n \in (-LongMax - 1)..LongMax

\* strtol: out of range is LONG_MAX or LONG_MIN, and ERANGE.
strtol(n) ==
    IF InLong(n) THEN n ELSE IF n > 0 THEN LongMax ELSE -LongMax - 1

\* The cast to int.
ToInt(n) == ((n + 2^(IntWidth - 1)) % 2^IntWidth) - 2^(IntWidth - 1)

\* errno is not cleared before the call.
ErrnoAfter(n) == IF InLong(n) THEN errno ELSE ERANGE

\* Mutant: a negative number, that kill() takes for a group, passes.
BadPidNegative(o) == ErrnoAfter(o.num) # 0 \/ o.tail \/ ToInt(strtol(o.num)) > PidMax

BadPid(o) ==
    \/ ErrnoAfter(o.num) # 0 \/ o.tail
    \/ ToInt(strtol(o.num)) < 0 \/ ToInt(strtol(o.num)) > PidMax

\* Mutant: any number passes.
BadLimitNegative(o) == ErrnoAfter(o.num) # 0 \/ o.tail

BadLimit(o) ==
    \/ ErrnoAfter(o.num) # 0 \/ o.tail
    \/ ToInt(strtol(o.num)) < PT_LIMIT_UNLIMITED

-----------------------------------------------------------------------------
(* The options *)

At(o) ==
    /\ ppc = "parse"
    /\ next <= Len(line.opts)
    /\ o = line.opts[next]
    /\ UNCHANGED line

Option(o) == At(o) /\ next' = next + 1 /\ sub' = 1

PidAll(o) ==
    /\ Option(o) /\ o.opt = "p" /\ o.all
    /\ clictx' = [clictx EXCEPT !.pid = PT_PID_ALL]
    /\ UNCHANGED <<limit, errno, ppc>>

\* kill(pid, 0): a process of somebody else answers EPERM, which is fine but
\* stays in errno.  kill(0, 0) asks for the own group.
Pid(o) ==
    /\ Option(o) /\ o.opt = "p" /\ ~o.all
    /\ ~BadPid(o)
    /\ LET pid == ToInt(strtol(o.num))
           owner == IF pid = 0 THEN "mine"
                    ELSE IF pid \in DOMAIN Owner THEN Owner[pid] ELSE "none"
       IN /\ clictx' = [clictx EXCEPT !.pid = pid]
          /\ errno' = CASE owner = "mine" -> errno
                        [] owner = "other" -> EPERM
                        [] OTHER -> 0
          /\ ppc' = IF owner = "none" THEN "rejected" ELSE ppc
    /\ UNCHANGED limit

PidRejected(o) ==
    /\ Option(o) /\ o.opt = "p" /\ ~o.all
    /\ BadPid(o)
    /\ clictx' = [clictx EXCEPT !.pid = ToInt(strtol(o.num))]
    /\ ppc' = "rejected"
    /\ errno' = 0                   \* pt_log has printed it
    /\ UNCHANGED limit

\* pt_filter_search_filter_type: an unknown name leaves the type.
pt_filter_search_filter_type(name, type) ==
    IF name \in DOMAIN FilterName THEN FilterName[name] ELSE type

\* sdscpy(): the string may move when it grows, and the result is dropped.
sdscpy(ctx, len, moves) ==
    CASE ctx.content = Dangling -> ctx
      [] ctx.content # Dangling /\ len <= ctx.room -> [ctx EXCEPT !.content = len]
      [] ctx.content # Dangling /\ len > ctx.room /\ ~moves ->
             [ctx EXCEPT !.content = len, !.room = 2 * len]
      [] OTHER -> [ctx EXCEPT !.content = Dangling]

\* One round of the getsubopt loop.
SubOption(s) ==
    /\ \E o \in ToSet(line.opts) :
         At(o) /\ o.opt = "f" /\ sub <= Len(o.subs) /\ s = o.subs[sub]
    /\ sub' = sub + 1
    /\ UNCHANGED <<next, limit>>

FilterType(s) ==
    /\ SubOption(s) /\ s.tok = "type" /\ s.val # "NULL"
    /\ clictx' = [clictx EXCEPT !.type = pt_filter_search_filter_type(s.val, @)]
    /\ UNCHANGED <<ppc, errno>>

FilterContent(s) ==
    /\ SubOption(s) /\ s.tok = "content" /\ s.val \in 0..(MaxFilter - 2)
    /\ \E moves \in BOOLEAN : clictx' = sdscpy(clictx, s.val, moves)
    /\ UNCHANGED <<ppc, errno>>

\* strlen(NULL).
FilterNoContent(s) ==
    /\ SubOption(s) /\ s.tok = "content" /\ s.val = -1
    /\ ppc' = "segv"
    /\ UNCHANGED <<clictx, errno>>

SubRejected(s) ==
    /\ SubOption(s)
    /\ \/ s.tok = "type" /\ s.val = "NULL"
       \/ s.tok = "content" /\ s.val >= MaxFilter - 1
       \/ s.tok \notin {"type", "content"}
    /\ ppc' = "rejected"
    /\ errno' = 0
    /\ UNCHANGED clictx

\* Behind the getsubopt loop.  The length read through a dangling pointer may
\* be anything.
FilterEnds(o) ==
    /\ Option(o) /\ o.opt = "f" /\ sub > Len(o.subs)
    /\ \E zero \in BOOLEAN :
         LET empty == IF clictx.content = Dangling THEN zero ELSE clictx.content = 0
             bad == empty \/ clictx.type = "empty"
         IN /\ ppc' = IF bad THEN "rejected" ELSE ppc
            /\ errno' = IF bad THEN 0 ELSE errno
    /\ UNCHANGED <<clictx, limit>>

Filter ==
    \E o \in ToSet(line.opts) :
        /\ o.opt = "f"
        /\ \/ FilterEnds(o)
           \/ \E s \in ToSet(o.subs) :
                FilterType(s) \/ FilterContent(s) \/ FilterNoContent(s) \/ SubRejected(s)

LimitOption(o) ==
    /\ Option(o) /\ o.opt = "l"
    /\ limit' = ToInt(strtol(o.num))
    /\ errno' = IF BadLimit(o) THEN 0 ELSE errno
    /\ ppc' = IF BadLimit(o) THEN "rejected" ELSE ppc
    /\ UNCHANGED clictx

Verbose(o) ==
    /\ Option(o) /\ o.opt = "v"
    /\ clictx' = [clictx EXCEPT !.verbose = @ + 1]
    /\ UNCHANGED <<limit, errno, ppc>>

Ptrace(o) ==
    /\ Option(o) /\ o.opt = "ptrace"
    /\ clictx' = [clictx EXCEPT !.ptrace = TRUE]
    /\ UNCHANGED <<limit, errno, ppc>>

\* usage_full() and usage() exit.
Help(o) ==
    /\ Option(o) /\ o.opt \in {"h", "?"}
    /\ ppc' = "usage"
    /\ UNCHANGED <<clictx, limit, errno>>

\* Mutant: the limit of requests is used whenever there is a filter.
WithLimitAny(ctx, n) ==
    IF ctx.type # "empty" THEN [ctx EXCEPT !.request = n] ELSE [ctx EXCEPT !.frame = n]

\* -l 0 is no limit; a URL filter counts requests, everything else frames.
WithLimit(ctx, n) ==
    CASE n = 0 -> ctx
      [] n # 0 /\ ctx.type = "url" -> [ctx EXCEPT !.request = n]
      [] OTHER -> [ctx EXCEPT !.frame = n]

\* Mutant: "all" is checked before the default sub-command is known.
DefaultCommandLate(ctx) == ctx.command

DefaultCommand(ctx) ==
    IF ctx.command = "unknown" /\ ctx.pid # PT_PID_INVALID THEN "trace"
    ELSE ctx.command

\* Behind the loop.
EndOfOptions ==
    /\ ppc = "parse"
    /\ next > Len(line.opts)
    /\ LET ctx == [clictx EXCEPT !.command = DefaultCommand(clictx)]
       IN IF ctx.command # "trace" /\ ctx.pid = PT_PID_ALL
          THEN /\ ppc' = "rejected" /\ clictx' = ctx /\ errno' = 0
          ELSE /\ ppc' = "parsed" /\ clictx' = WithLimit(ctx, limit)
               /\ UNCHANGED errno
    /\ UNCHANGED <<line, next, sub, limit>>

ParseArgs ==
    \/ \E o \in ToSet(line.opts) :
         PidAll(o) \/ Pid(o) \/ PidRejected(o) \/ LimitOption(o)
           \/ Verbose(o) \/ Ptrace(o) \/ Help(o)
    \/ Filter
    \/ EndOfOptions

-----------------------------------------------------------------------------
(* What a command line means *)

\* Of the first n options, the places of those of a kind; of their filters'
\* sub-options, those that name a type and those that give a content.
Places(k, n) == {i \in 1..n : line.opts[i].opt = k}
SubPlaces(n) == UNION {{i} \X DOMAIN line.opts[i].subs : i \in Places("f", n)}
SubAt(p) == line.opts[p[1]].subs[p[2]]
Types(places) ==
    {p \in places : SubAt(p).tok = "type" /\ SubAt(p).val \in DOMAIN FilterName}
Contents(places) == {p \in places : SubAt(p).tok = "content"}

NotAfter(p, q) == p[1] < q[1] \/ (p[1] = q[1] /\ p[2] <= q[2])
LastPlace(S) == CHOOSE p \in S : \A q \in S : NotAfter(q, p)

\* The last one of a kind counts, and of numbers what an int keeps.
PidSaid(n) ==
    LET last == line.opts[Max(Places("p", n))]
    IN CASE Places("p", n) = {} -> PT_PID_INVALID
         [] Places("p", n) # {} /\ last.all -> PT_PID_ALL
         [] OTHER -> ToInt(last.num)
LimitSaid(n) ==
    IF Places("l", n) = {} THEN 0 ELSE ToInt(line.opts[Max(Places("l", n))].num)
SubSaid(places, default) ==
    IF places = {} THEN default ELSE SubAt(LastPlace(places)).val

\* No limit, and -l 0, is PT_LIMIT_UNLIMITED.
Meaning ==
    LET n == Len(line.opts)
        type == SubSaid(Types(SubPlaces(n)), "empty")
        lim == IF LimitSaid(n) = 0 THEN PT_LIMIT_UNLIMITED ELSE LimitSaid(n)
    IN [command |-> IF line.word = "none" /\ PidSaid(n) # PT_PID_INVALID
                    THEN "trace" ELSE Command(line.word),
        verbose |-> Cardinality(Places("v", n)), pid |-> PidSaid(n),
        ptrace |-> Places("ptrace", n) # {}, type |-> type,
        content |-> SubSaid(Contents(SubPlaces(n)), 0),
        frame |-> IF type = "url" THEN PT_LIMIT_UNLIMITED ELSE lim,
        request |-> IF type = "url" THEN lim ELSE PT_LIMIT_UNLIMITED]

\* The options may come in any order and may be repeated: what main() gets is
\* what the line says, the last one of a kind counting, numbers taken as ints.
\* (A content that sdscpy() has moved away is the exception, cli.c:259.)
ParsedMeaning ==
    ppc = "parsed" =>
        \A k \in DOMAIN Meaning :
            \/ clictx[k] = Meaning[k]
            \/ k = "content" /\ clictx.content = Dangling

BadSub(s) ==
    CASE s.tok = "type" -> s.val = "NULL"
      [] s.tok = "content" -> s.val >= MaxFilter - 1
      [] OTHER -> TRUE

\* The i-th option is wrong, given the filters in front of it.
BadOption(i) ==
    LET o == line.opts[i]
    IN CASE o.opt = "p" -> /\ ~o.all
                           /\ \/ o.tail \/ ~InLong(o.num)
                              \/ ToInt(o.num) \notin 0..PidMax
                              \/ ToInt(o.num) \notin DOMAIN Owner \cup {0}
         [] o.opt = "l" -> o.tail \/ ~InLong(o.num) \/ ToInt(o.num) < -1
         [] o.opt = "f" -> \/ \E j \in DOMAIN o.subs : BadSub(o.subs[j])
                           \/ SubSaid(Contents(SubPlaces(i)), 0) = 0
                           \/ Types(SubPlaces(i)) = {}
         [] OTHER -> FALSE

BadLine ==
    \/ \E i \in DOMAIN line.opts : BadOption(i)
    \/ Meaning.pid = PT_PID_ALL /\ Meaning.command # "trace"

\* A process of somebody else is named before another number.
StaleErrno ==
    \E i, j \in DOMAIN line.opts :
        /\ i < j
        /\ line.opts[i].opt = "p" /\ ~line.opts[i].all
        /\ ToInt(line.opts[i].num) \in DOMAIN Owner
        /\ Owner[ToInt(line.opts[i].num)] = "other"
        /\ line.opts[j].opt \in {"p", "l"}

\* A line is rejected because something is wrong with it, or because errno
\* still tells of the kill() for an earlier -p (cli.c:231, cli.c:275), and for
\* no other reason; a line with something wrong is never accepted.  (A content
\* that sdscpy() has moved away may be read as empty or as anything.)
RejectedForCause ==
    clictx.content # Dangling =>
        /\ ppc = "rejected" => BadLine \/ StaleErrno
        /\ ppc = "parsed" => ~BadLine
=============================================================================
