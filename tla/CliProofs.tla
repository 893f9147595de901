----------------------------- MODULE CliProofs -----------------------------
(***************************************************************************)
(* What parse_args makes of any command line: at every option, and at      *)
(* every sub-option of a filter, clictx is what the part of the line that  *)
(* has been read says, and nothing in that part is wrong.                  *)
(***************************************************************************)
EXTENDS Cli, FiniteSetTheorems, TLAPS

Contexts ==
    [command : {"trace", "version", "status", "unknown", "invalid"},
     verbose : Nat, pid : Int, ptrace : BOOLEAN,
     type : {"empty", "url", "function", "class"},
     content : Nat \cup {Dangling}, room : Nat, frame : Int, request : Int]

\* The sub-options read so far.
DoneSubs ==
    {p \in SubPlaces(Len(line.opts)) : p[1] < next \/ (p[1] = next /\ p[2] < sub)}

Reading == ppc \in {"parse", "parsed"}

\* The types, the ranges, and where the two loops are.
Shape ==
    /\ line \in Lines /\ clictx \in Contexts /\ limit \in Int
    /\ next \in 1..(Len(line.opts) + 1) /\ sub \in Nat \ {0}
    /\ ppc \in {"parse", "parsed", "rejected", "usage", "segv"}
    /\ errno \in {0, EPERM, ERANGE}
    /\ clictx.pid \in 0..PidMax \cup {PT_PID_INVALID, PT_PID_ALL} \/ ppc = "rejected"
    /\ limit >= PT_LIMIT_UNLIMITED \/ ppc = "rejected"
    /\ \A n \in {clictx.frame, clictx.request} : n >= PT_LIMIT_UNLIMITED /\ n # 0
    /\ ppc = "parse" =>
         \/ sub = 1
         \/ /\ next <= Len(line.opts) /\ line.opts[next].opt = "f"
            /\ sub <= Len(line.opts[next].subs) + 1
    /\ ppc = "parsed" => next = Len(line.opts) + 1 /\ sub = 1

\* clictx is what the part of the line that was read says.
SaidSoFar ==
    Reading =>
        /\ clictx.pid = PidSaid(next - 1)
        /\ limit = LimitSaid(next - 1)
        /\ clictx.verbose = Cardinality(Places("v", next - 1))
        /\ clictx.ptrace = (Places("ptrace", next - 1) # {})
        /\ clictx.type = SubSaid(Types(DoneSubs), "empty")
        /\ clictx.type = "empty" <=> Types(DoneSubs) = {}
        /\ clictx.content \in {Dangling, SubSaid(Contents(DoneSubs), 0)}

\* What only the end of the line settles.
Settled ==
    /\ ppc = "parse" =>
         /\ line.word # "noargs" /\ clictx.command = Command(line.word)
         /\ clictx.frame = PT_LIMIT_UNLIMITED /\ clictx.request = PT_LIMIT_UNLIMITED
    /\ ppc = "parsed" =>
         LET lim == IF limit = 0 THEN PT_LIMIT_UNLIMITED ELSE limit
         IN /\ clictx.command = IF line.word = "none" /\ clictx.pid # PT_PID_INVALID
                                THEN "trace" ELSE Command(line.word)
            /\ clictx.command = "trace" \/ clictx.pid # PT_PID_ALL
            /\ clictx.frame = IF clictx.type = "url" THEN PT_LIMIT_UNLIMITED ELSE lim
            /\ clictx.request = IF clictx.type = "url" THEN lim ELSE PT_LIMIT_UNLIMITED

\* Nothing wrong has been passed over.
GoodSoFar ==
    Reading /\ clictx.content # Dangling =>
        /\ \A i \in 1..(next - 1) : ~BadOption(i)
        /\ \A j \in 1..(sub - 1) : ~BadSub(line.opts[next].subs[j])

\* The i-th option names a process of somebody else.
OthersPid(i) ==
    LET o == line.opts[i]
    IN o.opt = "p" /\ ~o.all /\ ToInt(o.num) \in DOMAIN Owner /\ Owner[ToInt(o.num)] = "other"

\* errno is left over from the kill() of an option that was read.
ErrnoFromKill ==
    ppc = "parse" => errno = 0 \/ \E i \in 1..(next - 1) : OthersPid(i)

CliInv ==
    /\ Shape /\ SaidSoFar /\ Settled /\ GoodSoFar /\ ErrnoFromKill
    /\ RejectedForCause

-----------------------------------------------------------------------------
(* Reading one option more *)

\* What the assumption says of the line at hand.
LEMMA LineFacts ==
    ASSUME line \in Lines
    PROVE  /\ Len(line.opts) \in Nat /\ DOMAIN line.opts = 1..Len(line.opts)
           /\ line.word = "noargs" => Len(line.opts) = 0
           /\ \A i \in 1..Len(line.opts) :
                /\ line.opts[i].opt \in {"p", "l"} => line.opts[i].num \in Int
                /\ line.opts[i].opt = "f" =>
                     /\ Len(line.opts[i].subs) \in Nat
                     /\ DOMAIN line.opts[i].subs = 1..Len(line.opts[i].subs)
                     /\ \A j \in 1..Len(line.opts[i].subs) :
                          line.opts[i].subs[j].tok = "content" =>
                              line.opts[i].subs[j].val \in Nat \cup {-1}
  BY LinesAssumption

\* What is cut to an int is a number.
LEMMA ToIntType == ASSUME NEW n \in Int PROVE ToInt(n) \in Int
  BY CliAssumption DEF ToInt

\* strtol gives a number, and the one that stands there unless it is too long.
LEMMA StrtolType ==
    ASSUME NEW n \in Int
    PROVE  strtol(n) \in Int /\ (InLong(n) => strtol(n) = n)
  BY CliAssumption DEF strtol, InLong

\* The places of a kind among one option more.
LEMMA PlacesNext ==
    ASSUME NEW k, NEW n \in Nat
    PROVE  Places(k, n + 1) = IF line.opts[n + 1].opt = k
                              THEN Places(k, n) \cup {n + 1} ELSE Places(k, n)
  BY DEF Places

\* One that is there is the last.
LEMMA MaxNext ==
    ASSUME NEW k, NEW n \in Nat, line.opts[n + 1].opt = k
    PROVE  Places(k, n + 1) # {} /\ Max(Places(k, n + 1)) = n + 1
  <1>1. n + 1 \in Places(k, n + 1) /\ \A i \in Places(k, n + 1) : i \in Nat /\ i <= n + 1
    BY DEF Places
  <1>2. \A i \in Places(k, n + 1) : (\A j \in Places(k, n + 1) : i >= j) <=> i = n + 1
    BY <1>1
  <1> QED BY <1>1, <1>2 DEF Max

\* What the line says of the pid after one option more.
LEMMA PidSaidNext ==
    ASSUME NEW n \in Nat
    PROVE  PidSaid(n + 1) = IF line.opts[n + 1].opt = "p"
                            THEN IF line.opts[n + 1].all THEN PT_PID_ALL
                                 ELSE ToInt(line.opts[n + 1].num)
                            ELSE PidSaid(n)
  <1>1. CASE line.opts[n + 1].opt = "p"
    BY <1>1, MaxNext DEF PidSaid
  <1>2. CASE line.opts[n + 1].opt # "p"
    BY <1>2, PlacesNext DEF PidSaid
  <1> QED BY <1>1, <1>2

\* And of the limit.
LEMMA LimitSaidNext ==
    ASSUME NEW n \in Nat
    PROVE  LimitSaid(n + 1) = IF line.opts[n + 1].opt = "l"
                              THEN ToInt(line.opts[n + 1].num) ELSE LimitSaid(n)
  <1>1. CASE line.opts[n + 1].opt = "l"
    BY <1>1, MaxNext DEF LimitSaid
  <1>2. CASE line.opts[n + 1].opt # "l"
    BY <1>2, PlacesNext DEF LimitSaid
  <1> QED BY <1>1, <1>2

\* And how often an option stands there.
LEMMA CountNext ==
    ASSUME NEW k, NEW n \in Nat
    PROVE  /\ Cardinality(Places(k, n)) \in Nat
           /\ Cardinality(Places(k, n + 1)) =
                IF line.opts[n + 1].opt = k THEN Cardinality(Places(k, n)) + 1
                ELSE Cardinality(Places(k, n))
  <1>1. Places(k, n) \subseteq 1..n /\ n + 1 \notin Places(k, n)
    BY DEF Places
  <1>2. IsFiniteSet(Places(k, n))
    <2>1. IsFiniteSet(1..n)
      BY FS_Interval
    <2> QED BY <1>1, <2>1, FS_Subset
  <1>3. Cardinality(Places(k, n)) \in Nat
    BY <1>2, FS_CardinalityType
  <1>4. Cardinality(Places(k, n) \cup {n + 1}) = Cardinality(Places(k, n)) + 1
    BY <1>1, <1>2, FS_AddElement
  <1> QED BY <1>3, <1>4, PlacesNext

-----------------------------------------------------------------------------
(* Reading one sub-option more *)

\* Where the sub-options of a line stand.
LEMMA SubPlacesElement ==
    ASSUME NEW n \in Nat, NEW p
    PROVE  p \in SubPlaces(n) <=>
             \E i \in 1..n : /\ line.opts[i].opt = "f"
                             /\ \E j \in DOMAIN line.opts[i].subs : p = <<i, j>>
  BY DEF SubPlaces, Places

\* A place behind all others is the last one.
LEMMA LastPlaceAdded ==
    ASSUME NEW S \in SUBSET (Nat \X Nat), NEW p \in Nat \X Nat,
           \A q \in S : NotAfter(q, p)
    PROVE  LastPlace(S \cup {p}) = p
  <1>1. NotAfter(p, p)
    BY DEF NotAfter
  <1>2. ASSUME NEW x \in S, NotAfter(p, x) PROVE x = p
    BY <1>2 DEF NotAfter
  <1>3. \A x \in S \cup {p} : (\A q \in S \cup {p} : NotAfter(q, x)) <=> x = p
    BY <1>1, <1>2
  <1> QED BY <1>3 DEF LastPlace

\* What is said depends on the line alone.
LEMMA SameLine ==
    ASSUME line' = line, NEW n, NEW S
    PROVE  /\ \A k : Places(k, n)' = Places(k, n)
           /\ SubPlaces(n)' = SubPlaces(n)
           /\ PidSaid(n)' = PidSaid(n) /\ LimitSaid(n)' = LimitSaid(n)
           /\ Types(S)' = Types(S) /\ Contents(S)' = Contents(S)
           /\ \A d : SubSaid(S, d)' = SubSaid(S, d)
           /\ BadOption(n)' <=> BadOption(n)
  <1>1. \A k : Places(k, n)' = Places(k, n)
    BY DEF Places
  <1>2. SubPlaces(n)' = SubPlaces(n)
    BY <1>1 DEF SubPlaces
  <1>3. PidSaid(n)' = PidSaid(n) /\ LimitSaid(n)' = LimitSaid(n)
    BY <1>1 DEF PidSaid, LimitSaid
  <1>4. \A T : Types(T)' = Types(T) /\ Contents(T)' = Contents(T)
    BY DEF Types, Contents, SubAt
  <1>5. \A T, d : SubSaid(T, d)' = SubSaid(T, d)
    BY DEF SubSaid, SubAt
  <1>6. BadOption(n)' <=> BadOption(n)
    <2>1. /\ (SubSaid(Contents(SubPlaces(n)), 0))' = SubSaid(Contents(SubPlaces(n)), 0)
          /\ Types(SubPlaces(n))' = Types(SubPlaces(n))
      BY <1>2, <1>4, <1>5
    <2> QED BY <2>1 DEF BadOption
  <1> QED BY <1>1, <1>2, <1>3, <1>4, <1>5, <1>6

\* An option that is not a filter adds no sub-option.
LEMMA DoneSubsOption ==
    ASSUME line \in Lines, line' = line, next \in 1..Len(line.opts), sub = 1,
           line.opts[next].opt # "f", next' = next + 1, sub' = 1
    PROVE  DoneSubs' = DoneSubs
  <1>1. Len(line.opts) \in Nat
    BY LineFacts
  <1>2. SubPlaces(Len(line.opts))' = SubPlaces(Len(line.opts))
    BY SameLine
  <1>3. ASSUME NEW p \in SubPlaces(Len(line.opts))
        PROVE  (p[1] < next \/ (p[1] = next /\ p[2] < sub)) <=>
               (p[1] < next' \/ (p[1] = next' /\ p[2] < sub'))
    <2>1. PICK i \in 1..Len(line.opts) :
            /\ line.opts[i].opt = "f"
            /\ \E j \in DOMAIN line.opts[i].subs : p = <<i, j>>
      BY <1>1, <1>3, SubPlacesElement
    <2>2. PICK j \in 1..Len(line.opts[i].subs) : p = <<i, j>>
      BY <2>1, LineFacts
    <2>3. Len(line.opts[i].subs) \in Nat
      BY <2>1, LineFacts
    <2>4. j \in Nat /\ j >= 1 /\ i # next
      BY <2>1, <2>2, <2>3
    <2> QED BY <1>1, <2>2, <2>4
  <1> QED BY <1>2, <1>3 DEF DoneSubs

\* Neither does the end of one whose sub-options have all been read.
LEMMA DoneSubsFilterEnds ==
    ASSUME line \in Lines, line' = line, next \in 1..Len(line.opts), sub \in Nat \ {0},
           line.opts[next].opt = "f", sub > Len(line.opts[next].subs),
           next' = next + 1, sub' = 1
    PROVE  DoneSubs' = DoneSubs /\ DoneSubs = SubPlaces(next)
  <1>1. Len(line.opts) \in Nat /\ Len(line.opts[next].subs) \in Nat
    BY LineFacts
  <1>2. SubPlaces(Len(line.opts))' = SubPlaces(Len(line.opts))
    BY SameLine
  <1>3. ASSUME NEW i \in 1..Len(line.opts), line.opts[i].opt = "f",
               NEW j \in 1..Len(line.opts[i].subs)
        PROVE  /\ (i < next \/ (i = next /\ j < sub)) <=>
                    (i < next' \/ (i = next' /\ j < sub'))
               /\ (i < next \/ (i = next /\ j < sub)) <=> i <= next
    <2>1. Len(line.opts[i].subs) \in Nat
      BY <1>3, LineFacts
    <2>2. j \in Nat /\ j >= 1 /\ (i = next => j < sub)
      BY <1>1, <2>1
    <2> QED BY <1>1, <2>2
  <1>4. \A i \in 1..Len(line.opts) : line.opts[i].opt = "f" =>
            DOMAIN line.opts[i].subs = 1..Len(line.opts[i].subs)
    BY LineFacts
  <1>5. ASSUME NEW p \in SubPlaces(Len(line.opts))
        PROVE  /\ (p[1] < next \/ (p[1] = next /\ p[2] < sub)) <=>
                    (p[1] < next' \/ (p[1] = next' /\ p[2] < sub'))
               /\ (p[1] < next \/ (p[1] = next /\ p[2] < sub)) <=> p \in SubPlaces(next)
    <2>1. PICK i \in 1..Len(line.opts), j \in Nat :
            line.opts[i].opt = "f" /\ j \in 1..Len(line.opts[i].subs) /\ p = <<i, j>>
      BY <1>1, <1>4, <1>5, SubPlacesElement, SMTT(40)
    <2>2. p \in SubPlaces(next) <=> i <= next
      BY <1>1, <1>4, <2>1, SubPlacesElement
    <2> QED BY <1>3, <2>1, <2>2
  <1>6. SubPlaces(next) \subseteq SubPlaces(Len(line.opts))
    BY <1>1, SubPlacesElement
  <1> QED BY <1>2, <1>5, <1>6 DEF DoneSubs

\* A round of the getsubopt loop adds its sub-option, behind all others.
LEMMA DoneSubsNext ==
    ASSUME line \in Lines, line' = line, next \in 1..Len(line.opts), sub \in Nat \ {0},
           line.opts[next].opt = "f", sub <= Len(line.opts[next].subs),
           next' = next, sub' = sub + 1
    PROVE  /\ DoneSubs' = DoneSubs \cup {<<next, sub>>}
           /\ DoneSubs \subseteq Nat \X Nat /\ <<next, sub>> \in Nat \X Nat
           /\ \A q \in DoneSubs : NotAfter(q, <<next, sub>>)
           /\ <<next, sub>> \notin DoneSubs
  <1>1. Len(line.opts) \in Nat /\ Len(line.opts[next].subs) \in Nat
    BY LineFacts
  <1>2. SubPlaces(Len(line.opts))' = SubPlaces(Len(line.opts))
    BY SameLine
  <1>3. \A i \in 1..Len(line.opts) : line.opts[i].opt = "f" =>
            DOMAIN line.opts[i].subs = 1..Len(line.opts[i].subs)
              /\ Len(line.opts[i].subs) \in Nat
    BY LineFacts
  <1>4. SubPlaces(Len(line.opts)) \subseteq Nat \X Nat
    <2> SUFFICES ASSUME NEW p \in SubPlaces(Len(line.opts)) PROVE p \in Nat \X Nat
      OBVIOUS
    <2>1. PICK i \in 1..Len(line.opts), j \in Nat :
            line.opts[i].opt = "f" /\ j \in 1..Len(line.opts[i].subs) /\ p = <<i, j>>
      BY <1>1, <1>3, SubPlacesElement
    <2> QED BY <1>1, <1>3, <2>1
  <1>5. <<next, sub>> \in SubPlaces(Len(line.opts))
    BY <1>1, <1>3, SubPlacesElement
  <1>6. ASSUME NEW p \in SubPlaces(Len(line.opts))
        PROVE  (p[1] < next' \/ (p[1] = next' /\ p[2] < sub')) <=>
               (p[1] < next \/ (p[1] = next /\ p[2] < sub)) \/ p = <<next, sub>>
    BY <1>4, <1>6
  <1>7. \A q \in DoneSubs : NotAfter(q, <<next, sub>>)
    BY <1>4 DEF DoneSubs, NotAfter
  <1>8. <<next, sub>> \notin DoneSubs
    BY DEF DoneSubs
  <1>9. DoneSubs' = DoneSubs \cup {<<next, sub>>}
    BY <1>2, <1>5, <1>6 DEF DoneSubs
  <1> QED BY <1>4, <1>5, <1>7, <1>8, <1>9 DEF DoneSubs

-----------------------------------------------------------------------------
(* The steps *)

\* An option that is not a filter has been read: where that leads to.
LEMMA OptionRead ==
    ASSUME CliInv, NEW o, Option(o), o.opt # "f"
    PROVE  /\ line' = line /\ line \in Lines /\ o = line.opts[next]
           /\ next \in 1..Len(line.opts) /\ Len(line.opts) \in Nat
           /\ next' = next + 1 /\ sub = 1 /\ sub' = 1 /\ ppc = "parse"
           /\ next' \in 1..(Len(line.opts) + 1)
           /\ (PidSaid(next - 1))' = IF o.opt = "p" THEN IF o.all THEN PT_PID_ALL
                                                         ELSE ToInt(o.num)
                                     ELSE PidSaid(next - 1)
           /\ (LimitSaid(next - 1))' = IF o.opt = "l" THEN ToInt(o.num)
                                       ELSE LimitSaid(next - 1)
           /\ Cardinality(Places("v", next - 1)) \in Nat
           /\ (Cardinality(Places("v", next - 1)))' =
                IF o.opt = "v" THEN Cardinality(Places("v", next - 1)) + 1
                ELSE Cardinality(Places("v", next - 1))
           /\ (Places("ptrace", next - 1))' # {} <=>
                o.opt = "ptrace" \/ Places("ptrace", next - 1) # {}
           /\ (Types(DoneSubs))' = Types(DoneSubs)
           /\ (SubSaid(Types(DoneSubs), "empty"))' = SubSaid(Types(DoneSubs), "empty")
           /\ (SubSaid(Contents(DoneSubs), 0))' = SubSaid(Contents(DoneSubs), 0)
  <1>1. /\ line' = line /\ line \in Lines /\ o = line.opts[next]
        /\ next' = next + 1 /\ sub' = 1 /\ ppc = "parse"
        /\ next <= Len(line.opts) /\ next \in 1..(Len(line.opts) + 1)
    BY DEF CliInv, Shape, Option, At
  <1>2. Len(line.opts) \in Nat
    BY <1>1, LineFacts
  <1>3. next \in 1..Len(line.opts) /\ next' \in 1..(Len(line.opts) + 1)
    BY <1>1, <1>2
  <1>4. sub = 1
    BY <1>1 DEF CliInv, Shape
  <1>5. next - 1 \in Nat /\ (next - 1) + 1 = next /\ next' - 1 = next
    BY <1>1, <1>2, <1>3
  <1>6. \A k : (Places(k, next - 1))' = Places(k, next)
    BY <1>1, <1>5, SameLine
  <1>7. (PidSaid(next - 1))' = PidSaid(next) /\ (LimitSaid(next - 1))' = LimitSaid(next)
    BY <1>1, <1>5, SameLine
  <1>8. /\ PidSaid(next) = IF o.opt = "p" THEN IF o.all THEN PT_PID_ALL ELSE ToInt(o.num)
                           ELSE PidSaid(next - 1)
        /\ LimitSaid(next) = IF o.opt = "l" THEN ToInt(o.num) ELSE LimitSaid(next - 1)
    BY <1>1, <1>5, PidSaidNext, LimitSaidNext
  <1>9. /\ Cardinality(Places("v", next - 1)) \in Nat
        /\ Cardinality(Places("v", next)) =
             IF o.opt = "v" THEN Cardinality(Places("v", next - 1)) + 1
             ELSE Cardinality(Places("v", next - 1))
    BY <1>1, <1>5, CountNext
  <1>10. Places("ptrace", next) # {} <=> o.opt = "ptrace" \/ Places("ptrace", next - 1) # {}
    BY <1>1, <1>5, PlacesNext, ZenonT(40)
  <1>11. DoneSubs' = DoneSubs
    BY <1>1, <1>3, <1>4, DoneSubsOption
  <1>12. /\ (Types(DoneSubs))' = Types(DoneSubs)
         /\ (SubSaid(Types(DoneSubs), "empty"))' = SubSaid(Types(DoneSubs), "empty")
         /\ (SubSaid(Contents(DoneSubs), 0))' = SubSaid(Contents(DoneSubs), 0)
    BY <1>1, <1>11, SameLine
  <1> QED BY <1>1, <1>2, <1>3, <1>4, <1>6, <1>7, <1>8, <1>9, <1>10, <1>12

\* What is said, after an option that is not a filter and that was read for
\* what it says.
LEMMA SaidOption ==
    ASSUME CliInv, NEW o, Option(o), o.opt # "f",
           clictx'.pid = IF o.opt = "p" THEN IF o.all THEN PT_PID_ALL ELSE ToInt(o.num)
                         ELSE clictx.pid,
           limit' = IF o.opt = "l" THEN ToInt(o.num) ELSE limit,
           clictx'.verbose = IF o.opt = "v" THEN clictx.verbose + 1 ELSE clictx.verbose,
           clictx'.ptrace = (o.opt = "ptrace" \/ clictx.ptrace),
           clictx'.type = clictx.type, clictx'.content = clictx.content
    PROVE  SaidSoFar'
  <1>1. ppc = "parse"
    BY OptionRead
  <1>2. /\ clictx.pid = PidSaid(next - 1) /\ limit = LimitSaid(next - 1)
        /\ clictx.verbose = Cardinality(Places("v", next - 1))
        /\ clictx.ptrace = (Places("ptrace", next - 1) # {})
        /\ clictx.type = SubSaid(Types(DoneSubs), "empty")
        /\ clictx.type = "empty" <=> Types(DoneSubs) = {}
        /\ clictx.content \in {Dangling, SubSaid(Contents(DoneSubs), 0)}
    BY <1>1 DEF CliInv, SaidSoFar, Reading
  <1>3. clictx'.pid = (PidSaid(next - 1))' /\ limit' = (LimitSaid(next - 1))'
    BY <1>2, OptionRead
  <1>4. clictx'.verbose = (Cardinality(Places("v", next - 1)))'
    BY <1>2, OptionRead
  <1>5. clictx'.ptrace = ((Places("ptrace", next - 1))' # {})
    BY <1>2, OptionRead
  <1>6. /\ clictx'.type = (SubSaid(Types(DoneSubs), "empty"))'
        /\ clictx'.type = "empty" <=> (Types(DoneSubs))' = {}
        /\ clictx'.content \in {Dangling, (SubSaid(Contents(DoneSubs), 0))'}
    BY <1>2, OptionRead
  <1> QED BY <1>3, <1>4, <1>5, <1>6 DEF SaidSoFar

\* Nothing wrong has been passed over, after an option that is right.
LEMMA GoodOption ==
    ASSUME CliInv, NEW o, Option(o), ~BadOption(next),
           clictx.content = Dangling => clictx'.content = Dangling
    PROVE  GoodSoFar'
  <1>1. /\ line' = line /\ line \in Lines /\ ppc = "parse" /\ next' = next + 1 /\ sub' = 1
        /\ next \in 1..(Len(line.opts) + 1)
    BY DEF CliInv, Shape, Option, At
  <1>2. Len(line.opts) \in Nat
    BY <1>1, LineFacts
  <1>3. \A i : BadOption(i)' <=> BadOption(i)
    BY <1>1, SameLine
  <1>4. ASSUME clictx'.content # Dangling, NEW i \in 1..(next' - 1)
        PROVE  ~BadOption(i)
    <2>1. \A k \in 1..(next - 1) : ~BadOption(k)
      BY <1>1, <1>4 DEF CliInv, GoodSoFar, Reading
    <2> QED BY <1>1, <1>2, <1>4, <2>1
  <1> QED BY <1>1, <1>3, <1>4 DEF GoodSoFar

\* The options that somebody else's process stands in stay where they are.
LEMMA ErrnoOption ==
    ASSUME CliInv, NEW o, Option(o), errno' = errno
    PROVE  ErrnoFromKill'
  <1>1. /\ line' = line /\ line \in Lines /\ ppc = "parse" /\ next' = next + 1
        /\ next \in 1..(Len(line.opts) + 1)
    BY DEF CliInv, Shape, Option, At
  <1>2. Len(line.opts) \in Nat
    BY <1>1, LineFacts
  <1>3. \A i : OthersPid(i)' <=> OthersPid(i)
    BY <1>1 DEF OthersPid
  <1>4. errno = 0 \/ \E i \in 1..(next - 1) : OthersPid(i)
    BY <1>1 DEF CliInv, ErrnoFromKill
  <1> QED BY <1>1, <1>2, <1>3, <1>4 DEF ErrnoFromKill

\* An option that is wrong makes the line wrong.
LEMMA WrongOption ==
    ASSUME line \in Lines, line' = line, NEW i \in 1..Len(line.opts), BadOption(i)
    PROVE  BadLine'
  <1>1. BadOption(i)' /\ i \in DOMAIN line'.opts
    BY SameLine, LineFacts
  <1> QED BY <1>1 DEF BadLine

\* An errno that is left over at a number is a stale one.
LEMMA LeftOver ==
    ASSUME CliInv, ppc = "parse", errno # 0, line' = line, next \in 1..Len(line.opts),
           line.opts[next].opt \in {"p", "l"}
    PROVE  StaleErrno'
  <1>1. line \in Lines
    BY DEF CliInv, Shape
  <1>2. Len(line.opts) \in Nat /\ DOMAIN line.opts = 1..Len(line.opts)
    BY <1>1, LineFacts
  <1>3. PICK i \in 1..(next - 1) : OthersPid(i)
    BY DEF CliInv, ErrnoFromKill
  <1>4. i \in DOMAIN line.opts /\ next \in DOMAIN line.opts /\ i < next
    BY <1>2, <1>3
  <1> QED BY <1>3, <1>4 DEF StaleErrno, OthersPid

\* What is left of the invariant when the line is given up.
LEMMA GivenUp ==
    ASSUME ppc' \in {"rejected", "usage", "segv"}, Shape',
           ppc' = "rejected" /\ clictx'.content # Dangling => BadLine' \/ StaleErrno'
    PROVE  CliInv'
  BY DEF CliInv, SaidSoFar, Settled, GoodSoFar, ErrnoFromKill, RejectedForCause, Reading

LEMMA PidAllKeeps ==
    ASSUME CliInv, NEW o, PidAll(o)
    PROVE  CliInv'
  <1>1. Option(o) /\ o.opt = "p" /\ o.all /\ ppc' = ppc /\ limit' = limit /\ errno' = errno
        /\ clictx' = [clictx EXCEPT !.pid = PT_PID_ALL]
    BY DEF PidAll
  <1>2. clictx \in Contexts
    BY DEF CliInv, Shape
  <1>3. PT_PID_ALL \in Int
    BY CliAssumption DEF PT_PID_ALL
  <1>4. Shape'
    BY <1>1, <1>2, <1>3, OptionRead DEF CliInv, Shape, Contexts
  <1>5. SaidSoFar'
    BY <1>1, <1>2, SaidOption DEF Contexts
  <1>6. ~BadOption(next)
    BY <1>1, OptionRead DEF BadOption
  <1>7. GoodSoFar'
    BY <1>1, <1>2, <1>6, GoodOption DEF Contexts
  <1>8. ErrnoFromKill'
    BY <1>1, ErrnoOption
  <1>9. Settled' /\ RejectedForCause'
    BY <1>1, <1>2, OptionRead DEF CliInv, Settled, RejectedForCause, Contexts
  <1> QED BY <1>4, <1>5, <1>7, <1>8, <1>9 DEF CliInv

LEMMA VerboseKeeps ==
    ASSUME CliInv, NEW o, Verbose(o)
    PROVE  CliInv'
  <1>1. Option(o) /\ o.opt = "v" /\ ppc' = ppc /\ limit' = limit /\ errno' = errno
        /\ clictx' = [clictx EXCEPT !.verbose = clictx.verbose + 1]
    BY DEF Verbose
  <1>2. clictx \in Contexts
    BY DEF CliInv, Shape
  <1>3. /\ clictx' \in Contexts /\ clictx'.pid = clictx.pid
        /\ clictx'.frame = clictx.frame /\ clictx'.request = clictx.request
    BY <1>1, <1>2 DEF Contexts
  <1>4. Shape'
    BY <1>1, <1>3, OptionRead DEF CliInv, Shape
  <1>5. SaidSoFar'
    BY <1>1, <1>2, SaidOption DEF Contexts
  <1>6. ~BadOption(next)
    BY <1>1, OptionRead DEF BadOption
  <1>7. GoodSoFar'
    BY <1>1, <1>2, <1>6, GoodOption DEF Contexts
  <1>8. ErrnoFromKill'
    BY <1>1, ErrnoOption
  <1>9. Settled' /\ RejectedForCause'
    BY <1>1, <1>2, OptionRead DEF CliInv, Settled, RejectedForCause, Contexts
  <1> QED BY <1>4, <1>5, <1>7, <1>8, <1>9 DEF CliInv

LEMMA PtraceKeeps ==
    ASSUME CliInv, NEW o, Ptrace(o)
    PROVE  CliInv'
  <1>1. Option(o) /\ o.opt = "ptrace" /\ ppc' = ppc /\ limit' = limit /\ errno' = errno
        /\ clictx' = [clictx EXCEPT !.ptrace = TRUE]
    BY DEF Ptrace
  <1>2. clictx \in Contexts
    BY DEF CliInv, Shape
  <1>3. /\ clictx' \in Contexts /\ clictx'.pid = clictx.pid
        /\ clictx'.frame = clictx.frame /\ clictx'.request = clictx.request
    BY <1>1, <1>2 DEF Contexts
  <1>4. Shape'
    BY <1>1, <1>3, OptionRead DEF CliInv, Shape
  <1>5. SaidSoFar'
    BY <1>1, <1>2, SaidOption DEF Contexts
  <1>6. ~BadOption(next)
    BY <1>1, OptionRead DEF BadOption
  <1>7. GoodSoFar'
    BY <1>1, <1>2, <1>6, GoodOption DEF Contexts
  <1>8. ErrnoFromKill'
    BY <1>1, ErrnoOption
  <1>9. Settled' /\ RejectedForCause'
    BY <1>1, <1>2, OptionRead DEF CliInv, Settled, RejectedForCause, Contexts
  <1> QED BY <1>4, <1>5, <1>7, <1>8, <1>9 DEF CliInv

LEMMA HelpKeeps ==
    ASSUME CliInv, NEW o, Help(o)
    PROVE  CliInv'
  <1>1. Option(o) /\ o.opt \in {"h", "?"} /\ ppc' = "usage"
        /\ limit' = limit /\ errno' = errno /\ clictx' = clictx
    BY DEF Help
  <1>2. Shape'
    BY <1>1, OptionRead DEF CliInv, Shape
  <1> QED BY <1>1, <1>2, GivenUp

\* The number of a -p, and what BadPid tells of it.
LEMMA PidNumber ==
    ASSUME CliInv, NEW o, Option(o), o.opt = "p"
    PROVE  /\ ToInt(strtol(o.num)) \in Int /\ ToInt(o.num) \in Int
           /\ InLong(o.num) => strtol(o.num) = o.num
  <1>1. o.num \in Int
    BY OptionRead, LineFacts
  <1> QED BY <1>1, ToIntType, StrtolType

LEMMA PidKeeps ==
    ASSUME CliInv, NEW o, Pid(o)
    PROVE  CliInv'
  <1> DEFINE pid == ToInt(strtol(o.num))
             owner == IF pid = 0 THEN "mine"
                      ELSE IF pid \in DOMAIN Owner THEN Owner[pid] ELSE "none"
  <1>1. /\ Option(o) /\ o.opt = "p" /\ ~o.all /\ ~BadPid(o) /\ limit' = limit
        /\ clictx' = [clictx EXCEPT !.pid = pid]
        /\ errno' = CASE owner = "mine" -> errno [] owner = "other" -> EPERM [] OTHER -> 0
        /\ ppc' = IF owner = "none" THEN "rejected" ELSE ppc
    BY DEF Pid
  <1>2. clictx \in Contexts /\ ppc = "parse"
    BY <1>1, OptionRead DEF CliInv, Shape
  <1>3. pid \in 0..PidMax /\ errno = 0 /\ InLong(o.num) /\ ~o.tail
    BY <1>1, PidNumber, CliAssumption DEF BadPid, ErrnoAfter, ERANGE
  <1>4. pid = ToInt(o.num) /\ pid \in Int
    BY <1>1, <1>3, PidNumber
  <1>5. owner \in {"mine", "other", "none"} /\ (owner = "none" <=> pid \notin DOMAIN Owner \cup {0})
    BY CliAssumption
  <1>6. errno' \in {0, EPERM} /\ (errno' = 0 \/ owner = "other")
    BY <1>1, <1>3, <1>5
  <1> HIDE DEF pid, owner
  <1>7. Shape'
    BY <1>1, <1>2, <1>3, <1>4, <1>6, OptionRead DEF CliInv, Shape, Contexts
  <1>8. CASE owner = "none"
    <2>1. BadOption(next)
      BY <1>1, <1>4, <1>5, <1>8, OptionRead DEF BadOption
    <2>2. BadLine'
      BY <1>1, <2>1, OptionRead, WrongOption
    <2> QED BY <1>1, <1>7, <1>8, <2>2, GivenUp
  <1>9. CASE owner # "none"
    <2>1. SaidSoFar'
      BY <1>1, <1>2, <1>4, SaidOption DEF Contexts
    <2>2. ~BadOption(next)
      BY <1>1, <1>3, <1>4, <1>5, <1>9, OptionRead DEF BadOption
    <2>3. GoodSoFar'
      BY <1>1, <1>2, <2>2, GoodOption DEF Contexts
    <2>4. Settled' /\ RejectedForCause'
      BY <1>1, <1>2, <1>9, OptionRead DEF CliInv, Settled, RejectedForCause, Contexts
    <2>5. ErrnoFromKill'
      <3>1. CASE errno' = 0
        BY <3>1 DEF ErrnoFromKill
      <3>2. CASE owner = "other"
        <4>1. OthersPid(next)
          BY <1>1, <1>4, <3>2, OptionRead DEF OthersPid, owner
        <4>2. next \in 1..(next' - 1) /\ line' = line
          BY <1>1, OptionRead
        <4>3. \A i : OthersPid(i)' <=> OthersPid(i)
          BY <4>2 DEF OthersPid
        <4> QED BY <4>1, <4>2, <4>3 DEF ErrnoFromKill
      <3> QED BY <1>6, <3>1, <3>2
    <2> QED BY <1>7, <2>1, <2>3, <2>4, <2>5 DEF CliInv
  <1> QED BY <1>8, <1>9

LEMMA PidRejectedKeeps ==
    ASSUME CliInv, NEW o, PidRejected(o)
    PROVE  CliInv'
  <1> DEFINE pid == ToInt(strtol(o.num))
  <1>1. /\ Option(o) /\ o.opt = "p" /\ ~o.all /\ BadPid(o) /\ limit' = limit
        /\ clictx' = [clictx EXCEPT !.pid = pid] /\ errno' = 0 /\ ppc' = "rejected"
    BY DEF PidRejected
  <1>2. clictx \in Contexts /\ pid \in Int
    BY <1>1, PidNumber DEF CliInv, Shape
  <1> HIDE DEF pid
  <1>3. /\ clictx' \in Contexts
        /\ clictx'.frame = clictx.frame /\ clictx'.request = clictx.request
    BY <1>1, <1>2 DEF Contexts
  <1>4. Shape'
    BY <1>1, <1>3, OptionRead DEF CliInv, Shape
  <1>5. CASE errno # 0
    BY <1>1, <1>4, <1>5, OptionRead, LeftOver, GivenUp
  <1>6. CASE errno = 0
    <2>1. o.tail \/ ~InLong(o.num) \/ ToInt(o.num) \notin 0..PidMax
      BY <1>1, <1>6, PidNumber, CliAssumption DEF BadPid, ErrnoAfter
    <2>2. BadOption(next)
      BY <1>1, <2>1, OptionRead DEF BadOption
    <2> QED BY <1>1, <1>4, <2>2, OptionRead, WrongOption, GivenUp
  <1> QED BY <1>5, <1>6

LEMMA LimitOptionKeeps ==
    ASSUME CliInv, NEW o, LimitOption(o)
    PROVE  CliInv'
  <1> DEFINE n == ToInt(strtol(o.num))
  <1>1. /\ Option(o) /\ o.opt = "l" /\ limit' = n /\ clictx' = clictx
        /\ errno' = IF BadLimit(o) THEN 0 ELSE errno
        /\ ppc' = IF BadLimit(o) THEN "rejected" ELSE ppc
    BY DEF LimitOption
  <1>2. o.num \in Int
    BY <1>1, OptionRead, LineFacts
  <1>3. n \in Int /\ (InLong(o.num) => n = ToInt(o.num))
    BY <1>2, ToIntType, StrtolType
  <1>4. ~BadLimit(o) => n >= PT_LIMIT_UNLIMITED /\ errno = 0 /\ InLong(o.num) /\ ~o.tail
    BY <1>3 DEF BadLimit, ErrnoAfter, ERANGE, PT_LIMIT_UNLIMITED
  <1>5. BadLimit(o) /\ errno = 0 => \/ o.tail \/ ~InLong(o.num)
                                    \/ n < PT_LIMIT_UNLIMITED
    BY DEF BadLimit, ErrnoAfter
  <1> HIDE DEF n
  <1>6. Shape'
    BY <1>1, <1>3, <1>4, OptionRead DEF CliInv, Shape
  <1>7. CASE BadLimit(o) /\ errno # 0
    BY <1>1, <1>6, <1>7, OptionRead, LeftOver, GivenUp
  <1>8. CASE BadLimit(o) /\ errno = 0
    <2>1. BadOption(next)
      BY <1>1, <1>3, <1>5, <1>8, OptionRead DEF BadOption, PT_LIMIT_UNLIMITED
    <2> QED BY <1>1, <1>6, <1>8, <2>1, OptionRead, WrongOption, GivenUp
  <1>9. CASE ~BadLimit(o)
    <2>1. SaidSoFar'
      BY <1>1, <1>3, <1>4, <1>9, SaidOption DEF CliInv, Shape, Contexts
    <2>2. ~BadOption(next)
      BY <1>1, <1>3, <1>4, <1>9, OptionRead DEF BadOption, PT_LIMIT_UNLIMITED
    <2>3. GoodSoFar'
      BY <1>1, <2>2, GoodOption
    <2>4. ErrnoFromKill'
      BY <1>1, <1>9, ErrnoOption
    <2>5. Settled' /\ RejectedForCause'
      BY <1>1, <1>9, OptionRead DEF CliInv, Settled, RejectedForCause
    <2> QED BY <1>6, <2>1, <2>3, <2>4, <2>5 DEF CliInv
  <1> QED BY <1>7, <1>8, <1>9

\* A sub-option has been read: where that leads to.
LEMMA SubOptionRead ==
    ASSUME CliInv, NEW s, SubOption(s)
    PROVE  /\ line' = line /\ line \in Lines /\ ppc = "parse"
           /\ next \in 1..Len(line.opts) /\ Len(line.opts) \in Nat /\ next' = next
           /\ line.opts[next].opt = "f" /\ Len(line.opts[next].subs) \in Nat
           /\ sub \in 1..Len(line.opts[next].subs) /\ sub' = sub + 1
           /\ s = line.opts[next].subs[sub] /\ SubAt(<<next, sub>>) = s
           /\ s.tok = "content" => s.val \in Nat \cup {-1}
           /\ limit' = limit
  <1>1. PICK o \in ToSet(line.opts) :
            At(o) /\ o.opt = "f" /\ sub <= Len(o.subs) /\ s = o.subs[sub]
    BY DEF SubOption
  <1>2. /\ line' = line /\ line \in Lines /\ ppc = "parse" /\ o = line.opts[next]
        /\ next <= Len(line.opts) /\ next \in 1..(Len(line.opts) + 1)
        /\ sub \in Nat \ {0} /\ sub' = sub + 1 /\ next' = next
        /\ limit' = limit
    BY <1>1 DEF CliInv, Shape, SubOption, At
  <1>3. Len(line.opts) \in Nat
    BY <1>2, LineFacts
  <1>4. next \in 1..Len(line.opts)
    BY <1>2, <1>3
  <1>5. Len(line.opts[next].subs) \in Nat
    BY <1>1, <1>2, <1>4, LineFacts
  <1>6. sub \in 1..Len(line.opts[next].subs)
    BY <1>1, <1>2, <1>5
  <1>7. s.tok = "content" => s.val \in Nat \cup {-1}
    BY <1>1, <1>2, <1>4, <1>6, LineFacts
  <1>8. SubAt(<<next, sub>>) = s
    BY <1>1, <1>2 DEF SubAt
  <1> QED BY <1>1, <1>2, <1>3, <1>4, <1>5, <1>6, <1>7, <1>8

\* What the types and the contents say after it.
LEMMA SubSaidRead ==
    ASSUME CliInv, NEW s, SubOption(s)
    PROVE  /\ (SubSaid(Types(DoneSubs), "empty"))' =
                IF s.tok = "type" /\ s.val \in DOMAIN FilterName THEN s.val
                ELSE SubSaid(Types(DoneSubs), "empty")
           /\ (Types(DoneSubs))' = {} <=>
                Types(DoneSubs) = {} /\ ~(s.tok = "type" /\ s.val \in DOMAIN FilterName)
           /\ (SubSaid(Contents(DoneSubs), 0))' =
                IF s.tok = "content" THEN s.val ELSE SubSaid(Contents(DoneSubs), 0)
  <1> DEFINE p == <<next, sub>>
  <1>1. /\ DoneSubs' = DoneSubs \cup {p} /\ DoneSubs \subseteq Nat \X Nat
        /\ p \in Nat \X Nat /\ \A q \in DoneSubs : NotAfter(q, p)
    BY SubOptionRead, DoneSubsNext
  <1>2. SubAt(p) = s /\ line' = line
    BY SubOptionRead
  <1> HIDE DEF p
  <1>3. /\ (Types(DoneSubs))' = Types(DoneSubs \cup {p})
        /\ (Contents(DoneSubs))' = Contents(DoneSubs \cup {p})
    BY <1>1, <1>2, SameLine
  <1>4. /\ (SubSaid(Types(DoneSubs), "empty"))' = SubSaid(Types(DoneSubs \cup {p}), "empty")
        /\ (SubSaid(Contents(DoneSubs), 0))' = SubSaid(Contents(DoneSubs \cup {p}), 0)
    BY <1>2, <1>3, SameLine
  <1>5. ASSUME NEW S \in SUBSET DoneSubs, NEW d
        PROVE  SubSaid(S \cup {p}, d) = s.val
    <2>1. LastPlace(S \cup {p}) = p
      BY <1>1, LastPlaceAdded
    <2> QED BY <1>2, <2>1 DEF SubSaid
  <1>6. Types(DoneSubs \cup {p}) = IF s.tok = "type" /\ s.val \in DOMAIN FilterName
                                   THEN Types(DoneSubs) \cup {p} ELSE Types(DoneSubs)
    BY <1>2 DEF Types
  <1>7. Contents(DoneSubs \cup {p}) = IF s.tok = "content"
                                      THEN Contents(DoneSubs) \cup {p} ELSE Contents(DoneSubs)
    BY <1>2 DEF Contents
  <1>8. Types(DoneSubs) \subseteq DoneSubs /\ Contents(DoneSubs) \subseteq DoneSubs
    BY DEF Types, Contents
  <1> QED BY <1>3, <1>4, <1>5, <1>6, <1>7, <1>8

\* A sub-option that was taken for what it says.
LEMMA SubTaken ==
    ASSUME CliInv, NEW s, SubOption(s), ppc' = ppc, errno' = errno, ~BadSub(s),
           clictx' \in Contexts,
           \A k \in {"command", "verbose", "pid", "ptrace", "frame", "request"} :
               clictx'[k] = clictx[k],
           clictx'.type = IF s.tok = "type" /\ s.val \in DOMAIN FilterName THEN s.val
                          ELSE clictx.type,
           \/ clictx'.content = Dangling
           \/ /\ clictx.content # Dangling
              /\ clictx'.content = IF s.tok = "content" THEN s.val ELSE clictx.content
    PROVE  CliInv'
  <1>1. /\ clictx'.command = clictx.command /\ clictx'.verbose = clictx.verbose
        /\ clictx'.pid = clictx.pid /\ clictx'.ptrace = clictx.ptrace
        /\ clictx'.frame = clictx.frame /\ clictx'.request = clictx.request
    OBVIOUS
  <1>2. Shape'
    <2>1. /\ next' \in 1..(Len(line.opts) + 1) /\ sub' \in Nat \ {0}
          /\ next <= Len(line.opts) /\ sub' <= Len(line.opts[next].subs) + 1
      BY SubOptionRead
    <2> QED BY <1>1, <2>1, SubOptionRead DEF CliInv, Shape
  <1>3. SaidSoFar'
    <2>1. /\ clictx.pid = PidSaid(next - 1) /\ limit = LimitSaid(next - 1)
          /\ clictx.verbose = Cardinality(Places("v", next - 1))
          /\ clictx.ptrace = (Places("ptrace", next - 1) # {})
          /\ clictx.type = SubSaid(Types(DoneSubs), "empty")
          /\ clictx.type = "empty" <=> Types(DoneSubs) = {}
          /\ clictx.content \in {Dangling, SubSaid(Contents(DoneSubs), 0)}
      BY SubOptionRead DEF CliInv, SaidSoFar, Reading
    <2>2. /\ \A k : (Places(k, next - 1))' = Places(k, next - 1)
          /\ (PidSaid(next - 1))' = PidSaid(next - 1)
          /\ (LimitSaid(next - 1))' = LimitSaid(next - 1)
      BY SubOptionRead, SameLine
    <2>3. /\ clictx'.type = (SubSaid(Types(DoneSubs), "empty"))'
          /\ clictx'.type = "empty" <=> (Types(DoneSubs))' = {}
          /\ clictx'.content \in {Dangling, (SubSaid(Contents(DoneSubs), 0))'}
      <3>1. "empty" \notin DOMAIN FilterName
        BY DEF FilterName
      <3> QED BY <2>1, <3>1, SubSaidRead
    <2> QED BY <1>1, <2>1, <2>2, <2>3, SubOptionRead DEF SaidSoFar
  <1>4. Settled' /\ RejectedForCause'
    BY <1>1, SubOptionRead DEF CliInv, Settled, RejectedForCause
  <1>5. GoodSoFar'
    <2>1. \A i : BadOption(i)' <=> BadOption(i)
      BY SubOptionRead, SameLine
    <2>2. ASSUME clictx'.content # Dangling
          PROVE  /\ \A i \in 1..(next' - 1) : ~BadOption(i)
                 /\ \A j \in 1..(sub' - 1) : ~BadSub(line.opts[next].subs[j])
      <3>1. /\ \A i \in 1..(next - 1) : ~BadOption(i)
            /\ \A j \in 1..(sub - 1) : ~BadSub(line.opts[next].subs[j])
        BY <2>2, SubOptionRead DEF CliInv, GoodSoFar, Reading
      <3>2. ASSUME NEW j \in 1..(sub' - 1) PROVE ~BadSub(line.opts[next].subs[j])
        <4>1. j \in 1..(sub - 1) \/ j = sub
          BY SubOptionRead
        <4> QED BY <3>1, <4>1, SubOptionRead
      <3> QED BY <3>1, <3>2, SubOptionRead
    <2> QED BY <2>1, <2>2, SubOptionRead DEF GoodSoFar
  <1>6. ErrnoFromKill'
    <2>1. \A i : OthersPid(i)' <=> OthersPid(i)
      BY SubOptionRead DEF OthersPid
    <2> QED BY <2>1, SubOptionRead DEF CliInv, ErrnoFromKill
  <1> QED BY <1>2, <1>3, <1>4, <1>5, <1>6 DEF CliInv

LEMMA FilterTypeKeeps ==
    ASSUME CliInv, NEW s, FilterType(s)
    PROVE  CliInv'
  <1> DEFINE type == pt_filter_search_filter_type(s.val, clictx.type)
  <1>1. /\ SubOption(s) /\ s.tok = "type" /\ s.val # "NULL" /\ ppc' = ppc /\ errno' = errno
        /\ clictx' = [clictx EXCEPT !.type = type]
    BY DEF FilterType
  <1>2. clictx \in Contexts
    BY DEF CliInv, Shape
  <1>3. /\ type = IF s.val \in DOMAIN FilterName THEN s.val ELSE clictx.type
        /\ s.val \in DOMAIN FilterName => s.val \in {"url", "function", "class"}
    BY DEF pt_filter_search_filter_type, FilterName
  <1>4. type \in {"empty", "url", "function", "class"}
    BY <1>2, <1>3 DEF Contexts
  <1> HIDE DEF type
  <1>5. /\ clictx' \in Contexts /\ clictx'.type = type /\ clictx'.content = clictx.content
        /\ \A k \in {"command", "verbose", "pid", "ptrace", "frame", "request"} :
               clictx'[k] = clictx[k]
    BY <1>1, <1>2, <1>4 DEF Contexts
  <1>6. ~BadSub(s)
    BY <1>1 DEF BadSub
  <1> QED BY <1>1, <1>3, <1>5, <1>6, SubTaken

LEMMA FilterContentKeeps ==
    ASSUME CliInv, NEW s, FilterContent(s)
    PROVE  CliInv'
  <1>1. /\ SubOption(s) /\ s.tok = "content" /\ s.val \in 0..(MaxFilter - 2)
        /\ ppc' = ppc /\ errno' = errno
    BY DEF FilterContent
  <1>2. PICK moves \in BOOLEAN : clictx' = sdscpy(clictx, s.val, moves)
    BY DEF FilterContent
  <1>3. clictx \in Contexts /\ s.val \in Nat /\ s.val < MaxFilter - 1
    BY <1>1, CliAssumption DEF CliInv, Shape
  <1>4. \/ clictx.content = Dangling /\ clictx' = clictx
        \/ clictx.content # Dangling /\ clictx' = [clictx EXCEPT !.content = s.val]
        \/ clictx.content # Dangling
             /\ clictx' = [clictx EXCEPT !.content = s.val, !.room = 2 * s.val]
        \/ clictx.content # Dangling /\ clictx' = [clictx EXCEPT !.content = Dangling]
    BY <1>2 DEF sdscpy
  <1>5. /\ clictx' \in Contexts /\ clictx'.type = clictx.type
        /\ \A k \in {"command", "verbose", "pid", "ptrace", "frame", "request"} :
               clictx'[k] = clictx[k]
        /\ clictx'.content = Dangling \/ (clictx.content # Dangling /\ clictx'.content = s.val)
    <2>1. CASE clictx.content = Dangling /\ clictx' = clictx
      BY <1>3, <2>1
    <2>2. CASE clictx.content # Dangling /\ clictx' = [clictx EXCEPT !.content = s.val]
      BY <1>3, <2>2 DEF Contexts
    <2>3. CASE clictx.content # Dangling
                 /\ clictx' = [clictx EXCEPT !.content = s.val, !.room = 2 * s.val]
      <3>1. 2 * s.val \in Nat
        BY <1>3
      <3>2. PICK room \in Nat : clictx' = [clictx EXCEPT !.content = s.val, !.room = room]
        BY <2>3, <3>1
      <3> QED BY <1>3, <2>3, <3>2 DEF Contexts
    <2>4. CASE clictx.content # Dangling /\ clictx' = [clictx EXCEPT !.content = Dangling]
      BY <1>3, <2>4 DEF Contexts
    <2> QED BY <1>4, <2>1, <2>2, <2>3, <2>4
  <1>6. ~BadSub(s)
    BY <1>1, <1>3, CliAssumption DEF BadSub
  <1> QED BY <1>1, <1>5, <1>6, SubTaken

\* The line ends at a sub-option.
LEMMA SubGivenUp ==
    ASSUME CliInv, NEW s, SubOption(s), clictx' = clictx, errno' \in {0, errno},
           ppc' = "segv" \/ (ppc' = "rejected" /\ BadSub(s))
    PROVE  CliInv'
  <1>1. Shape'
    <2>1. next' \in 1..(Len(line.opts) + 1) /\ sub' \in Nat \ {0}
      BY SubOptionRead
    <2> QED BY <2>1, SubOptionRead DEF CliInv, Shape
  <1>2. CASE ppc' = "rejected" /\ BadSub(s)
    <2>1. DOMAIN line.opts[next].subs = 1..Len(line.opts[next].subs)
      BY SubOptionRead, LineFacts
    <2>2. BadOption(next)
      BY <1>2, <2>1, SubOptionRead DEF BadOption
    <2> QED BY <1>1, <1>2, <2>2, SubOptionRead, WrongOption, GivenUp
  <1> QED BY <1>1, <1>2, GivenUp

LEMMA FilterEndsKeeps ==
    ASSUME CliInv, NEW o, FilterEnds(o)
    PROVE  CliInv'
  <1>1. PICK zero \in BOOLEAN :
          LET bad == (IF clictx.content = Dangling THEN zero ELSE clictx.content = 0)
                      \/ clictx.type = "empty"
          IN /\ ppc' = IF bad THEN "rejected" ELSE ppc
             /\ errno' = IF bad THEN 0 ELSE errno
    BY DEF FilterEnds
  <1>2. /\ line' = line /\ line \in Lines /\ ppc = "parse" /\ o = line.opts[next]
        /\ next <= Len(line.opts) /\ next \in 1..(Len(line.opts) + 1) /\ sub \in Nat \ {0}
        /\ next' = next + 1 /\ sub' = 1 /\ o.opt = "f" /\ sub > Len(o.subs) /\ Option(o)
        /\ clictx' = clictx /\ limit' = limit
    BY DEF FilterEnds, Option, At, CliInv, Shape
  <1>3. Len(line.opts) \in Nat
    BY <1>2, LineFacts
  <1>4. next \in 1..Len(line.opts) /\ next - 1 \in Nat /\ (next - 1) + 1 = next
        /\ next' - 1 = next /\ next' \in 1..(Len(line.opts) + 1)
    BY <1>2, <1>3
  <1>5. Len(o.subs) \in Nat /\ DOMAIN o.subs = 1..Len(o.subs)
    BY <1>2, <1>4, LineFacts
  <1>6. DoneSubs' = DoneSubs /\ DoneSubs = SubPlaces(next)
    BY <1>2, <1>4, DoneSubsFilterEnds
  <1>7. /\ clictx.pid = PidSaid(next - 1) /\ limit = LimitSaid(next - 1)
        /\ clictx.verbose = Cardinality(Places("v", next - 1))
        /\ clictx.ptrace = (Places("ptrace", next - 1) # {})
        /\ clictx.type = SubSaid(Types(DoneSubs), "empty")
        /\ clictx.type = "empty" <=> Types(DoneSubs) = {}
        /\ clictx.content \in {Dangling, SubSaid(Contents(DoneSubs), 0)}
    BY <1>2 DEF CliInv, SaidSoFar, Reading
  <1>8. Shape'
    BY <1>1, <1>2, <1>4 DEF CliInv, Shape
  <1>9. CASE ppc' = "rejected"
    <2>1. clictx.content # Dangling => clictx.content = 0 \/ clictx.type = "empty"
      BY <1>1, <1>2, <1>9
    <2>2. clictx.content # Dangling => BadOption(next)
      BY <1>2, <1>6, <1>7, <2>1 DEF BadOption
    <2> QED BY <1>2, <1>4, <1>8, <1>9, <2>2, WrongOption, GivenUp
  <1>10. CASE ppc' # "rejected"
    <2>1. /\ ppc' = "parse" /\ errno' = errno /\ clictx.type # "empty"
          /\ clictx.content # Dangling => clictx.content # 0
      BY <1>1, <1>2, <1>10
    <2>2. SaidSoFar'
      <3>1. /\ \A k : (Places(k, next - 1))' = Places(k, next)
            /\ (PidSaid(next - 1))' = PidSaid(next)
            /\ (LimitSaid(next - 1))' = LimitSaid(next)
        BY <1>2, <1>4, SameLine
      <3>2. /\ PidSaid(next) = PidSaid(next - 1) /\ LimitSaid(next) = LimitSaid(next - 1)
            /\ Places("v", next) = Places("v", next - 1)
            /\ Places("ptrace", next) = Places("ptrace", next - 1)
        BY <1>2, <1>4, PidSaidNext, LimitSaidNext, PlacesNext, ZenonT(40)
      <3>3. /\ (Types(DoneSubs))' = Types(DoneSubs)
            /\ (SubSaid(Types(DoneSubs), "empty"))' = SubSaid(Types(DoneSubs), "empty")
            /\ (SubSaid(Contents(DoneSubs), 0))' = SubSaid(Contents(DoneSubs), 0)
        BY <1>2, <1>6, SameLine
      <3> QED BY <1>2, <1>7, <3>1, <3>2, <3>3 DEF SaidSoFar
    <2>3. Settled' /\ RejectedForCause'
      BY <1>2, <2>1 DEF CliInv, Settled, RejectedForCause
    <2>4. ErrnoFromKill'
      BY <1>2, <2>1, ErrnoOption
    <2>5. GoodSoFar'
      <3>1. CASE clictx.content = Dangling
        BY <1>2, <3>1 DEF GoodSoFar
      <3>2. CASE clictx.content # Dangling
        <4>1. \A j \in 1..(sub - 1) : ~BadSub(o.subs[j])
          BY <1>2, <3>2 DEF CliInv, GoodSoFar, Reading
        <4>2. \A j \in DOMAIN o.subs : ~BadSub(o.subs[j])
          BY <1>2, <1>5, <4>1
        <4>3. ~BadOption(next)
          BY <1>2, <1>6, <1>7, <2>1, <3>2, <4>2 DEF BadOption
        <4> QED BY <1>2, <4>3, GoodOption
      <3> QED BY <3>1, <3>2
    <2> QED BY <1>8, <2>2, <2>3, <2>4, <2>5 DEF CliInv
  <1> QED BY <1>9, <1>10

LEMMA FilterKeeps ==
    ASSUME CliInv, Filter
    PROVE  CliInv'
  <1>1. PICK o \in ToSet(line.opts) :
          \/ FilterEnds(o)
          \/ \E s \in ToSet(o.subs) :
               FilterType(s) \/ FilterContent(s) \/ FilterNoContent(s) \/ SubRejected(s)
    BY DEF Filter
  <1>2. CASE FilterEnds(o)
    BY <1>2, FilterEndsKeeps
  <1>3. ASSUME NEW s, FilterType(s) PROVE CliInv'
    BY <1>3, FilterTypeKeeps
  <1>4. ASSUME NEW s, FilterContent(s) PROVE CliInv'
    BY <1>4, FilterContentKeeps
  <1>5. ASSUME NEW s, FilterNoContent(s) PROVE CliInv'
    BY <1>5, SubGivenUp DEF FilterNoContent
  <1>6. ASSUME NEW s, SubRejected(s) PROVE CliInv'
    BY <1>6, SubGivenUp DEF SubRejected, BadSub
  <1> QED BY <1>1, <1>2, <1>3, <1>4, <1>5, <1>6

\* At the end of the line all of it has been read.
LEMMA AllRead ==
    ASSUME line \in Lines, next = Len(line.opts) + 1, sub = 1
    PROVE  DoneSubs = SubPlaces(Len(line.opts)) /\ next - 1 = Len(line.opts)
  <1>1. Len(line.opts) \in Nat
    BY LineFacts
  <1>2. ASSUME NEW p \in SubPlaces(Len(line.opts)) PROVE p[1] < next
    BY <1>1, <1>2, SubPlacesElement
  <1> QED BY <1>1, <1>2 DEF DoneSubs

\* What a line that was read to its end means.
LEMMA MeaningRead ==
    ASSUME Shape, SaidSoFar, ppc \in {"parse", "parsed"},
           next = Len(line.opts) + 1, sub = 1
    PROVE  /\ clictx.pid = PidSaid(Len(line.opts)) /\ limit = LimitSaid(Len(line.opts))
           /\ clictx.verbose = Cardinality(Places("v", Len(line.opts)))
           /\ clictx.ptrace = (Places("ptrace", Len(line.opts)) # {})
           /\ clictx.type = SubSaid(Types(SubPlaces(Len(line.opts))), "empty")
           /\ clictx.content \in {Dangling, SubSaid(Contents(SubPlaces(Len(line.opts))), 0)}
  BY AllRead DEF Shape, SaidSoFar, Reading

LEMMA EndOfOptionsKeeps ==
    ASSUME CliInv, EndOfOptions
    PROVE  CliInv'
  <1> DEFINE ctx == [clictx EXCEPT !.command = DefaultCommand(clictx)]
  <1>1. /\ ppc = "parse" /\ next > Len(line.opts)
        /\ line' = line /\ next' = next /\ sub' = sub /\ limit' = limit
        /\ \/ /\ ctx.command # "trace" /\ ctx.pid = PT_PID_ALL
              /\ ppc' = "rejected" /\ clictx' = ctx /\ errno' = 0
           \/ /\ ~(ctx.command # "trace" /\ ctx.pid = PT_PID_ALL)
              /\ ppc' = "parsed" /\ clictx' = WithLimit(ctx, limit) /\ errno' = errno
    BY DEF EndOfOptions
  <1>2. /\ line \in Lines /\ clictx \in Contexts /\ limit \in Int
        /\ limit >= PT_LIMIT_UNLIMITED
        /\ next \in 1..(Len(line.opts) + 1) /\ sub \in Nat \ {0}
        /\ clictx.frame = PT_LIMIT_UNLIMITED /\ clictx.request = PT_LIMIT_UNLIMITED
        /\ clictx.command = Command(line.word) /\ line.word # "noargs"
    BY <1>1 DEF CliInv, Shape, Settled
  <1>3. Len(line.opts) \in Nat
    BY <1>2, LineFacts
  <1>4. next = Len(line.opts) + 1 /\ sub = 1
    <2>1. next > Len(line.opts) /\ next \in 1..(Len(line.opts) + 1)
      BY <1>1, <1>2
    <2>2. next = Len(line.opts) + 1 /\ ~(next <= Len(line.opts))
      BY <1>3, <2>1
    <2> QED BY <1>1, <2>2 DEF CliInv, Shape
  <1>5. /\ ctx \in Contexts /\ ctx.command = DefaultCommand(clictx)
        /\ \A k \in {"verbose", "pid", "ptrace", "type", "content", "frame", "request"} :
               ctx[k] = clictx[k]
    BY <1>2 DEF DefaultCommand, Contexts
  <1>6. ctx.command = IF line.word = "none" /\ clictx.pid # PT_PID_INVALID
                      THEN "trace" ELSE Command(line.word)
    BY <1>2, <1>5 DEF DefaultCommand, Command
  <1> HIDE DEF ctx
  <1>7. CASE ppc' = "rejected"
    <2>1. clictx' = ctx /\ ctx.command # "trace" /\ ctx.pid = PT_PID_ALL /\ errno' = 0
      BY <1>1, <1>7
    <2>2. Shape'
      BY <1>1, <1>2, <1>5, <1>7, <2>1 DEF CliInv, Shape
    <2>3. PidSaid(Len(line.opts)) = clictx.pid
      BY <1>1, <1>4, MeaningRead DEF CliInv
    <2>4. Meaning.pid = PidSaid(Len(line.opts)) /\ Meaning.command = ctx.command
      BY <1>6, <2>3 DEF Meaning
    <2>5. BadLine
      BY <1>5, <2>1, <2>3, <2>4 DEF BadLine
    <2>6. BadLine'
      <3>1. CASE \E i \in DOMAIN line.opts : BadOption(i)
        BY <1>1, <1>2, <3>1, WrongOption, LineFacts
      <3>2. CASE Meaning.pid = PT_PID_ALL /\ Meaning.command # "trace"
        <4>1. PidSaid(Len(line.opts))' = PidSaid(Len(line.opts))
          BY <1>1, SameLine
        <4>2. Meaning'.pid = Meaning.pid /\ Meaning'.command = Meaning.command
          BY <1>1, <4>1 DEF Meaning
        <4> QED BY <3>2, <4>2 DEF BadLine
      <3> QED BY <2>5, <3>1, <3>2 DEF BadLine
    <2> QED BY <1>7, <2>2, <2>6, GivenUp
  <1>8. CASE ppc' = "parsed"
    <2> DEFINE lim == IF limit = 0 THEN PT_LIMIT_UNLIMITED ELSE limit
    <2>1. clictx' = WithLimit(ctx, limit) /\ (ctx.command = "trace" \/ ctx.pid # PT_PID_ALL)
          /\ errno' = errno
      BY <1>1, <1>8
    <2>2. /\ clictx' \in Contexts /\ clictx'.command = ctx.command
          /\ \A k \in {"verbose", "pid", "ptrace", "type", "content"} : clictx'[k] = clictx[k]
          /\ clictx'.frame = IF clictx.type = "url" THEN PT_LIMIT_UNLIMITED ELSE lim
          /\ clictx'.request = IF clictx.type = "url" THEN lim ELSE PT_LIMIT_UNLIMITED
      <3>1. CASE limit = 0
        BY <1>2, <1>5, <2>1, <3>1 DEF WithLimit, PT_LIMIT_UNLIMITED
      <3>2. CASE limit # 0 /\ ctx.type = "url"
        <4>1. clictx' = [ctx EXCEPT !.request = limit]
          BY <2>1, <3>2 DEF WithLimit
        <4> QED BY <1>2, <1>5, <3>2, <4>1 DEF Contexts
      <3>3. CASE limit # 0 /\ ctx.type # "url"
        <4>1. clictx' = [ctx EXCEPT !.frame = limit]
          BY <2>1, <3>3 DEF WithLimit
        <4> QED BY <1>2, <1>5, <3>3, <4>1 DEF Contexts
      <3> QED BY <3>1, <3>2, <3>3
    <2>3. /\ clictx'.verbose = clictx.verbose /\ clictx'.pid = clictx.pid
          /\ clictx'.ptrace = clictx.ptrace /\ clictx'.type = clictx.type
          /\ clictx'.content = clictx.content /\ ctx.pid = clictx.pid
      BY <1>5, <2>2
    <2>4. lim \in Int /\ lim >= PT_LIMIT_UNLIMITED /\ lim # 0
      <3>1. CASE limit = 0
        BY <3>1 DEF PT_LIMIT_UNLIMITED
      <3>2. CASE limit # 0
        BY <1>2, <3>2
      <3> QED BY <3>1, <3>2
    <2>5. Shape'
      BY <1>1, <1>2, <1>4, <1>8, <2>1, <2>2, <2>3, <2>4
      DEF CliInv, Shape, PT_LIMIT_UNLIMITED
    <2>6. SaidSoFar'
      <3>1. /\ clictx.pid = PidSaid(next - 1) /\ limit = LimitSaid(next - 1)
            /\ clictx.verbose = Cardinality(Places("v", next - 1))
            /\ clictx.ptrace = (Places("ptrace", next - 1) # {})
            /\ clictx.type = SubSaid(Types(DoneSubs), "empty")
            /\ clictx.type = "empty" <=> Types(DoneSubs) = {}
            /\ clictx.content \in {Dangling, SubSaid(Contents(DoneSubs), 0)}
        BY <1>1 DEF CliInv, SaidSoFar, Reading
      <3>2. /\ \A k : (Places(k, next - 1))' = Places(k, next - 1)
            /\ (PidSaid(next - 1))' = PidSaid(next - 1)
            /\ (LimitSaid(next - 1))' = LimitSaid(next - 1)
        BY <1>1, SameLine
      <3>3. DoneSubs' = DoneSubs
        <4>1. SubPlaces(Len(line.opts))' = SubPlaces(Len(line.opts))
          BY <1>1, SameLine
        <4> QED BY <1>1, <4>1 DEF DoneSubs
      <3>4. /\ (Types(DoneSubs))' = Types(DoneSubs)
            /\ (SubSaid(Types(DoneSubs), "empty"))' = SubSaid(Types(DoneSubs), "empty")
            /\ (SubSaid(Contents(DoneSubs), 0))' = SubSaid(Contents(DoneSubs), 0)
        BY <1>1, <3>3, SameLine
      <3> QED BY <1>1, <2>3, <3>1, <3>2, <3>4 DEF SaidSoFar
    <2>7. Settled'
      BY <1>1, <1>6, <1>8, <2>1, <2>2, <2>3 DEF Settled
    <2>8. GoodSoFar'
      <3>1. \A i : BadOption(i)' <=> BadOption(i)
        BY <1>1, SameLine
      <3>2. clictx.content # Dangling => \A i \in 1..(next - 1) : ~BadOption(i)
        BY <1>1 DEF CliInv, GoodSoFar, Reading
      <3> QED BY <1>1, <1>4, <2>3, <3>1, <3>2 DEF GoodSoFar
    <2>9. ErrnoFromKill'
      BY <1>8 DEF ErrnoFromKill
    <2>10. RejectedForCause'
      <3>1. ASSUME clictx'.content # Dangling PROVE ~BadLine'
        <4>1. \A i \in DOMAIN line'.opts : ~BadOption(i)'
          <5>1. \A i \in 1..(next' - 1) : ~BadOption(i)'
            BY <1>8, <2>8, <3>1 DEF GoodSoFar, Reading
          <5>2. DOMAIN line'.opts = 1..Len(line.opts) /\ next' = Len(line.opts) + 1
            BY <1>1, <1>2, <1>4, LineFacts
          <5>3. next' - 1 = Len(line.opts)
            BY <1>3, <5>2
          <5> QED BY <5>1, <5>2, <5>3
        <4>2. clictx'.pid = PidSaid(Len(line.opts))'
          BY <1>1, <1>4, <1>8, <2>5, <2>6, MeaningRead DEF SaidSoFar, Reading
        <4>3. Meaning'.pid = clictx'.pid /\ Meaning'.command = clictx'.command
          BY <1>1, <1>6, <2>2, <2>3, <4>2 DEF Meaning
        <4> QED BY <2>1, <2>2, <2>3, <4>1, <4>3 DEF BadLine
      <3> QED BY <1>8, <3>1 DEF RejectedForCause
    <2> QED BY <2>5, <2>6, <2>7, <2>8, <2>9, <2>10 DEF CliInv
  <1> QED BY <1>1, <1>7, <1>8

LEMMA ParseArgsKeeps ==
    ASSUME CliInv, [ParseArgs]_cliVars
    PROVE  CliInv'
  <1>1. CASE UNCHANGED cliVars
    <2>1. /\ line' = line /\ next' = next /\ sub' = sub /\ clictx' = clictx
          /\ limit' = limit /\ errno' = errno /\ ppc' = ppc
      BY <1>1 DEF cliVars
    <2>2. /\ \A n : PidSaid(n)' = PidSaid(n) /\ LimitSaid(n)' = LimitSaid(n)
          /\ \A n, k : Places(k, n)' = Places(k, n)
          /\ \A n : BadOption(n)' <=> BadOption(n)
      BY <2>1, SameLine
    <2>3. DoneSubs' = DoneSubs
      <3>1. SubPlaces(Len(line.opts))' = SubPlaces(Len(line.opts))
        BY <2>1, SameLine
      <3> QED BY <2>1, <3>1 DEF DoneSubs
    <2>4. /\ (Types(DoneSubs))' = Types(DoneSubs)
          /\ (SubSaid(Types(DoneSubs), "empty"))' = SubSaid(Types(DoneSubs), "empty")
          /\ (SubSaid(Contents(DoneSubs), 0))' = SubSaid(Contents(DoneSubs), 0)
      BY <2>1, <2>3, SameLine
    <2>5. Shape' /\ Settled'
      BY <2>1 DEF CliInv, Shape, Settled
    <2>6. SaidSoFar'
      BY <2>1, <2>2, <2>4 DEF CliInv, SaidSoFar, Reading
    <2>7. GoodSoFar' /\ ErrnoFromKill'
      BY <2>1, <2>2 DEF CliInv, GoodSoFar, Reading, ErrnoFromKill, OthersPid
    <2>8. RejectedForCause'
      <3>1. PidSaid(Len(line.opts))' = PidSaid(Len(line.opts))
        BY <2>1, SameLine
      <3>2. Meaning'.pid = Meaning.pid /\ Meaning'.command = Meaning.command
        BY <2>1, <3>1 DEF Meaning
      <3>3. BadLine' <=> BadLine
        BY <2>1, <2>2, <3>2 DEF BadLine
      <3>4. StaleErrno' <=> StaleErrno
        BY <2>1 DEF StaleErrno
      <3> QED BY <2>1, <3>3, <3>4 DEF CliInv, RejectedForCause
    <2> QED BY <2>5, <2>6, <2>7, <2>8 DEF CliInv
  <1>2. CASE ParseArgs
    <2>1. ASSUME NEW o, PidAll(o) \/ Pid(o) \/ PidRejected(o) \/ LimitOption(o)
                          \/ Verbose(o) \/ Ptrace(o) \/ Help(o)
          PROVE  CliInv'
      BY <2>1, PidAllKeeps, PidKeeps, PidRejectedKeeps, LimitOptionKeeps, VerboseKeeps,
         PtraceKeeps, HelpKeeps
    <2> QED BY <1>2, <2>1, FilterKeeps, EndOfOptionsKeeps DEF ParseArgs
  <1> QED BY <1>1, <1>2

LEMMA CliInvInit == CliInit => CliInv
  <1> SUFFICES ASSUME CliInit PROVE CliInv
    OBVIOUS
  <1>1. /\ line \in Lines /\ next = 1 /\ sub = 1 /\ limit = 0 /\ errno = 0
        /\ ppc \in {"parse", "parsed"} /\ (ppc = "parsed" <=> line.word = "noargs")
    BY DEF CliInit
  <1>2. Len(line.opts) \in Nat /\ (line.word = "noargs" => Len(line.opts) = 0)
    BY <1>1, LineFacts
  <1>3. /\ clictx \in Contexts /\ clictx.command = Command(line.word)
        /\ clictx.pid = PT_PID_INVALID /\ clictx.verbose = 0 /\ clictx.ptrace = FALSE
        /\ clictx.type = "empty" /\ clictx.content = 0
        /\ clictx.frame = PT_LIMIT_UNLIMITED /\ clictx.request = PT_LIMIT_UNLIMITED
    <2>1. Command(line.word) \in {"trace", "version", "status", "unknown", "invalid"}
      BY DEF Command
    <2>2. context_init \in Contexts
      BY DEF context_init, Contexts, PT_PID_INVALID, PT_LIMIT_UNLIMITED
    <2>3. clictx = [context_init EXCEPT !.command = Command(line.word)]
      BY DEF CliInit
    <2> QED BY <2>1, <2>2, <2>3 DEF context_init, Contexts
  <1>4. PT_PID_ALL # PT_PID_INVALID
    BY CliAssumption DEF PT_PID_ALL, PT_PID_INVALID
  <1>5. Shape
    BY <1>1, <1>2, <1>3 DEF Shape, PT_LIMIT_UNLIMITED
  <1>6. DoneSubs = {} /\ \A k : Places(k, next - 1) = {}
    <2>1. \A k : Places(k, next - 1) = {}
      BY <1>1 DEF Places
    <2>2. ASSUME NEW p \in DoneSubs PROVE FALSE
      <3>1. p \in SubPlaces(Len(line.opts)) /\ (p[1] < 1 \/ (p[1] = 1 /\ p[2] < 1))
        BY <1>1, <2>2 DEF DoneSubs
      <3>2. PICK i \in 1..Len(line.opts), j \in Nat :
              line.opts[i].opt = "f" /\ j \in 1..Len(line.opts[i].subs) /\ p = <<i, j>>
        <4>1. PICK i \in 1..Len(line.opts) :
                line.opts[i].opt = "f" /\ \E j \in DOMAIN line.opts[i].subs : p = <<i, j>>
          BY <1>2, <3>1, SubPlacesElement
        <4>2. /\ DOMAIN line.opts[i].subs = 1..Len(line.opts[i].subs)
              /\ Len(line.opts[i].subs) \in Nat
          BY <1>1, <4>1, LineFacts
        <4> QED BY <4>1, <4>2
      <3>3. Len(line.opts[i].subs) \in Nat
        BY <1>1, <3>2, LineFacts
      <3> QED BY <1>2, <3>1, <3>2, <3>3
    <2> QED BY <2>1, <2>2
  <1>7. SaidSoFar
    <2>1. Types({}) = {} /\ Contents({}) = {} /\ Cardinality({}) = 0
      BY FS_EmptySet DEF Types, Contents
    <2> QED BY <1>1, <1>3, <1>6, <2>1 DEF SaidSoFar, PidSaid, LimitSaid, SubSaid
  <1>8. Settled
    BY <1>1, <1>3, <1>4 DEF Settled, Command
  <1>9. GoodSoFar /\ ErrnoFromKill
    BY <1>1 DEF GoodSoFar, ErrnoFromKill
  <1>10. RejectedForCause
    <2>1. ASSUME ppc = "parsed" PROVE ~BadLine
      <3>1. Len(line.opts) = 0 /\ DOMAIN line.opts = {}
        BY <1>1, <1>2, <2>1, LineFacts
      <3>2. PidSaid(Len(line.opts)) = PT_PID_INVALID
        BY <1>1, <1>6, <3>1 DEF PidSaid
      <3>3. Meaning.pid = PT_PID_INVALID
        BY <3>2 DEF Meaning
      <3> QED BY <1>4, <3>1, <3>3 DEF BadLine
    <2> QED BY <1>1, <2>1 DEF RejectedForCause
  <1> QED BY <1>5, <1>7, <1>8, <1>9, <1>10 DEF CliInv

\* The invariant has what is promised of parse_args.
LEMMA CliInvParsed == CliInv => CliTypeOK /\ ParsedMeaning /\ RejectedForCause
  <1> SUFFICES ASSUME CliInv PROVE CliTypeOK /\ ParsedMeaning /\ RejectedForCause
    OBVIOUS
  <1>1. CliTypeOK /\ RejectedForCause
    BY DEF CliInv, Shape, CliTypeOK
  <1>2. ASSUME ppc = "parsed" PROVE
          \A k \in DOMAIN Meaning :
              clictx[k] = Meaning[k] \/ (k = "content" /\ clictx.content = Dangling)
    <2>1. Shape /\ SaidSoFar /\ Settled /\ next = Len(line.opts) + 1 /\ sub = 1
      BY <1>2 DEF CliInv, Shape
    <2>2. /\ clictx.pid = PidSaid(Len(line.opts)) /\ limit = LimitSaid(Len(line.opts))
          /\ clictx.verbose = Cardinality(Places("v", Len(line.opts)))
          /\ clictx.ptrace = (Places("ptrace", Len(line.opts)) # {})
          /\ clictx.type = SubSaid(Types(SubPlaces(Len(line.opts))), "empty")
          /\ clictx.content \in {Dangling, SubSaid(Contents(SubPlaces(Len(line.opts))), 0)}
      BY <1>2, <2>1, MeaningRead
    <2>3. DOMAIN Meaning = {"command", "verbose", "pid", "ptrace", "type", "content",
                            "frame", "request"}
      BY DEF Meaning
    <2>4. /\ Meaning.pid = clictx.pid /\ Meaning.verbose = clictx.verbose
          /\ Meaning.type = clictx.type
          /\ clictx.content = Dangling \/ Meaning.content = clictx.content
      BY <2>2 DEF Meaning
    <2>5. Meaning.ptrace = clictx.ptrace
      BY <2>2 DEF Meaning
    <2>6. /\ Meaning.command = clictx.command
          /\ Meaning.frame = clictx.frame /\ Meaning.request = clictx.request
      BY <1>2, <2>1, <2>2 DEF Meaning, Settled
    <2> QED BY <2>3, <2>4, <2>5, <2>6
  <1> QED BY <1>1, <1>2 DEF ParsedMeaning
=============================================================================
