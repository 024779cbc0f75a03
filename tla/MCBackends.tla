----------------------------- MODULE MCBackends -----------------------------
(***************************************************************************)
(* bf2any from the text to the target language, for each backend: the      *)
(* front end runs, every command it lets out goes through gen_code, and    *)
(* what the generated program does is compared with microbf's run of the   *)
(* text.                                                                   *)
(***************************************************************************)
EXTENDS BF2Any

CONSTANTS
  IntBits,     \* the width of an int cell
  WideBits,    \* the width of the larger cells
  HugeBits,    \* stands for a cell without a limit in the reference run
  TapeSize,    \* of the reference interpreter, a ring
  Fuel,        \* steps of a reference run
  MaxRun, MaxWhile, MaxJump, MaxDepth, MaxInstr,
  NewLine,     \* the character that ends a line
  Names,       \* the backends that are looked at
  Flawed       \* those with a flaw that is known, and left out

VARIABLES
  name, opt,   \* the backend and its options
  text,        \* the program as it was (history)
  g,           \* gen_code's state
  taken,       \* how many commands gen_code has seen
  given, w     \* a string so far (history), and print_cstring's variables

genVars == <<src, fe, s, text, g, taken>>
strVars == <<given, w>>
mcVars  == <<genVars, strVars, name, opt>>

G == INSTANCE BF2Backends
M(CellBits) == INSTANCE MicroBF

Profile(n, o) == IF o = "-b32" THEN G!WithBits(G!Table[n]) ELSE G!Table[n]

\* What load_and_run sees of a backend.
Interface(p, o) ==
  [ cells_are_ints |-> p.be.ints, bytecell |-> o \in {"-b", "-b -m"} \/ p.be.bytesonly,
    disable_be_optim |-> p.be.limited, enable_chrtok |-> p.be.chrtok, tapeinit |-> 0,
    enable_optim |-> o # "-b -m", disable_init_optim |-> o = "-b -m",
    enable_rle |-> FALSE, enable_debug |-> FALSE, eofcell |-> 0 ]

Options(n) == {"", "-b", "-b -m"} \cup (IF n \in G!Sized THEN {"-b32"} ELSE {})

(***************************************************************************)
(* Programs.                                                               *)
(***************************************************************************)
Lp(b)  == <<"[">> \o b \o <<"]">>
Add(n) == [i \in 1 .. n |-> "+"]
Sub(n) == [i \in 1 .. n |-> "-"]
R(n)   == [i \in 1 .. n |-> ">"]
L(n)   == [i \in 1 .. n |-> "<"]
In == <<",">>
Out == <<".">>
Zero == Lp(Sub(1))

Texts ==
  { Add(2) \o Out \o R(1) \o Add(3) \o Out \o L(1) \o Out,
    Add(1) \o Lp(<<>>), In \o Add(1) \o Out, In \o Sub(2) \o Out, Sub(1) \o Out,
    In \o Lp(Sub(1) \o Out), In \o Lp(R(1) \o Add(1) \o L(1) \o Sub(1)) \o R(1) \o Out,
    In \o Lp(Sub(1) \o R(1) \o Add(2) \o R(1) \o Sub(3) \o L(2)) \o R(1) \o Out \o R(1) \o Out,
    R(1) \o In \o Lp(Sub(1) \o L(1) \o Add(1) \o R(1)) \o L(1) \o Lp(Out \o Sub(1)),
    In \o Lp(Zero \o R(1) \o Add(1) \o Out \o L(1)) \o Out,
    In \o Lp(Lp(Sub(1) \o R(1) \o Add(1) \o L(1)) \o R(1) \o Out \o L(1)),
    In \o Lp(R(1) \o In) \o L(1) \o Lp(Out \o L(1)),
    R(2) \o Add(2) \o Lp(L(1) \o Add(2) \o Lp(L(1) \o Out \o R(1) \o Sub(1)) \o R(1) \o Sub(1)),
    In \o R(1) \o Sub(2) \o Lp(L(1) \o Add(1) \o R(1) \o Add(1)) \o L(1) \o Out,
    Sub(1) \o Lp(Add(1) \o Out), In \o Lp(R(1) \o Lp(Out \o Sub(1)) \o L(1) \o Sub(1)) \o Out,
    In \o R(1) \o In \o L(1) \o Lp(R(1) \o Lp(Out \o R(1)) \o L(1) \o Zero) \o R(1) \o Out,
    In \o Lp(R(1) \o Add(1) \o R(1) \o Add(1) \o L(2) \o Sub(1)) \o R(2)
       \o Lp(L(2) \o Add(1) \o R(2) \o Sub(1)) \o L(1) \o Out \o L(1) \o Out,
    In \o Sub(3) \o Lp(Lp(R(1) \o Add(1) \o L(1) \o Zero) \o Out) \o R(1) \o Out,
    In \o Sub(1) \o Lp(Zero \o R(1) \o Out) \o R(1) \o In \o Lp(Lp(R(1)) \o Add(1) \o L(1)) \o Out,
    In \o R(1) \o Add(1) \o Zero \o L(1) \o Lp(Sub(1) \o R(1) \o Sub(1) \o L(1)) \o R(1) \o Out,
    In \o Lp(R(1) \o Add(1) \o Lp(In \o Out \o Zero) \o L(1) \o Sub(1)) \o Out,
    In \o Lp(Lp(<<>>) \o Out) \o Out, In \o Sub(2 * Bytes + 2) \o Out }

FixedText(t) == << [stdin |-> FALSE, text |-> t] >>

Inputs ==
  { <<>>, <<1>>, <<Bytes - 1>>, <<1, NewLine>>, <<3, NewLine>>, <<Bytes - 1, NewLine>> }

Whole(lines) == lines = <<>> \/ Last(lines) = NewLine

Codes == [ch \in {} |-> 0]

(***************************************************************************)
(* The run.  The front end calls gen_code for each command it lets out.    *)
(* gen_code changes nothing the front end looks at, so the calls can be    *)
(* made when it is done: only then a backend is chosen, of those with the  *)
(* interface it was run for.                                               *)
(***************************************************************************)
P == Profile(name, opt)

NoBackend == name = ""
Program   == name = "" \/ opt \notin {"short", "long"}

ProgramInit ==
  /\ \E t \in Texts :
       \E be \in UNION {{Interface(Profile(n, o), o) : o \in Options(n)} : n \in Names} :
         FrontInit(FixedText(t), be) /\ text = t
  /\ name = "" /\ opt = "" /\ g = G!GenStart /\ taken = 0
  /\ given = <<>> /\ w = G!TextStart

\* A string that is empty, or one that has nearly filled buf: one character
\* stands for all of them.
Lengths(t) == IF "plain" \in t.alone THEN {} ELSE t.size - t.slack - 1 .. t.size - t.slack + 1

StringInit ==
  \E n \in Names :
    /\ FrontInit(<<>>, Interface(Profile(n, ""), ""))
    /\ name = n /\ text = <<>> /\ g = G!GenStart /\ taken = 0
    /\ \/ opt = "short" /\ given = <<>> /\ w = G!TextStart
       \/ \E k \in Lengths(G!Table[n].text) :
            /\ opt = "long" /\ given = <<"plain">>
            /\ w = [G!TextStart EXCEPT !.buf = <<"plain">>, !.len = k, !.most = k]

MCInit == ProgramInit \/ StringInit

(***************************************************************************)
(* A string, one character at a time.                                      *)
(***************************************************************************)
Style    == P.text
Complete == given # <<>> /\ Last(given) = "end"

\* Of the characters a style treats alike, one is enough.
Odd == {"nl", "perc", "digit"}

Alike(t, c) == <<t.wide[c], c \in t.alone, c \in t.first, c \in t.runs_on>>

Characters(t) ==
  Odd \cup {CHOOSE c \in G!Glyphs \ Odd : Alike(t, c) = a :
              a \in {Alike(t, c) : c \in G!Glyphs \ Odd}}

\* Any two characters, at the start or where buf is nearly full.
Open == Len(given) < (IF opt = "short" THEN 2 ELSE 3)

PrintChar ==
  /\ ~Program /\ ~Complete /\ Open
  /\ \E c \in Characters(Style) : given' = Append(given, c) /\ w' = G!Turn(Style, w, c)
  /\ UNCHANGED <<genVars, name, opt>>

EndOfString ==
  /\ ~Program /\ ~Complete
  /\ given' = Append(given, "end")
  /\ w' = G!Turn(Style, w, "end")
  /\ UNCHANGED <<genVars, name, opt>>

FrontEnd ==
  /\ NoBackend /\ (ReadChar \/ NextFile \/ EndOfFiles)
  /\ UNCHANGED <<name, opt, text, g, taken, given, w>>

Choose ==
  /\ NoBackend /\ fe.ended /\ s.status = "run"
  /\ \E n \in Names :
       \E o \in Options(n) :
         Interface(Profile(n, o), o) = s.be /\ name' = n /\ opt' = o
  /\ UNCHANGED <<genVars, given, w>>

Waiting == ~NoBackend /\ taken < Len(s.code)

Generate ==
  /\ Program /\ Waiting
  /\ g' = G!GenCode(P, s.be, g, s.code[taken + 1])
  /\ taken' = taken + 1
  /\ UNCHANGED <<src, fe, s, name, opt, text, given, w>>

Done == ~NoBackend /\ Program /\ ~Waiting

Rest ==
  /\ Done \/ Complete \/ (NoBackend /\ ~Active /\ s.status # "run")
  /\ UNCHANGED mcVars

MCNext == FrontEnd \/ Choose \/ Generate \/ PrintChar \/ EndOfString \/ Rest

MCSpec == MCInit /\ [][MCNext]_mcVars

(***************************************************************************)
(* What the text means, and what the program does.                         *)
(***************************************************************************)
Type(p) == p.types[IF s.be.bytecell THEN 2 ELSE 1]
Var(p)  == p.var[IF s.be.bytecell THEN 2 ELSE 1]

Bits(p) ==
  CASE s.be.bytecell -> ByteBits
    [] Type(p) = "int" -> IntBits
    [] Type(p) = "big" /\ ~p.always -> HugeBits
    [] OTHER -> WideBits

\* Without -b no value is an error to print.
Lang(p) ==
  [ cell |-> Type(p), var |-> Var(p), rem |-> p.rem, eof |-> p.eof, reads |-> p.reads,
    own |-> p.own,
    shows |-> IF p.shows = "char" /\ ~s.be.bytecell THEN "byte" ELSE p.shows ]

LastRead(io) ==
  LET read == SelectSeq(io, LAMBDA e : e.ev = "in")
  IN  IF read = <<>> THEN 0 ELSE Last(read).val

\* A read in the text.  The language leaves open what comes of it at the end
\* of the input, and each backend has a way of its own; one that cannot read
\* ends there.
RefRead(p, bits, b, v) ==
  LET e == M(bits)!Step(b, v) IN
  CASE p.input = "halt"  -> [v EXCEPT !.status = "stop"]
    [] v.stdin # <<>> \/ p.eof = "keep" -> e
    [] p.eof = "minus"   -> M(bits)!SetCell(e, -1)
    [] p.eof = "last"    -> M(bits)!SetCell(e, LastRead(v.io))
    [] p.eof = "newline" -> M(bits)!Step(b, [v EXCEPT !.stdin = <<NewLine>>])
    [] p.eof = "fails"   -> [e EXCEPT !.status = "stop"]
    [] p.eof = "waits"   -> [e EXCEPT !.status = "waits"]

Reading(b, v) == v.p <= Len(b) /\ v.scan = "no" /\ b[v.p] = ","

RECURSIVE RefFor(_, _, _, _, _)
RefFor(p, bits, b, v, fuel) ==
  IF fuel = 0 \/ v.status # "run" THEN v
  ELSE IF fuel = 1
  THEN IF Reading(b, v) THEN RefRead(p, bits, b, v) ELSE M(bits)!Step(b, v)
  ELSE RefFor(p, bits, b, RefFor(p, bits, b, v, fuel \div 2), fuel - fuel \div 2)

\* Without -b, and where the language takes the byte of it, only the byte of
\* what is printed is looked at.
Look(p, x) ==
  CASE p.shows = "seven" -> x % 2^(ByteBits - 1)
    [] p.shows = "byte" \/ ~s.be.bytecell \/ name \in Flawed -> ToByte(x)
    [] OTHER -> x

Shown(p, io) ==
  [i \in DOMAIN io |-> IF io[i].ev = "out" THEN [io[i] EXCEPT !.val = Look(p, @)] ELSE io[i]]

\* A run that was cut off is compared as far as it went: the program may be
\* faster, and may know (X) that a loop has no end.
SameRun(p, old, new) ==
  LET a == Shown(p, old.io)
      b == Shown(p, new.io)
  IN  IF old.status = "run"
      THEN IsPrefix(a, b) \/ (IsPrefix(b, a) /\ new.status \in {"run", "stop"})
      ELSE new.status = old.status /\ a = b

\* A run that comes to a value its program has no use for: so far it was right.
GoesAstray(p, old, new) ==
  name \in Flawed /\ new.status = "odd" /\ IsPrefix(Shown(p, new.io), Shown(p, old.io))

\* Programs that read lines are given whole lines.
Means(p, t, ops) ==
  LET to == G!Partners(ops) IN
  \A in \in {x \in Inputs : p.lines => Whole(x)} :
    LET old == RefFor(p, Bits(p), t, M(Bits(p))!Start(in), Fuel)
        new == G!TargetRun(Lang(p), ops, to, in, Fuel)
    IN  SameRun(p, old, new) \/ GoesAstray(p, old, new)

(***************************************************************************)
(* Properties.                                                             *)
(***************************************************************************)
\* The statements of a flaw that is left out.
Slipped == name \in Flawed /\ \E i \in DOMAIN g.out : g.out[i].op \in G!Slips


\* Whatever the options, a backend is handed nothing its switch has no case
\* for (the X that marks a loop without an end may be left out), it is never
\* given a factor its statements cannot take, no loop is left open, and a
\* block has a statement in it if the language needs one there.
NothingUnknown ==
  /\ taken > 0 => s.code[taken].cmd \in P.knows \cup {"!", "X"}
  /\ \A i \in DOMAIN g.out : g.out[i].op # "unknown"
  /\ Done =>
       /\ g.sp = <<>> /\ \E i \in DOMAIN g.out : g.out[i].op = "end"
       /\ P.body => ~G!EmptyBlock(g.out)

\* However long a string is and wherever its quotes, newlines and odd
\* characters are: what is printed is the string, buf has room for it and the
\* 0 after it, no % ends up in a format and no digit in the code of another.
StringsPrinted ==
  ~Program =>
    /\ w.most < Style.size
    /\ Complete => /\ G!Printed(w.out) = Front(given) /\ ~G!Misread(w.out)
                   /\ name \in Flawed \/ ~G!RunsOn(Style, w.out)
=============================================================================
