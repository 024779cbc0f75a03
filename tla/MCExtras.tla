------------------------------ MODULE MCExtras ------------------------------
(***************************************************************************)
(* The interpreters, compilers and optimisers of extras/ beside microbf:   *)
(* each loads a text with its input, its own way, and runs it; then        *)
(* microbf runs what the text means, and the two are compared.  A second   *)
(* kind of run is trixy's putch, one character after the other.            *)
(***************************************************************************)
EXTENDS Machine

CONSTANTS
  IntBits,     \* the width of an int
  RingSize,    \* the cells of a ring
  BigTape,     \* a ring no run gets round
  TapeLen,     \* of the tape of bf2run
  RangeEnd, MINALLOC, MAXOFF, Lowest, MostEofs, MaxRun, MaxMove, Margin,
  CharBits, Digit,   \* for putch
  MaxCells, MaxTurns, MaxPieces,   \* for txtbf
  Printing,    \* the characters given to putch
  Steps,       \* steps of a machine in one action
  Turns        \* actions before a run is cut off

VARIABLES
  k,           \* what is run, and with which options
  text, stdin, \* the program and its input
  phase,       \* choose, load, begin, run, mean, rest; or print
  pgm, vm,     \* what was made of the text, and what runs it
  ref, turns,  \* microbf's run; the actions either run has taken
  given, w     \* the characters printed so far (history); putch's state

runVars == <<text, stdin, pgm, vm, ref, turns>>
mcVars  == <<k, phase, runVars, given, w>>

X == INSTANCE ExtrasText WITH TapeSize <- RingSize
D == INSTANCE Beef WITH TapeSize <- RingSize
R == INSTANCE ExtrasRLE
O == INSTANCE BFOpt
P == INSTANCE ProfileBF WITH LowestCell <- -Lowest
H == INSTANCE Hydrogen
Q == INSTANCE Beef WITH TapeSize <- RingSize, ByteBits <- CharBits
B == INSTANCE BF2Run
M(CellBits, TapeSize) == INSTANCE MicroBF
T == INSTANCE TxtBF WITH LongSteps <- 20000, ShortSteps <- 10000, PrevFound <- 2

(***************************************************************************)
(* Texts.  open is one with loops left open, and ] too many.               *)
(***************************************************************************)
Lp(b) == <<"[">> \o b \o <<"]">>
Add(n) == [i \in 1 .. n |-> "+"]
Sub(n) == [i \in 1 .. n |-> "-"]
Rt(n)  == [i \in 1 .. n |-> ">"]
Lf(n)  == [i \in 1 .. n |-> "<"]
In == <<",">>
Out == <<".">>
Zero == Lp(Sub(1))

Texts ==
  { <<>>, Out, Add(2) \o Out, Sub(1) \o Out, In \o Out \o In \o Out, In \o Lp(Sub(1) \o Out),
    Add(9) \o Out \o Rt(1) \o Sub(2) \o Out \o Lf(1) \o Out,
    Zero \o Add(3) \o Out, Add(3) \o Zero \o Sub(1) \o Out, Add(2) \o Lp(Sub(2)) \o Out,
    Add(1) \o Lp(Add(1)) \o Out, Add(2) \o <<"#">> \o Out,
    In \o Lp(Rt(1) \o Add(1) \o Lf(1) \o Sub(1)) \o Rt(1) \o Out,
    In \o Lp(Sub(1) \o Rt(1) \o Add(2) \o Rt(1) \o Sub(3) \o Lf(2)) \o Rt(1) \o Out \o Rt(1) \o Out,
    Rt(1) \o In \o Lp(Sub(1) \o Lf(1) \o Add(1) \o Rt(1)) \o Lf(1) \o Lp(Out \o Sub(1)),
    Add(1) \o Rt(1) \o Add(1) \o Rt(2) \o Add(1) \o Lf(3) \o Lp(Rt(1)) \o Add(1) \o Out \o Rt(1) \o Out,
    Rt(3) \o Add(1) \o Lf(1) \o Add(1) \o Rt(1) \o Lp(Lf(1)) \o Sub(1) \o Out,
    Add(2) \o Lp(Sub(1) \o Rt(1) \o Add(2) \o Lp(Sub(1) \o Rt(1) \o Add(1) \o Lf(1)) \o Lf(1)) \o Rt(2) \o Out,
    In \o Lp(Lp(Sub(1) \o Rt(1) \o Add(1) \o Lf(1)) \o Rt(1) \o Out \o Lf(1)),
    In \o Lp(Out \o Rt(1) \o In) \o Lf(1) \o Out, Add(1) \o Lp(<<>>) \o Out, Lp(<<>>) \o Out,
    In \o Lp(Lp(<<>>)) \o Out, Lp(Add(3) \o Out) \o Sub(1) \o Lp(Sub(1)) \o Lp(Out) \o Out,
    Rt(2) \o Add(3) \o Lp(Sub(1) \o Rt(2)) \o Add(1) \o Out, Lf(1) \o Add(1) \o Out,
    Rt(1) \o Add(2) \o Lf(1) \o Add(1) \o Lp(Sub(1) \o Rt(1) \o Add(1)) \o Out,
    Add(3) \o Lp(Sub(1) \o Rt(1) \o Zero \o Add(2) \o Lf(1)) \o Rt(1) \o Out,
    In \o Rt(1) \o In \o Lf(1) \o Lp(Rt(1) \o Lp(Out \o Sub(1)) \o Lf(1) \o Zero) \o Rt(1) \o Out,
    Add(1) \o Rt(1) \o Add(3) \o Lf(1) \o Lp(Zero \o Rt(1)) \o Out,
    Sub(1) \o Lp(Add(1) \o Rt(1) \o Sub(1) \o Lf(1)) \o Rt(1) \o Out,
    In \o Lp(Rt(1) \o Lp(Sub(1)) \o Lf(1) \o Sub(1) \o Lp(Out \o Sub(1))) \o Out,
    In \o Add(2) \o Lp(Out \o Zero) \o In \o Out,
    Rt(1) \o Add(1) \o Lp(Rt(1) \o Add(1) \o Out \o Lf(1) \o Sub(1)) \o Lf(1) \o Out,
    Add(5) \o Lp(Rt(1) \o Add(2) \o Lf(1) \o Sub(1)) \o Rt(1) \o Lp(Sub(1) \o Rt(1) \o Add(3) \o Lf(1)) \o Rt(1) \o Out }

Open ==
  { Add(2) \o <<"]">> \o Rt(1) \o Out, <<"]">> \o Add(1) \o Out, Add(1) \o <<"[">> \o Out \o Sub(1),
    In \o <<"[">> \o Rt(1) \o Lp(Add(1)) \o Add(1) \o Out \o Lf(1) \o Zero,
    Add(2) \o <<"[">> \o Sub(1) \o <<"[">> \o Out \o Zero \o Rt(1) \o <<"]", "]", "]">> \o Add(1) }

\* Numbers, strings and = of bfopt -R, and what they stand for.
Short ==
  { [text |-> <<"3", "+">> \o Out, means |-> Add(3) \o Out],
    [text |-> <<"1", "2", "+">> \o Out \o <<"2">> \o Rt(1) \o Out, means |-> Add(12) \o Out \o Rt(2) \o Out],
    [text |-> Add(3) \o <<"=">> \o Add(1) \o Out, means |-> Add(3) \o Zero \o Add(1) \o Out],
    [text |-> In \o <<"quote", "+", "<", "quote">> \o Out, means |-> In \o Zero \o Add(1) \o Out \o Zero \o Add(3) \o Out \o Out],
    [text |-> <<"quote", "quote", "quote", "quote", " ">> \o Add(1) \o <<"2", " ", "-">> \o Out,
     means |-> Zero \o Add(7) \o Out \o Add(1) \o Sub(2) \o Out] }

\* Double cells: m is at the help cell before and behind each of these.
Up2  == H!AddText
Dn2  == H!SubText \o Lf(1)
Set2 == Rt(1) \o H!SetText \o Lf(1)
Four == H!FourText \o Lf(3)
While2(b) == Rt(1) \o H!WhileText \o b \o Rt(1) \o H!EndText

Show2 == Rt(1) \o Out

DoublePrograms ==
  { Up2 \o Up2 \o Show2, Dn2 \o Show2 \o Rt(1) \o Out, Dn2 \o Dn2 \o Up2 \o Show2,
    Up2 \o Up2 \o While2(Dn2 \o Rt(3) \o Up2 \o Up2 \o Lf(3)) \o Rt(3) \o Show2,
    Up2 \o Up2 \o While2(Dn2) \o Up2 \o Show2, Up2 \o Up2 \o Set2 \o Show2,
    Up2 \o Rt(3) \o Four \o Up2 \o Lf(3) \o While2(Rt(3)) \o Up2 \o Show2,
    Up2 \o Rt(3) \o Four \o Dn2 \o Lf(3) \o While2(Dn2 \o Rt(3) \o Up2) \o Show2,
    Up2 \o Rt(3) \o Four \o Up2 \o Lf(3) \o While2(Dn2 \o Rt(3)) \o Dn2 \o Show2,
    Up2 \o Up2 \o While2(Dn2 \o Rt(3) \o Four \o Up2 \o Lf(3)) \o Rt(3) \o Show2 }

\* The first of these are run with words of twice the width.
DoubleTexts ==
  {Four \o p : p \in DoublePrograms} \cup {Four \o p \o Add(1) : p \in DoublePrograms}
  \cup { Up2 \o Up2 \o While2(Dn2) \o Up2 \o Show2,
         Rt(1) \o Add(7) \o Lf(1) \o Up2 \o Show2 \o Rt(1) \o Out,
         Rt(1) \o Up2 \o While2(Show2 \o Lf(1) \o Dn2) \o Show2,
         H!TempText \o Lf(3) \o Up2 \o Show2 \o In \o Out,
         Up2 \o Up2 \o Set2 \o Up2 \o Set2 \o Show2 }

Long == Len(text) > 60

(***************************************************************************)
(* What is run.  A text that is piped is followed by ! and the input.      *)
(***************************************************************************)
K(prog, args, eof, piped) == [prog |-> prog, args |-> args, eof |-> eof, piped |-> piped]

TrixyOptions == {"", "-no-rail", "-no-mov", "-no-set", "-no-rle", "-rle"}

Boolean(a, b, c) == [use_int |-> a, unix |-> b, bf |-> c]

Kinds ==
     {K(p, <<>>, 1, FALSE) : p \in {"easy", "mini", "trace", "lightning"}}
  \cup {K(p, <<>>, 1, TRUE) : p \in {"easy", "neutron", "deadbeef", "proton",
                                     "lightning", "bfopt", "hydrogen"}}
  \cup {K("neutron", <<>>, 1, FALSE), K("umueller", <<>>, -1, FALSE),
        K("lightning", <<"-i">>, 1, FALSE), K("hydrogen", <<>>, 1, FALSE)}
  \cup {K(p, <<>>, e, FALSE) : p \in {"deadbeef", "proton", "backend"}, e \in {-1, 0, 1}}
  \cup {K("long", <<"">>, e, FALSE) : e \in {0, 1}} \cup {K("noting", <<"">>, 1, FALSE)}
  \cup {K("trixy", <<o>>, 1, FALSE) : o \in TrixyOptions}
  \cup {K("trixy", <<"">>, 1, TRUE), K("trixy", <<"">>, 2, FALSE), K("dowhile", <<"">>, 0, FALSE), K("dowhile", <<"-rle">>, 1, FALSE)}
  \cup {K("cdowhile", o, 1, FALSE) : o \in {Boolean(FALSE, FALSE, FALSE), Boolean(TRUE, FALSE, TRUE),
                                            Boolean(FALSE, TRUE, TRUE)}}
  \cup {K("bfopt", o, 1, FALSE) : o \in { <<"-O0">>, <<>>, <<"-O1", "-nc">>, <<"-dc">>, <<"-ff">>,
                                          <<"-R">>, <<"-O2">>, <<"-O2", "-nc">>, <<"-O2", "-dc", "-ff">> }}
  \cup {K("profilebf", o, 1, FALSE) : o \in { <<>>, <<"-Z">>, <<"-p">>, <<"-sc">>, <<"-w">>,
                                              <<"-sc", "-p">>, <<"-N">>, <<"-d", "-Z">> }}
  \cup {K("profilebf", <<"-e">>, -1, FALSE), K("profilebf", <<"-z">>, 0, FALSE),
        K("profilebf", <<>>, 1, TRUE)}

Is(p)  == k.prog = p
Opt(o) == ~Is("cdowhile") /\ \E i \in DOMAIN k.args : k.args[i] = o

Kept      == {"neutron", "deadbeef", "trixy", "noting", "hydrogen", "profilebf", "proton"}
DoWhile   == Is("dowhile") \/ (Is("cdowhile") /\ ~k.args.bf)
Quiet     == Is("dowhile") \/ Is("cdowhile")
Reads(t)  == \E i \in DOMAIN t : t[i] = ","
Endless(t) == \E i \in 1 .. Len(t) - 1 : t[i] = "[" /\ t[i + 1] = "]"
Balanced(t) == t \notin Open

\* In the language of cdowhile a loop [] has no end.
Offered ==
  IF k.piped THEN {t \in Texts : Reads(t)}
  ELSE IF DoWhile THEN {t \in Texts : ~Endless(t)}
  ELSE Texts \cup (IF k.prog \in Kept THEN Open ELSE {})
             \cup (IF Is("hydrogen") THEN DoubleTexts ELSE {})
             \cup (IF Is("bfopt") /\ Opt("-R") THEN {s.text : s \in Short} ELSE {})

Inputs == { <<>>, <<">", "+">>, <<"!", "-", "!">> }

\* Characters are numbered.
Code(ch) ==
  CASE ch = "]" -> 0 [] ch = "+" -> 1 [] ch = "-" -> 2 [] ch = "<" -> 3 [] ch = ">" -> 4
    [] ch = "," -> 5 [] ch = "." -> 6 [] OTHER -> 7

Coded(s) == [i \in DOMAIN s |-> Code(s[i])]

Source == IF k.piped THEN text \o <<"!">> \o stdin ELSE text

(***************************************************************************)
(* What is made of the text, with the data that was behind the !.          *)
(***************************************************************************)
Split(l)  == [code |-> l.pgm, data |-> l.data]
Proton(l) == [code |-> R!ProtonMem(l.posted), data |-> l.data]
Jit(l)    == [code |-> R!JitCode(l.posted, Opt("-i")), data |-> l.data]

Narrow(ns)  == IF H!Is16Bit(ns) THEN H!To16Bit(ns) ELSE ns
HydroPgm(l) == [ code |-> H!Words(Narrow(l.ns)), data |-> l.data,
                 bits |-> IF H!Is16Bit(l.ns) THEN 2 * ByteBits ELSE ByteBits ]

Trixy == D!TrixyLoad(Source, k.piped, IF k.args = <<>> THEN "-no-rail" ELSE k.args[1])

Rle(comments) == R!RleLoad(Source, k.piped, k.prog, comments, FALSE)

Made ==
  CASE Is("neutron")  -> Split(X!NeutronLoad(Source, k.piped))
    [] Is("deadbeef") -> Split(D!DeadbeefLoad(Source, k.piped))
    [] k.prog \in {"trixy", "dowhile", "noting", "long"} -> Split(Trixy)
    [] Is("backend")  -> [code |-> B!Generated(D!BackendProgram(Trixy.pgm, k.eof), TRUE)]
    [] Is("proton")   -> Proton(Rle(FALSE))
    [] Is("lightning") -> Jit(Rle(TRUE))
    [] Is("cdowhile") -> [code |-> R!CProgram(Rle(k.args.bf).posted, k.args)]
    [] Is("bfopt")    -> [code |-> O!Optimised(Source, k.piped, O!Options(k.args), FALSE, Code),
                          data |-> stdin]
    [] Is("profilebf") -> Split(P!ProfileLoad(Source, k.piped, P!Options(k.args)))
    [] Is("hydrogen") -> HydroPgm(H!HydroLoad(Source, k.piped))
    [] OTHER          -> [code |-> text]

\* -O0 and -O1 promise the same whatever the tape holds.
UsedTape == Is("bfopt") /\ ~Opt("-O2")

Before(v) == IF UsedTape THEN [v EXCEPT !.t = (0 :> 2) @@ (1 :> 1) @@ (BigTape - 1 :> 3)] ELSE v

MicroStart(in) == M(ByteBits, BigTape)!Start(in)

Machine1(c, in) ==
  CASE Is("easy")      -> X!EasyStart(Source, in, k.piped)
    [] Is("umueller")  -> X!MuellerStart(c, in)
    [] Is("mini")      -> X!MiniStart(in)
    [] Is("trace")     -> X!TraceStart(in)
    [] k.prog \in {"deadbeef", "trixy", "dowhile"} -> D!BeefMachine(in)
    [] Is("noting")    -> D!NotingMachine(in)
    [] Is("long")      -> D!LongMachine(c, in)
    [] Is("backend")   -> B!Start(in)
    [] Is("lightning") -> R!JitMachine(in)
    [] Is("bfopt")     -> Before(MicroStart(in))
    [] Is("profilebf") -> P!ProfileMachine(in)
    [] Is("hydrogen")  -> H!HydroMachine(in)
    [] OTHER           -> Start(in)

Step1(c, v) ==
  CASE Is("easy")      -> X!EasyStep(v, Code)
    [] Is("neutron")   -> X!NeutronStep(c, v)
    [] Is("umueller")  -> X!MuellerStep(c, v)
    [] Is("mini")      -> X!MiniStep(c, v)
    [] Is("trace")     -> X!TraceStep(c, v)
    [] Is("deadbeef")  -> D!BeefStep(c, v, k.eof)
    [] Is("trixy")     -> D!BeefStep(c, v, k.eof)
    [] Is("dowhile")   -> D!DowhileStep(c, v, k.eof)
    [] Is("noting")    -> D!NotingStep(c, v, k.eof)
    [] Is("long")      -> D!LongStep(c, v, k.eof)
    [] Is("backend")   -> B!RunStep(c, v, ByteBits, ByteBits, 0)
    [] Is("proton")    -> R!ProtonStep(c, v, k.eof)
    [] Is("lightning") -> R!JitStep(c, v, Opt("-i"))
    [] Is("cdowhile")  -> R!CStep(c, v, k.args)
    [] Is("bfopt")     -> M(ByteBits, BigTape)!Step(c, v)
    [] Is("profilebf") -> P!ProfileStep(c, v, P!Options(k.args))
    [] Is("hydrogen")  -> H!HydroStep(c, v, pgm.bits)

RECURSIVE RunFor(_, _, _)
RunFor(c, v, fuel) ==
  IF fuel = 0 \/ v.status # "run" THEN v ELSE RunFor(c, Step1(c, v), fuel - 1)

(***************************************************************************)
(* What the text means: what is too much is left out, a loop that is       *)
(* always entered is its body followed by it.  Commands are counted.       *)
(***************************************************************************)
Depth(t) == [i \in 0 .. Len(t) |->
               LET d[j \in 0 .. i] == IF j = 0 THEN 0
                                      ELSE IF d[j - 1] + Nesting(t[j]) < 0 THEN 0
                                      ELSE d[j - 1] + Nesting(t[j])
               IN  d[i]]

Repaired(t) ==
  LET d == Depth(t)
      surplus(i) == t[i] = "]" /\ d[i - 1] = 0
      left(i)    == t[i] = "[" /\ \A j \in i .. Len(t) : d[j] >= d[i]
      keep       == SelectSeq([i \in DOMAIN t |-> i],
                              LAMBDA i : ~surplus(i) /\ (Is("proton") \/ ~left(i)))
  IN  [i \in DOMAIN keep |-> t[keep[i]]]
      \o (IF Is("proton") THEN [i \in 1 .. d[Len(t)] |-> "]"] ELSE <<>>)

Close(t, i) ==
  LET d == Depth(t)
  IN  CHOOSE j \in i .. Len(t) : d[j] = d[i - 1] /\ \A q \in i .. j - 1 : d[q] > d[i - 1]

RECURSIVE Unrolled(_)
Unrolled(t) ==
  IF t = <<>> THEN <<>>
  ELSE IF Head(t) # "[" THEN <<Head(t)>> \o Unrolled(Tail(t))
  ELSE LET j == Close(t, 1)
           b == Unrolled(SubSeq(t, 2, j - 1))
       IN  b \o Lp(b) \o Unrolled(SubSeq(t, j + 1, Len(t)))

Meant ==
  CASE Is("easy") /\ k.piped          -> vm.prog
    [] text \in {s.text : s \in Short} -> (CHOOSE s \in Short : s.text = text).means
    [] DoWhile                         -> Unrolled(text)
    [] text \in Open                   -> Repaired(text)
    [] OTHER                           -> text

MeantInput ==
  CASE Is("easy") /\ k.piped -> vm.data
    [] Opt("-N")             -> <<>>
    [] OTHER                 -> Coded(stdin)

Ring == IF k.prog \in {"easy", "mini", "trace", "deadbeef", "trixy", "dowhile", "noting"}
        THEN RingSize ELSE BigTape

CellWidth ==
  CASE Is("easy") -> 2 * ByteBits
    [] (Is("lightning") /\ Opt("-i")) \/ (Is("profilebf") /\ Opt("-w"))
       \/ (Is("cdowhile") /\ k.args.use_int) -> IntBits
    [] OTHER -> ByteBits

Commands == Runs \cup {"[", "]", ".", ","}

MeantStart == Before(M(CellWidth, Ring)!Start(MeantInput)) @@ [ran |-> [c \in Commands |-> 0]]

MeantStep(t, v) ==
  LET u    == M(CellWidth, Ring)!Step(t, v)
      runs == v.scan = "no" /\ v.p \in DOMAIN t
      ends == runs /\ t[v.p] = "," /\ v.stdin = <<>>
      e    == CASE ends /\ k.eof = 2 -> Ends(u, "done")
                [] ends /\ k.eof # 1 -> M(CellWidth, Ring)!SetCell(u, k.eof)
                [] OTHER -> u
  IN  IF runs /\ t[v.p] \in Commands THEN [e EXCEPT !.ran[t[v.p]] = @ + 1] ELSE e

RECURSIVE MeantFor(_, _, _)
MeantFor(t, v, fuel) ==
  IF fuel = 0 \/ v.status # "run" THEN v ELSE MeantFor(t, MeantStep(t, v), fuel - 1)

(***************************************************************************)
(* txtbf: options, pieces of text and what is tried for them.              *)
(***************************************************************************)
Up(n) == T!Inc(n)
Mv(n) == T!Mv(n)

Hi     == <<72, 105, 10>>
Spaced == <<32, 10, 65, 32, 10>>
High   == <<200, 33, 254>>
Far    == <<106, 7, 106, 66, 104, 8>>

\* RUNNERCODE1 and RUNNERCODE6, and what leaves more cells behind: many a
\* long way apart, a rail of them, some below zero, and cells of two widths.
Beginnings ==
  { <<>>,
    Mv(1) \o Up(5) \o Lp(Mv(-1) \o Up(5) \o Mv(1) \o Up(-1)) \o Mv(-1)
      \o Lp(Mv(1) \o Up(4) \o Mv(1) \o Up(2) \o Mv(-2) \o Up(-1)),
    Up(14) \o Lp(Mv(1) \o Up(5) \o Mv(1) \o Up(7) \o Mv(1) \o Up(8) \o Mv(1) \o Up(2)
                 \o Mv(1) \o Up(6) \o Mv(-5) \o Up(-1)) }

Apart ==
  Up(4) \o Lp(Mv(1) \o FlattenSeq([i \in 1 .. 7 |-> Up(i) \o Mv(1)]) \o Up(26) \o Mv(-8) \o Up(-1))

RailOf(n) == Up(5) \o Lp(FlattenSeq([i \in 1 .. n |-> Mv(1) \o Up(i + 1)]) \o Mv(-n) \o Up(-1))

Below   == Up(-1) \o Mv(1) \o Up(-2) \o Lp(Up(1) \o Mv(1) \o Up(-20) \o Mv(-1)) \o Mv(-1)
Wrapped == Up(-1) \o Lp(Mv(1) \o Up(1) \o Mv(-1) \o Up(-5)) \o Mv(1)

TxtKind(flags, pieces, ends, gens, more) ==
  [flags |-> flags, pieces |-> pieces, ends |-> ends, gens |-> gens, more |-> more]

\* A set of parameters for each generator.
Specials(codes) == "special" :> {<<b, FALSE>> : b \in codes}
Given(codes)    == "special" :> {<<b, TRUE>> : b \in codes}
Flowers   == "twoflower" :> {<<nl>> : nl \in 0 .. 4}
Subranges == "subrange" :> {<<n, z>> : n \in {7, 20, 33}, z \in BOOLEAN}
Mults     == "multonly" :> {<<9, 8, 4>>, <<40, 1>>, <<25, 3, 1, 4>>}
Slopes    == "countslide" :> {<<6, <<2>>, 5, 1>>, <<17, <<>>, 6, 1>>, <<4, <<>>, 8, -1>>}
             @@ "nastyslide" :> {<<4, <<>>, 9, 1>>, <<5, <<1, 2>>, 6, -1>>}
Nests     == "nestloop" :> {<<5, 3, << <<3, 1>>, <<4, -1>> >> >>, <<8, 4, << <<2, 1>>, <<3, 2>>, <<1, 0>> >> >>,
                            <<2, 2, [i \in 1 .. 6 |-> <<i, 1>>]>>}
Slips     == "slipnest" :> {<<3, 2, <<4, 3>> >>, <<1, 4, <<5, 2, 6>> >>, <<0, 0, <<3>> >>}
Tris      == "trislipnest" :> {<<2, 3, 1, <<4, 3, 2>> >>, <<1, 2, 1, <<2, 1, 4, 3>> >>}
Bytes     == "multbyte" :> {<<3, 9, 7, 12>>, <<127, 2, 4, 5>>, <<20, 1, 4, 6>>}

Every == Specials(Beginnings \cup {Apart}) @@ Flowers @@ Subranges @@ Mults @@ Slopes @@ Nests @@ Slips @@ Tris
Clean == Specials(Beginnings) @@ Flowers @@ Subranges @@ Mults @@ Slopes @@ Nests @@ Tris
Few   == Specials(Beginnings) @@ ("twoflower" :> {<<2>>, <<4>>}) @@ ("subrange" :> {<<20, TRUE>>})
More  == Specials({Apart}) @@ ("subrange" :> {<<33, FALSE>>})
None  == <<>>

TxtKinds ==
  { TxtKind({}, {Spaced, High, Far}, {"file"}, Every, More),
    TxtKind({"-I"}, {High, Far}, {"file"}, Given({Below, Wrapped, Apart}), None),
    TxtKind({"-I", "-i"}, {Hi, Far}, {"file"}, Given({RailOf(12), RailOf(19), Apart}), None),
    TxtKind({"-i"}, {Spaced, High}, {"file"}, Clean, None),
    TxtKind({"-c"}, {Hi, Far}, {"file"}, Every, None),
    TxtKind({"-i", "-c"}, {Spaced, Far}, {"file"}, Clean, None),
    TxtKind({"-lines"}, {Spaced}, {"file", "line", "block"}, Few, None),
    TxtKind({"-lines", "-c"}, {Far}, {"file", "line"}, Few, None),
    TxtKind({"-lines", "-i", "-c"}, {Hi}, {"file", "line"}, Few, None),
    TxtKind({"-b"}, {Hi, High}, {"file"}, Every @@ Bytes, None),
    TxtKind({"-sc"}, {Hi, High}, {"file"}, Every, None),
    TxtKind({"-0"}, {Far}, {"file"}, Every, None),
    TxtKind({"-0", "-i", "-c"}, {Far}, {"file"}, Clean, None),
    TxtKind({"-lookahead"}, {Far}, {"file"}, Every, None),
    TxtKind({"-zoned"}, {Hi, Far}, {"file"}, Every, None),
    TxtKind({"-rtz", "-F"}, {Far}, {"file"}, Every, More),
    TxtKind({"-L4"}, {Far}, {"file"}, Every, None),
    TxtKind({"-mult-bare"}, {Hi}, {"file"}, Subranges @@ Mults, None) }

(***************************************************************************)
(* The two kinds of run.                                                   *)
(***************************************************************************)
NoMachine == [status |-> "none", io |-> <<>>]

Writing(o) == [o |-> o, code |-> <<>>, text |-> <<>>, pieces |-> 0,
               buf |-> <<>>, end |-> "none", best |-> T!None, turns |-> 0]

MCInit ==
  /\ text = <<>> /\ stdin = <<>> /\ pgm = <<>> /\ vm = NoMachine /\ ref = NoMachine /\ turns = 0
  /\ given = <<>>
  /\ \/ k \in Kinds /\ phase = "choose" /\ w = Q!PutStart
     \/ k \in {K(f, <<>>, 1, FALSE) : f \in Q!Formats} /\ phase = "print" /\ w = Q!PutStart
     \/ \E c \in TxtKinds :
          k = K("txtbf", c, 1, FALSE) /\ phase = "code" /\ w = Writing(T!Options(c.flags))

Choose ==
  /\ phase = "choose" /\ phase' = "load"
  /\ text' \in Offered
  /\ stdin' \in (IF Reads(text') THEN Inputs ELSE {<<>>})
  /\ UNCHANGED <<k, pgm, vm, ref, turns, given, w>>

Load ==
  /\ phase = "load" /\ phase' = "begin"
  /\ pgm' = Made
  /\ UNCHANGED <<k, text, stdin, vm, ref, turns, given, w>>

Input == IF k.piped /\ ~Is("easy") THEN pgm.data ELSE stdin

Begin ==
  /\ phase = "begin" /\ phase' = "run"
  /\ vm' = Machine1(pgm.code, Coded(Input))
  /\ UNCHANGED <<k, text, stdin, pgm, ref, turns, given, w>>

Cut(n) == turns = n * (IF Long THEN 10 ELSE 1)

Go ==
  /\ phase = "run" /\ vm.status = "run" /\ ~Cut(Turns)
  /\ vm' = RunFor(pgm.code, vm, Steps) /\ turns' = turns + 1
  /\ UNCHANGED <<k, text, stdin, phase, pgm, ref, given, w>>

Stop ==
  /\ phase = "run" /\ (vm.status # "run" \/ Cut(Turns))
  /\ phase' = "mean" /\ ref' = MeantStart /\ turns' = 0
  /\ UNCHANGED <<k, text, stdin, pgm, vm, given, w>>

Mean ==
  /\ phase = "mean" /\ ref.status = "run" /\ ~Cut(Turns)
  /\ ref' = MeantFor(Meant, ref, 4 * Steps) /\ turns' = turns + 1
  /\ UNCHANGED <<k, text, stdin, phase, pgm, vm, given, w>>

Compare ==
  /\ phase = "mean" /\ (ref.status # "run" \/ Cut(Turns)) /\ phase' = "rest"
  /\ UNCHANGED <<k, runVars, given, w>>

Write ==
  /\ phase = "print" /\ Len(given) < 3
  /\ \E v \in Printing : given' = Append(given, v) /\ w' = Q!PutCh(k.prog, w, v)
  /\ UNCHANGED <<k, phase, runVars>>

(***************************************************************************)
(* txtbf: text and code so far, the next piece and how it ends, the best   *)
(* program for it and how many generators have had a turn.                 *)
(***************************************************************************)
WPiece ==
  /\ phase = "code" /\ w.end = "none" /\ w.pieces < MaxPieces
  /\ \E buf \in k.args.pieces, end \in k.args.ends :
       w' = [w EXCEPT !.buf = buf, !.end = end, !.pieces = @ + 1, !.turns = 0,
                      !.o = T!PieceOptions(@, end),
                      !.best = [T!None EXCEPT !.found = w.best.found]]
  /\ UNCHANGED <<k, phase, runVars, given>>

WTurn ==
  /\ phase = "code" /\ w.end \in T!Ends /\ w.turns < MaxTurns
  /\ LET gens == IF w.turns = 0 THEN k.args.gens ELSE k.args.more IN
     \E by \in DOMAIN gens : \E ns \in gens[by] :
       /\ T!Tries(w.o, w.buf, T!Gen(by, ns))
       /\ w' = [w EXCEPT !.best = T!Turn(w.o, w.buf, T!Gen(by, ns), @), !.turns = @ + 1]
  /\ UNCHANGED <<k, phase, runVars, given>>

WAgain ==
  /\ phase = "code" /\ w.end \in T!Ends /\ w.turns \in 1 .. MaxTurns
  /\ w.o.rerun /\ ~w.o.lookahead /\ ~w.o.zoned
  /\ \E i \in DOMAIN w.best.found :
       w' = [w EXCEPT !.best = T!Rerun(w.o, w.buf, i, @), !.turns = MaxTurns + 1]
  /\ UNCHANGED <<k, phase, runVars, given>>

WEnd ==
  /\ phase = "code" /\ w.end \in T!Ends /\ w.best.len >= 0
  /\ w' = [w EXCEPT !.code = @ \o w.best.str \o T!Ending(w.o, w.end),
                    !.text = @ \o w.buf \o (IF w.end = "line" THEN <<T!NewLine>> ELSE <<>>),
                    !.best.len = -1, !.end = IF @ = "file" THEN "done" ELSE "none"]
  /\ UNCHANGED <<k, phase, runVars, given>>

AtRest ==
  CASE phase = "rest"  -> TRUE
    [] phase = "print" -> Len(given) = 3
    [] phase = "code"  -> w.end = "done" \/ (w.end = "none" /\ w.pieces = MaxPieces)
                          \/ (w.end \in T!Ends /\ w.turns > 0 /\ w.best.len < 0)
    [] OTHER           -> FALSE

Rest == AtRest /\ UNCHANGED mcVars

MCNext == Choose \/ Load \/ Begin \/ Go \/ Stop \/ Mean \/ Compare \/ Write
          \/ WPiece \/ WTurn \/ WAgain \/ WEnd \/ Rest

MCSpec == MCInit /\ [][MCNext]_mcVars

(***************************************************************************)
(* What was read and written.                                              *)
(***************************************************************************)
\* The languages of dowhile and cdowhile print no NUL.
Seen(io, hears) ==
  LET quiet(e) == ~hears /\ e.ev = "out" /\ e.val = 0
      kept == SelectSeq(io, LAMBDA e : e.ev # "dump" /\ ~quiet(e))
  IN  [i \in DOMAIN kept |-> IF kept[i].ev = "out" THEN [kept[i] EXCEPT !.val = Byte(@)]
                             ELSE kept[i]]

Related(a, b) == IsPrefix(a, b) \/ IsPrefix(b, a)

Finished == vm.status = "done" \/ (Is("proton") /\ vm.status = "stop")

\* A program that left the tape is compared as far as it came; one that was
\* cut off may be found to have no end.
Agree ==
  LET a == Seen(ref.io, ~Quiet)
      b == Seen(vm.io, TRUE)
  IN  CASE vm.status \in {"range", "wild", "exit"} -> Related(a, b)
        [] ref.status = "done" -> Finished /\ a = b
        [] OTHER -> (vm.status = "run" \/ (vm.status = "stop" /\ ~Is("easy"))) /\ Related(a, b)

Content(v) == {<<a, v.t[a]>> : a \in {b \in DOMAIN v.t : v.t[b] # 0}}

\* The run of what txtbf has written; cells that it takes to be wide are.
CodeRun ==
  LET bits == IF w.o.wrap \/ w.best.bytes THEN 8 ELSE 12
      tape == IF w.o.init THEN [c \in -1 .. MaxCells |-> 85] ELSE <<>>
      RECURSIVE go(_, _, _)
      go(t, v, fuel) ==
        IF fuel = 0 \/ v.status # "run" THEN v
        ELSE IF fuel = 1 THEN M(bits, BigTape)!Step(t, v)
        ELSE go(t, go(t, v, fuel \div 2), fuel - fuel \div 2)
  IN  go(w.code \o (IF w.best.len >= 0 THEN w.best.str ELSE <<>>),
         [M(bits, BigTape)!Start(<<>>) EXCEPT
            !.t = [c \in {d % BigTape : d \in DOMAIN tape} |-> 85]], 100000)

CodePrints ==
  LET v == CodeRun IN
  /\ v.status = "done"
  /\ [i \in DOMAIN v.io |-> v.io[i].val % 256]
       = w.text \o (IF w.best.len >= 0 THEN w.buf ELSE <<>>)
  /\ w.o.rtz \/ w.o.init => v.m = 0
  /\ w.o.clear /\ ~w.o.init => \A c \in DOMAIN v.t : v.t[c] = 0

\* What is left out: easy with a program that is not complete, bf_trace when
\* it has said ERR:, profilebf when the input has ended too often.
LeftOut ==
  \/ Is("easy") /\ k.piped /\ vm.status # "done"
  \/ Is("trace") /\ vm.err
  \/ Is("profilebf") /\ (vm.eofs > MostEofs \/ Opt("-N"))

\* A program that ended, and that does none of what profilebf counts otherwise.
Counted ==
  /\ vm.status = "done" /\ ref.status = "done" /\ vm.eofs <= MostEofs
  /\ text # <<>> /\ text[1] # "[" /\ text \notin Open
  /\ vm.memshift = 0 /\ ~Opt("-w")

(***************************************************************************)
(* Properties.                                                             *)
(***************************************************************************)
\* Each of these programs does with a text, and with the input, that may
\* begin behind a ! in the same stream, what the text means; what bfopt makes
\* of it without -O2 also leaves the same tape behind, whatever was on it.
ExtrasKeepMeaning ==
  phase = "rest" /\ ~LeftOut =>
    /\ Agree
    /\ UsedTape /\ ref.status = "done" => Content(vm) = Content(ref) /\ vm.m = ref.m

\* profilebf reports each command as often as the text executes it, although
\* it runs neither [-] nor a loop that moves a cell nor a rail one command at
\* a time; not for a loop that begins the text, nor to the left over a tape
\* that is moved, nor for ints below zero.
CountsAreCommands ==
  phase = "rest" /\ Is("profilebf") /\ Counted =>
    /\ \A c \in Commands : P!CountOf(vm, c) = ref.ran[c]
    /\ P!TotalCount(vm) = FoldSet(LAMBDA c, n : n + ref.ran[c], 0, Commands)

\* What putch of trixy writes in one of the small languages prints the
\* characters it was given, whatever was printed before.  The program txtbf
\* keeps prints the text so far, on a tape that may hold anything if it is to
\* clear it; it comes back to cell 0 and leaves clean cells if it has to; and
\* txtbf never finds that a program it has made fails.
OutputDecodes ==
  /\ phase = "print" => Q!Printed(k.prog, w.text) = given
  /\ phase = "code"  => ~w.best.failed /\ (w.best.len >= 0 \/ w.end = "none" => CodePrints)
=============================================================================
