------------------------------ MODULE MCBF2Any ------------------------------
(***************************************************************************)
(* bf2any on small programs: the commands its front end hands to a backend *)
(* are compared with microbf's run of the text, and so are the ints bf2run *)
(* makes of them.                                                          *)
(***************************************************************************)
EXTENDS BF2Any

CONSTANTS
  IntBits,     \* the width of an int cell
  WideBits,    \* the width of the cells of a backend that is not told
  TapeLen,     \* cells from the start of the tape on
  TapeSize,    \* of the reference interpreter, a ring
  Fuel,        \* steps of a reference run
  Deep         \* the most commands in the body of a loop

VARIABLES
  text         \* the program as it was (history)

mcVars == <<src, fe, s, text>>

R == INSTANCE BF2Run
M(CellBits) == INSTANCE MicroBF

(***************************************************************************)
(* Backends and options.                                                   *)
(***************************************************************************)
Backend(cells_are_ints, bytecell, optim, limited, margin) ==
  [ cells_are_ints |-> cells_are_ints, bytecell |-> bytecell,
    disable_be_optim |-> limited, enable_chrtok |-> FALSE, tapeinit |-> margin,
    enable_optim |-> optim, disable_init_optim |-> ~optim,
    enable_rle |-> FALSE, enable_debug |-> FALSE, eofcell |-> 0 ]

Run32    == Backend(TRUE, FALSE, TRUE, FALSE, 1)
Run8     == Backend(TRUE, TRUE, TRUE, FALSE, 1)
Wide     == Backend(FALSE, FALSE, TRUE, FALSE, 1)
Limited8 == Backend(FALSE, TRUE, TRUE, TRUE, 0)
Plain32  == Backend(TRUE, FALSE, FALSE, FALSE, 1)
Traced   == [Run8 EXCEPT !.enable_debug = TRUE]
Rle      == [Wide EXCEPT !.enable_rle = TRUE]
Part     == [Run8 EXCEPT !.disable_init_optim = TRUE]
Zeroed   == [Run32 EXCEPT !.eofcell = 1]
MinusOne == [Run32 EXCEPT !.eofcell = 2]

Bits(be) == IF be.bytecell THEN ByteBits
            ELSE IF be.cells_are_ints THEN IntBits ELSE WideBits

(***************************************************************************)
(* Programs.                                                               *)
(***************************************************************************)
Parts == { <<"-">>, <<"+">>, <<">">>, <<"<">>, <<"[", "-", "]">>, <<".">> }

Bodies == {FlattenSeq(b) : b \in SeqOf(Parts, Deep)}

LoopTexts ==
  {h \o <<"[">> \o b \o <<"]">> \o t :
     h \in { <<",">>, <<"+", "+">>, <<",", ">", "+">> }, b \in Bodies, t \in { <<">", ".">> }}

Chars == {"+", "-", ">", "<", "[", "]", ".", ","}
ShortTexts == SeqOf(Chars, 3)

\* Programs written as strings of one character each would be unreadable here,
\* so the longer ones are put together from loops with a name.
Zero   == <<"[", "-", "]">>
Add(n) == [i \in 1 .. n |-> "+"]
Lp(b)  == <<"[">> \o b \o <<"]">>
Copy   == Lp(<<"-", ">", "+", "<">>)

NestedTexts ==
  {h \o Lp(a \o Lp(b) \o c) \o <<">", ".">> :
     h \in { <<",">>, Add(1) \o <<">">> \o Add(1) },
     a \in { <<>>, <<"-">>, <<">">>, <<".">> },
     b \in { Zero, <<"-", ">", "+", "<">>, <<">">>, <<"-", ">">>, <<"[", "-", "]", ">">> },
     c \in { <<>>, <<"<">>, <<">">>, <<"-">>, Zero }}

\* Loops over as many cells as the queue has room for, and over more.
LongTexts ==
  {<<",">> \o Lp(<<"-", ">", "+">> \o FlattenSeq([i \in 1 .. n |-> <<">", "+">>])
                 \o <<">">> \o z \o [i \in 1 .. n + 2 |-> "<"]) \o <<">", ".">> :
     n \in 0 .. 3, z \in { Zero, <<"-">> }}

\* A loop that clears the same cell twice.
TwiceTexts ==
  {<<",">> \o Lp(<<"-", ">">> \o Zero \o <<">", "+", "<">> \o z \o <<"<">>) \o <<">", ">", ".">> :
     z \in { Zero, Zero \o <<"+">> }}

SlideTexts ==
  {Add(1) \o <<">">> \o Zero \o Add(n) \o <<"<">> \o Lp(b) \o <<"<", ".">> :
     n \in {0, 1, Bytes}, b \in { <<">">>, <<"-", ">">>, <<">", ">">> }}
   \cup {<<",">> \o Lp(Zero \o Add(1) \o <<".">> \o Zero \o m) \o <<">", ".">> :
     m \in { <<">">>, <<"<">>, <<>> }}

NumberTexts ==
  {<<"2", "+">> \o w \o <<"3", "+", "[", "-", ">">> \o n \o <<"+", "<", "]", ">", ".">> :
     w \in { <<>>, <<" ">>, <<"9">>, <<"-">>, <<"1", "9", "+">> },
     n \in { <<>>, <<"3">>, <<"1", "1">>, <<"2", " ">>, <<"2", "x">>, <<"0">> }}
   \cup { h \o <<"quote">> \o b \o <<"quote">> \o t :
     h \in { <<>>, <<"+">>, <<",">> }, b \in { <<>>, <<"a">>, <<"a", "+">>, <<"quote", "quote">> },
     t \in { <<".">>, <<"=", ".">>, <<"[", ".", "-", "]">>, <<"]", ".">> }}

TraceTexts ==
  {h \o <<"#">> \o b \o <<"#">> \o t :
     h \in { <<"+", ">">>, <<"[", "+", "]", "+">>, <<",", "[", ">", "+", "<", "-", "]">> },
     b \in { Zero, Copy, <<",", "[", "#", "-", "]">>, <<"-", ">", "+", "+">> },
     t \in { <<>>, <<".">>, <<"x">> }}

FixedText(t) == << [stdin |-> FALSE, text |-> t] >>

Cases ==
  {<<FixedText(t), be>> : t \in LoopTexts, be \in {Run32, Run8, Limited8}}
  \cup {<<FixedText(t), be>> : t \in ShortTexts, be \in {Run32, Plain32}}
  \cup {<<FixedText(t), be>> : t \in NestedTexts, be \in {Run8, Wide, Plain32, Part}}
  \cup {<<FixedText(t), be>> : t \in SlideTexts \cup LongTexts \cup TwiceTexts, be \in {Run8, Run32, Part, Limited8}}
  \cup {<<FixedText(t), Rle>> : t \in NumberTexts}
  \cup {<<FixedText(t), Traced>> : t \in TraceTexts}
  \cup {<<FixedText(<<",", ".", ",", "[", ".", "]">>), be>> : be \in {Zeroed, MinusOne}}
  \cup {<<<< [stdin |-> FALSE, text |-> a], [stdin |-> TRUE, text |-> b] >>, Run32>> :
           a \in { <<"+">>, <<",">> },
           b \in { <<"+", "!", ".">>, <<"[", "!", ",", "]", "!", "+", ".">> }}

\* The codes of the characters met in quoted strings.
Codes == [ch \in {"a", "+", "quote"} |->
            CASE ch = "a" -> 1 [] ch = "+" -> 2 [] ch = "quote" -> 5]

Inputs == { <<>>, <<1>>, <<3, 2>> }

(***************************************************************************)
(* The run.                                                                *)
(***************************************************************************)
AllText(files) == FlattenSeq([i \in DOMAIN files |-> files[i].text])

MCInit ==
  \E c \in Cases :
    /\ FrontInit(c[1], c[2])
    /\ text = AllText(c[1])

Rest == ~Active /\ UNCHANGED mcVars

MCNext ==
  \/ ReadChar /\ UNCHANGED text
  \/ NextFile /\ text' = (IF src[1].text = <<>> THEN text
                          ELSE SubSeq(text, 1, Len(text) - Len(AllText(src))))
  \/ EndOfFiles /\ UNCHANGED text
  \/ Rest

MCSpec == MCInit /\ [][MCNext]_mcVars

(***************************************************************************)
(* What the text means: the reference run, after numbers and quoted        *)
(* strings (-R) are written out.                                           *)
(***************************************************************************)
OutChar(ch) == Zero \o Add(CharCode[ch]) \o <<".">>

\* w is [out, num, some, q]: a number is pending if some; q as in qstring.
WriteOut(w, ch) ==
  LET n == IF w.some /\ w.num <= IntMax THEN w.num ELSE 1
      v == [w EXCEPT !.num = 0, !.some = FALSE]
      Out(x) == [v EXCEPT !.out = @ \o x]
      Unq(y) ==
        CASE ch \in Digits -> [w EXCEPT !.some = TRUE, !.q = 0,
                                        !.num = Least(IntMax + 1, @ * 10 + DigitValue(ch))]
          [] ch = " " -> [w EXCEPT !.q = 0]
          [] ch \in RleChars -> [Out([i \in 1 .. n |-> ch]) EXCEPT !.q = 0]
          [] ch = "=" -> [Out(Zero) EXCEPT !.q = 0]
          [] ch = "quote" -> [v EXCEPT !.q = 1]
          [] OTHER -> [Out(<<ch>>) EXCEPT !.q = 0]
  IN  CASE w.q = 0 -> Unq(0)
        [] w.q = 1 /\ ch = "quote" -> [w EXCEPT !.q = 2]
        [] w.q = 1 /\ ch # "quote" -> [w EXCEPT !.out = @ \o OutChar(ch)]
        [] w.q = 2 /\ ch = "quote" -> [w EXCEPT !.out = @ \o OutChar(ch), !.q = 1]
        [] w.q = 2 /\ ch # "quote" -> Unq(0)

Written(be, t) ==
  IF ~be.enable_rle THEN t
  ELSE FoldLeft(WriteOut, [out |-> <<>>, num |-> 0, some |-> FALSE, q |-> 0], t).out

\* The trace at the end of the program is asked for with -#.
Program(be, t) ==
  IF be.enable_debug /\ (t = <<>> \/ Last(SelectSeq(t, LAMBDA c : c # "x")) # "#")
  THEN Append(t, "#") ELSE t

\* The reference tape is a ring: its upper half lies left of the start.
Place(a) == IF a > TapeSize \div 2 THEN a - TapeSize ELSE a

RefShown(v) ==
  [at |-> Place(v.m), cells |-> {<<Place(x), v.t[x]>> : x \in {y \in DOMAIN v.t :
                                     Place(y) >= 0 /\ v.t[y] # 0}}]

RefStep(be, b, v) ==
  LET bits == Bits(be)
      ch   == IF v.scan = "no" /\ v.p <= Len(b) THEN b[v.p] ELSE "no"
      next(w) == [w EXCEPT !.p = @ + 1]
  IN  CASE ch = "#" /\ be.enable_debug -> next(M(bits)!Event(v, "dump", RefShown(v)))
        [] ch = "," /\ v.stdin = <<>> /\ be.eofcell > 0 ->
             next(M(bits)!SetCell(M(bits)!Event(v, "eof", 0), 1 - be.eofcell))
        [] OTHER -> M(bits)!Step(b, v)

\* off: the pointer has left the tape.
RECURSIVE RefFor(_, _, _, _, _)
RefFor(be, b, v, off, fuel) ==
  IF fuel = 0 \/ v.status # "run" \/ off THEN [v |-> v, off |-> off]
  ELSE LET w == RefStep(be, b, v) IN
       RefFor(be, b, w, Place(w.m) \notin 0 .. TapeLen - 1, fuel - 1)

Reference(be, t, stdin) ==
  RefFor(be, t, M(Bits(be))!Start(stdin), FALSE, Fuel)

\* putchar writes a byte.
Bytewise(io) ==
  [i \in DOMAIN io |-> IF io[i].ev = "out" THEN [io[i] EXCEPT !.val = ToByte(@)] ELSE io[i]]

Ran(be, mem, stdin) ==
  R!RunFor(mem, R!Start(stdin), Bits(be), ByteBits, be.tapeinit, Fuel)

\* new stands for the reference run old; a run cut off has not ended otherwise.
SameRun(old, new) ==
  LET io == Bytewise(old.io) IN
  IF old.status = "run"
  THEN new.status # "done" /\ (IsPrefix(io, new.io) \/ IsPrefix(new.io, io))
  ELSE new.status = old.status /\ new.io = io

\* Nothing is asked of a program that leaves the tape.
Means(be, t, mem) ==
  \A in \in Inputs :
    LET old == Reference(be, t, in) IN
    old.off \/ SameRun(old.v, Ran(be, mem, in))

(***************************************************************************)
(* Properties.                                                             *)
(***************************************************************************)
Done == fe.ended /\ s.status = "run"

\* Depth of the brackets lo and hi after each command; -1 once one is missing.
Depths(seq, lo, hi) ==
  FoldLeft(LAMBDA d, x : IF d < 0 THEN d
                         ELSE IF x = lo THEN d + 1 ELSE IF x = hi THEN d - 1 ELSE d,
           0, seq)

Commands(code) == [i \in DOMAIN code |-> code[i].cmd]

Matched(t) == Depths(t, "[", "]") = 0

\* The whole of the front end keeps what a program means.  Whatever was
\* reordered, merged, computed or dropped on the way, the commands handed to
\* the backend, run one for one, read and write what the text reads and
\* writes, show the same tape where it is traced, and keep to the tape.
\* What process_loop writes always fits in the queue.  The one shape for which
\* a program's meaning is lost, a cell cleared twice, is left out.
TokensKeepMeaning ==
  /\ "overflow" \notin s.odd
  /\ Done /\ s.odd = {} /\ Matched(text) =>
       Means(s.be, Program(s.be, Written(s.be, text)), R!Generated(s.code, FALSE))

\* Before the end of a loop comes something gen_code does not remember: the
\* end of an if, or a string.
HidesItsTokens(code) ==
  LET c == SelectSeq(Commands(code), LAMBDA x : x \notin {">", "<"}) IN
  \E i \in 2 .. Len(c) :
    /\ c[i] = "]"
    /\ c[i - 1] \in {"quote", "E"} \/ (i > 2 /\ c[i - 2] = "quote")

\* bf2run's tokens for [<<], [-<<] and [[-]<<] change nothing, where the last
\* tokens of the loop are the ones its gen_code remembers.
SpecialsKeepMeaning ==
  Done /\ s.odd = {} /\ Matched(text) /\ ~HidesItsTokens(s.code) =>
    Means(s.be, Program(s.be, Written(s.be, text)), R!Generated(s.code, s.be.enable_optim))

\* "it makes sure that brackets are balanced": whatever the text, the backend
\* is never handed an end without a start, and none is left open, although
\* loops are dropped, turned into ifs and closed by force.
BackendBalanced ==
  LET c == Commands(s.code) IN
  /\ Depths(c, "[", "]") >= 0 /\ Depths(c, "I", "E") >= 0
  /\ Done => Depths(c, "[", "]") = 0 /\ Depths(c, "I", "E") = 0
=============================================================================
