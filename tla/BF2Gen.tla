------------------------------- MODULE BF2Gen -------------------------------
(***************************************************************************)
(* gen_code of the bf2any backends that write one statement, or a few, for *)
(* each command: what they have in common, with one record per backend (in *)
(* BF2Backends) for what they do not.  move_opt.h, which some of them use, *)
(* turns movements of the pointer into offsets.                            *)
(*                                                                         *)
(* The record p of a backend:                                              *)
(*   moves  : it calls move_opt;                                           *)
(*   knows  : the commands its switch has a case for;                      *)
(*   masks  : the commands in front of which the cell is cut to the width, *)
(*   cut    : by the statement "mask" or "amask" below, and to print it    *)
(*   dot    : by "amask", which never leaves a sign, or "lift", which adds *)
(*            the width first;                                             *)
(*   sized  : commands in front of which it is cut only if the backend was *)
(*            told a number of bits;                                       *)
(*   always : the cell is cut without -b, too;                             *)
(*   tests  : the condition of a loop cuts the cell, not a statement;      *)
(*   signed : the count of a statement may be negative;                    *)
(*   spoils : the commands that use v for something else;                  *)
(*   stop   : the statement for X;                                         *)
(*   input  : the statement for a ,: "in", or "halt" if there is no input  *)
(*            and the program says so and ends;                            *)
(*   loops  : "block", "label", "local" or "top": how loops are written;   *)
(*   body   : a block needs a statement in it;                             *)
(*   plan   : how the whole program is arranged (below), or "";            *)
(*   split  : commands whose count is split into pieces of MaxRun;         *)
(*   wraps  : what the arithmetic leaves in a cell is cut each time;       *)
(*   slips  : commands with a wrong statement: <<command, "byte">> with    *)
(*            -b, "long" for a count above MaxRun, "twice" always;         *)
(*   types  : the types of a cell without and with -b, var those of v;     *)
(*   own    : each function has its own v;                                 *)
(*   rem    : the sign of a remainder in the target language;              *)
(*   lines  : the program reads a line at a time, so that the end of the   *)
(*            input in the middle of a line is not seen as such;           *)
(*   reads  : "byte", or "signed" if a byte from the upper half becomes a  *)
(*            negative number, which is no value of a cell;                *)
(*   eof    : at the end of the input the cell is kept ("keep"), becomes   *)
(*            -1 ("minus"), the last character once more ("last") or a     *)
(*            newline each time ("newline"); or the program ends ("fails") *)
(*            or waits for more input ("waits");                           *)
(*   shows  : what prints a cell takes the byte of it ("byte"), seven bits *)
(*            of it ("seven") or needs a character ("cell"), for which a   *)
(*            negative value is an error ("char");                         *)
(*   text   : how it prints a string (Turn, below);                        *)
(*   be     : what it tells the front end: ints (cells_are_ints), limited  *)
(*            (disable_be_optim), bytesonly and chrtok.                    *)
(***************************************************************************)
EXTENDS Integers, SequencesExt, FiniteSetsExt

(***************************************************************************)
(* The languages bf2any's backends write.  A generated program is a        *)
(* sequence of statements on a tape m, a pointer p and a variable v:       *)
(*   [op, off, n, str]   off is the cell m[p+off] the statement is about.  *)
(* What a statement does is the meaning of the target language; it is      *)
(* nowhere in this repository.  Languages differ in the integers a cell    *)
(* holds, in the sign of a remainder, and in what a print statement makes  *)
(* of a value that is no character.                                        *)
(***************************************************************************)

CONSTANTS
  ByteBits,    \* the width of a byte
  IntBits,     \* the width of an int
  WideBits,    \* the width of the larger integers
  NewLine      \* the character that ends a line

St(op, off, n) == [op |-> op, off |-> off, n |-> n, str |-> <<>>]
Jump(op, off, name, way) == [op |-> op, off |-> off, n |-> 0, str |-> <<name, way>>]
Label(name)    == Jump("label", 0, name, "")
Literal(str)   == [op |-> "text", off |-> 0, n |-> 0, str |-> str]
Named(op, name) == Jump(op, 0, name, "")

SignedBits(x, bits) ==
  LET r == x % 2^bits IN IF r >= 2^(bits - 1) THEN r - 2^bits ELSE r

\* What is left of x in a variable of this type.
Stored(type, x) ==
  CASE type = "byte"  -> x % 2^ByteBits
    [] type = "sbyte" -> SignedBits(x, ByteBits)
    [] type = "int"   -> SignedBits(x, IntBits)
    [] type = "word"  -> SignedBits(x, WideBits)
    [] type = "uword" -> x % 2^WideBits
    [] type = "big"   -> x

\* A remainder that keeps the sign, and one that is never negative.
Remainder(how, x, n) ==
  IF how = "trunc" /\ x < 0 THEN -((-x) % n) ELSE x % n

\* A statement that is not one of the language (the program does not
\* compile), and v times -1, taken for 2^32 - 1, and negated again.
Slips == {"mistyped", "twice"}

(***************************************************************************)
(* Running a program.  lang is [cell, var, rem, eof, reads, shows, own]:   *)
(* the types of a cell and of v, and of the record above what it says of   *)
(* the language.  A run ends as it is "done", stopped by a statement or an *)
(* error ("stop"), "waits" for more input, came to a statement that is     *)
(* none ("bad"), or by a value the program has no use for ("odd").         *)
(***************************************************************************)
TargetStart(ops, stdin) ==
  LET main == {i \in DOMAIN ops : ops[i].op = "main"} IN
  [ pc |-> IF main = {} THEN 1 ELSE CHOOSE i \in main : TRUE, calls |-> <<>>,
    mp |-> 0, tape |-> <<>>, v |-> 0, ch |-> 0, stdin |-> stdin, io |-> <<>>,
    status |-> IF \E i \in DOMAIN ops : ops[i].op = "mistyped" THEN "bad" ELSE "run" ]

\* Where each block ends, and where each end began; kinds says of everything
\* whether it opens or closes one.
Matched(kinds) ==
  FoldLeft(LAMBDA w, i :
             CASE kinds[i] = "open" -> [w EXCEPT !.open = Append(@, i)]
               [] kinds[i] = "close" /\ w.open # <<>> ->
                    [ open |-> Front(w.open),
                      to   |-> [w.to EXCEPT ![Last(w.open)] = i, ![i] = Last(w.open)] ]
               [] OTHER -> w,
           [open |-> <<>>, to |-> [i \in DOMAIN kinds |-> 0]],
           [i \in DOMAIN kinds |-> i]).to

Blocks(ops) ==
  Matched([i \in DOMAIN ops |-> IF ops[i].op \in {"while", "if"} THEN "open"
                                ELSE IF ops[i].op \in {"wend", "fi"} THEN "close" ELSE ""])

Inside(blocks, i) == \E b \in 1 .. i - 1 : blocks[b] > i

\* The labels a jump can mean: its own, or for a numeric one the nearest
\* before (b) or after it (f).  A jump needs exactly one.
Labels(ops, i) ==
  LET all    == {j \in DOMAIN ops : ops[j].op = "label" /\ ops[j].str[1] = ops[i].str[1]}
      before == {j \in all : j < i}
      after  == {j \in all : j > i}
  IN  CASE ops[i].str[2] = "b" -> {j \in before : \A k \in before : k <= j}
        [] ops[i].str[2] = "f" -> {j \in after : \A k \in after : k >= j}
        [] OTHER -> all

Jumps == {"jz", "jnz", "jmp"}

\* The transitions of a state machine (switch or CASE): they leave the block
\* they are in, which has to be the switch, for one of its labels.
Turns == {"turnz", "turnnz"}

Only(set) == IF Cardinality(set) = 1 THEN CHOOSE j \in set : TRUE ELSE 0

\* Where the control can go from a statement, other than to the next; 0 for
\* a jump to nowhere.
Partners(ops) ==
  LET blocks == Blocks(ops)
      Target(i) ==
        CASE ops[i].op \in Jumps -> Only(Labels(ops, i))
          [] ops[i].op \in Turns ->
               Only({j \in Labels(ops, i) : ~Inside(blocks, i) /\ ~Inside(blocks, j)})
          [] ops[i].op = "call"  ->
               Only({j \in DOMAIN ops : ops[j].op = "func" /\ ops[j].str[1] = ops[i].str[1]})
          [] ops[i].op = "ask"   -> IF Inside(blocks, i) THEN 0 ELSE i
          [] OTHER -> blocks[i]
  IN  [i \in DOMAIN ops |-> Target(i)]

\* The statements that must have somewhere to go.
Going == Jumps \cup Turns \cup {"call", "ask", "while", "if", "wend"}

At(r, off) == IF r.mp + off \in DOMAIN r.tape THEN r.tape[r.mp + off] ELSE 0

Write(lang, r, off, x) ==
  LET a == r.mp + off IN
  [r EXCEPT !.tape = [y \in DOMAIN @ \cup {a} |->
                        IF y = a THEN Stored(lang.cell, x) ELSE @[y]]]

Tell(r, ev, x) == [r EXCEPT !.io = Append(@, [ev |-> ev, val |-> x])]

\* A read of one character more.
Got(lang, r, off, x) ==
  LET told == Tell([r EXCEPT !.ch = x], "in", x) IN
  IF lang.reads = "signed" /\ x >= 2^(ByteBits - 1) THEN [told EXCEPT !.status = "odd"]
  ELSE Write(lang, told, off, x)

\* A read at the end of the input.
AtEnd(lang, r, off) ==
  LET e == Tell(r, "eof", 0) IN
  CASE lang.eof = "keep"    -> e
    [] lang.eof = "minus"   -> Write(lang, e, off, -1)
    [] lang.eof = "last"    -> Write(lang, e, off, r.ch)
    [] lang.eof = "newline" -> Got(lang, r, off, NewLine)
    [] lang.eof = "fails"   -> [e EXCEPT !.status = "stop"]
    [] lang.eof = "waits"   -> [e EXCEPT !.status = "waits"]

ReadCell(lang, r, off) ==
  IF r.stdin = <<>> THEN AtEnd(lang, r, off)
  ELSE Got(lang, [r EXCEPT !.stdin = Tail(@)], off, Head(r.stdin))

\* What is seen of a value that is printed.
Seen(lang, x) == IF lang.shows = "seven" THEN x % 2^(ByteBits - 1) ELSE x

Printing(lang, r, c) ==
  IF lang.shows = "char" /\ c < 0 THEN [r EXCEPT !.status = "odd"]
  ELSE Tell(r, "out", Seen(lang, c))

Shows(lang, r, str) ==
  [r EXCEPT !.io = @ \o [i \in DOMAIN str |-> [ev |-> "out", val |-> Seen(lang, str[i])]]]

\* The arithmetic of one statement on the cell c, with the saved value v.
Computed(lang, s, c, v) ==
  CASE s.op = "set"   -> s.n
    [] s.op = "add"   -> c + s.n
    [] s.op = "mul"   -> c + v * s.n
    [] s.op = "put"   -> v * s.n
    [] s.op = "times" -> c * v
    [] s.op = "mask"  -> Remainder(lang.rem, c, s.n)
    [] s.op = "amask" -> c % s.n
    [] s.op = "lift"  -> Remainder("trunc", c + s.n, s.n)
    [] s.op = "twice" -> -(v * (2^WideBits - 1))

Arithmetic == {"set", "add", "mul", "put", "times", "mask", "amask", "lift", "twice"}

Taken(op, c) ==
  \/ op \in {"jz", "turnz"} /\ c = 0
  \/ op \in {"jnz", "turnnz"} /\ c # 0
  \/ op = "jmp"

TargetStep(lang, ops, to, r) ==
  LET s == ops[r.pc]
      c == At(r, s.off)
      Next(w) == [w EXCEPT !.pc = @ + 1]
  IN CASE s.op \in Going /\ to[r.pc] = 0 -> [r EXCEPT !.status = "bad"]
       [] s.op \in Arithmetic ->
            Next(Write(lang, r, s.off, Computed(lang, s, c, r.v)))
       [] s.op = "copy"  -> Next([r EXCEPT !.v = Stored(lang.var, c)])
       [] s.op = "spoil" -> Next([r EXCEPT !.v = 0])
       [] s.op = "move"  -> Next([r EXCEPT !.mp = @ + s.n])
       [] s.op \in {"while", "if"} ->
            IF (IF s.n = 0 THEN c ELSE c % s.n) = 0
            THEN [r EXCEPT !.pc = to[@] + 1] ELSE Next(r)
       [] s.op = "wend"  -> [r EXCEPT !.pc = to[@]]
       [] s.op \in Jumps \cup Turns -> IF Taken(s.op, c) THEN [r EXCEPT !.pc = to[@]] ELSE Next(r)
       [] s.op = "call"  -> [r EXCEPT !.pc = to[@] + 1, !.calls = Append(@, <<r.pc + 1, r.v>>),
                                      !.v = IF lang.own THEN 0 ELSE @]
       [] s.op = "ret" /\ r.calls # <<>> ->
            [r EXCEPT !.pc = Last(r.calls)[1], !.calls = Front(@),
                      !.v = IF lang.own THEN Last(r.calls)[2] ELSE @]
       [] s.op = "out"   -> Next(Printing(lang, r, c))
       [] s.op \in {"in", "ask"} -> Next(ReadCell(lang, r, s.off))
       [] s.op = "text"  -> Next(Shows(lang, r, s.str))
       [] s.op = "halt"  -> [r EXCEPT !.status = "stop"]
       [] s.op = "end"   -> [r EXCEPT !.status = "done"]
       [] s.op \in {"fi", "label", "main"} -> Next(r)
       [] OTHER          -> [r EXCEPT !.status = "bad"]

\* Half of the steps, and then the other half: the recursion is not deep.
RECURSIVE TargetFor(_, _, _, _, _)
TargetFor(lang, ops, to, r, fuel) ==
  IF fuel = 0 \/ r.status # "run" THEN r
  ELSE IF r.pc > Len(ops) \/ to = <<>> THEN [r EXCEPT !.status = "bad"]
  ELSE IF fuel = 1 THEN TargetStep(lang, ops, to, r)
  ELSE TargetFor(lang, ops, to, TargetFor(lang, ops, to, r, fuel \div 2), fuel - fuel \div 2)

TargetRun(lang, ops, to, stdin, fuel) == TargetFor(lang, ops, to, TargetStart(ops, stdin), fuel)

CONSTANTS
  MaxWhile,    \* MAXWHILE of bf2pas and bf2julia
  MaxJump,     \* maxjump and
  MaxDepth,    \* maxdepth of bf2lua
  MaxInstr     \* MAXINSTR of bf2java

(***************************************************************************)
(* bf2any backends that keep the whole program until the ~ and then write  *)
(* it in another arrangement, as the target language has limits: loops     *)
(* that are too long become functions (bf2pas, bf2julia, bf2lua, bf2java), *)
(* or the parts of the program between two reads become the cases of a     *)
(* state machine (bf2asmjs, bf2nav).                                       *)
(*                                                                         *)
(* L is the program: for each command [cmd, off, ops], ops the statements  *)
(* for it.                                                                 *)
(***************************************************************************)

Opens  == {"[", "I"}
Closes == {"]", "E"}

Kinds(L) == [k \in DOMAIN L |-> IF L[k].cmd \in Opens THEN "open"
                                ELSE IF L[k].cmd \in Closes THEN "close" ELSE ""]

Call(k) == Named("call", k)

(***************************************************************************)
(* The bodies of the blocks opened at out are functions, in the order      *)
(* their ends are met, and the rest is the main program.                   *)
(***************************************************************************)
Outlined(L, to, out) ==
  LET Chunk(lo, k) ==
        IF \E j \in out : lo <= j /\ j < k /\ k < to[j] THEN <<>>
        ELSE IF k \in out THEN Append(L[k].ops, Call(k)) ELSE L[k].ops
      Body(lo, hi) == FlattenSeq([i \in 1 .. hi - lo + 1 |-> Chunk(lo, lo + i - 1)])
      Function(k)  == << Named("func", k) >> \o Body(k + 1, to[k] - 1) \o << St("ret", 0, 0) >>
      ByEnd        == SetToSortSeq(out, LAMBDA j, k : to[j] < to[k])
  IN  FlattenSeq([i \in DOMAIN ByEnd |-> Function(ByEnd[i])])
      \o << St("main", 0, 0) >> \o Body(1, Len(L))

LongOnes(L, to, opens) ==
  {k \in DOMAIN L : L[k].cmd \in opens /\ to[k] - k > MaxWhile}

\* bf2pas: loops and IFs.
PascalPlan(L) ==
  LET to == Matched(Kinds(L)) IN
  Outlined(L, to, IF Len(L) < MaxWhile THEN {} ELSE LongOnes(L, to, Opens))

\* bf2julia: loops only.
JuliaPlan(L) ==
  LET to == Matched(Kinds(L)) IN
  Outlined(L, to, IF Len(L) < MaxWhile \div 4 THEN {} ELSE LongOnes(L, to, {"["}))

(***************************************************************************)
(* bf2lua: the size of a command is an estimate of the instructions it     *)
(* becomes.  Once a block is a function, what follows it is that much      *)
(* nearer, and the nesting of the loops left is counted again.             *)
(***************************************************************************)
Size(c, bytecell) ==
  (CASE c.cmd \in {".", ","} -> 4
     [] c.cmd \in {">", "<"} -> 6
     [] c.cmd \in {"=", "V"} -> 8
     [] c.cmd \in {"+", "-"} -> 14
     [] c.cmd \in {"M", "N"} -> 18
     [] c.cmd \in {"B", "I", "[", "]"} -> IF bytecell THEN 24 ELSE 8
     [] OTHER -> 16)
  + (IF c.off = 0 THEN 0 ELSE 2)

Places(L, bytecell) ==
  FoldLeft(LAMBDA w, c : Append(w, (IF w = <<>> THEN 0 ELSE Last(w)) + Size(c, bytecell)),
           <<>>, L)

\* The block a block is in, or 0.
Up(to, k) ==
  LET around == {j \in 1 .. k - 1 : to[j] > to[k]}
  IN  IF around = {} THEN 0 ELSE CHOOSE j \in around : \A i \in around : i <= j

ClosesOf(L) == SelectSeq([k \in DOMAIN L |-> k], LAMBDA k : L[k].cmd \in Closes)

\* How deep the loops in each block are nested, those in a function left out.
Nesting(L, to, functions) ==
  FoldLeft(LAMBDA nest, c :
             LET k == to[c]
                 u == Up(to, k)
             IN  IF u = 0 \/ u \in functions \/ nest[k] < nest[u] THEN nest
                 ELSE [nest EXCEPT ![u] = nest[k] + 1],
           [k \in DOMAIN L |-> 0], ClosesOf(L))

LuaPlan(L, bytecell) ==
  LET to    == Matched(Kinds(L))
      depth == Nesting(L, to, {})
      place == Places(L, bytecell)
      fits  == /\ Last(place) < MaxJump
               /\ \A k \in DOMAIN L : L[k].cmd \in Opens => depth[k] + 1 < MaxDepth
      Look(w, c) ==
        LET k    == to[c]
            long == w.place[c] - w.place[k]
        IN  IF long <= MaxJump /\ w.nest[k] < MaxDepth THEN w
            ELSE [ out   |-> w.out \cup {k},
                   place |-> [j \in DOMAIN w.place |->
                                IF j > c THEN w.place[j] - long ELSE w.place[j]],
                   nest  |-> Nesting(L, to, w.out \cup {k}) ]
  IN  Outlined(L, to,
        IF fits THEN {}
        ELSE FoldLeft(Look, [out |-> {}, place |-> place, nest |-> depth], ClosesOf(L)).out)

(***************************************************************************)
(* bf2java, reformat: the body of every loop of more than one command is a *)
(* function, numbered from 1 as their ends are met, and the program        *)
(* function 0.  A function that is too long gives its second half, from    *)
(* the first place outside any block, to a new one, and is looked at       *)
(* again.  A function is its list of commands, with a { and a } around it. *)
(***************************************************************************)
Node(cmd, ops) == [cmd |-> cmd, off |-> 0, ops |-> ops]
CallNode(n)    == Node("@", << Call(n) >>)
Bounds(body)   == << Node("{", <<>>) >> \o body \o << Node("}", <<>>) >>

\* w.stack: the list being read, and those of the loops around it.
Sliced(L) ==
  FoldLeft(LAMBDA w, c :
             LET top  == Last(w.stack)
                 rest == Front(w.stack)
             IN  CASE c.cmd = "[" -> [w EXCEPT !.stack = Append(@, <<c>>)]
                   [] c.cmd = "]" ->
                        LET long == Len(top) > 2
                            loop == IF long THEN <<Head(top), CallNode(Len(w.functions) + 1), c>>
                                    ELSE Append(top, c)
                        IN  [ stack     |-> Append(Front(rest), Last(rest) \o loop),
                              functions |-> IF long THEN Append(w.functions, Tail(top))
                                            ELSE w.functions ]
                   [] OTHER -> [w EXCEPT !.stack = Append(rest, Append(top, c))],
           [stack |-> << <<>> >>, functions |-> <<>>], L)

\* Where a function is cut: i, so far; left counts down to its middle.
RECURSIVE CutAt(_, _, _, _)
CutAt(f, i, left, depth) ==
  IF (left <= 1 /\ depth = 0) \/ i = Len(f) THEN i
  ELSE LET d == depth - (IF f[i].cmd \in Closes THEN 1 ELSE 0)
                      + (IF f[i + 1].cmd \in Opens THEN 1 ELSE 0)
       IN  CutAt(f, i + 1, IF left > 1 THEN left - 2 ELSE left, d)

\* fs[n + 1] is function n.  tries bounds the cuts: nothing in the code does.
RECURSIVE Chopped(_, _, _)
Chopped(fs, n, tries) ==
  IF n = Len(fs) THEN fs
  ELSE LET f == fs[n + 1]
           i == CutAt(f, 1, Len(f), 0)
       IN  IF Len(f) <= MaxInstr \/ i = Len(f) THEN Chopped(fs, n + 1, tries)
           ELSE IF tries = 0 THEN << Bounds(<< Node("?", << St("endless", 0, 0) >>) >>) >>
           ELSE Chopped(Append([fs EXCEPT ![n + 1] =
                                  SubSeq(f, 1, i) \o << CallNode(Len(fs)), Node("}", <<>>) >>],
                               << Node("{", <<>>) >> \o SubSeq(f, i + 1, Len(f))),
                        n, tries - 1)

OpsOf(f) == FlattenSeq([i \in DOMAIN f |-> f[i].ops])

JavaPlan(L) ==
  LET w  == Sliced(Tail(Front(L)))    \* without the ! and the ~
      fs == Chopped(<< Bounds(w.stack[1]) >> \o [n \in DOMAIN w.functions |-> Bounds(w.functions[n])],
                    0, 40)
      Function(n) == << Named("func", n) >> \o OpsOf(fs[n + 1]) \o << St("ret", 0, 0) >>
  IN  IF Len(L) <= MaxInstr THEN OpsOf(L)
      ELSE << St("main", 0, 0), Call(0) >> \o Last(L).ops
           \o FlattenSeq([i \in DOMAIN fs |-> Function(i - 1)])

(***************************************************************************)
(* bf2asmjs and bf2nav: a block with a read somewhere in it is written     *)
(* with the transitions of the state machine, as the program has to return *)
(* for more input in the middle of it; the others remain as they are.      *)
(* Every such end, beginning and read is a label.                          *)
(***************************************************************************)
ReadsIn(L, to, k) == \E j \in k .. to[k] : L[j].cmd = ","

Turning(L, to, k) ==
  CASE L[k].cmd = "," -> << St("ask", 0, 0), Label(k) >>
    [] L[k].cmd \in Opens -> << Named("turnz", to[k]), Label(k) >>
    [] L[k].cmd = "]" -> << Named("turnnz", to[k]), Label(k) >>
    [] L[k].cmd = "E" -> << Label(k) >>


CoroutinePlan(L) ==
  LET to == Matched(Kinds(L))
      HasInput(k) == \/ L[k].cmd = ","
                     \/ L[k].cmd \in Opens /\ ReadsIn(L, to, k)
                     \/ L[k].cmd \in Closes /\ ReadsIn(L, to, to[k])
  IN  FlattenSeq([k \in DOMAIN L |-> IF HasInput(k) THEN Turning(L, to, k) ELSE L[k].ops])

Arranged(plan, L, bytecell) ==
  CASE plan = "pascal"    -> PascalPlan(L)
    [] plan = "julia"     -> JuliaPlan(L)
    [] plan = "lua"       -> LuaPlan(L, bytecell)
    [] plan = "java"      -> JavaPlan(L)
    [] plan = "coroutine" -> CoroutinePlan(L)

(***************************************************************************)
(* print_cstring and print_string of the bf2any backends: a string the     *)
(* front end has put together is printed by one or more statements of the  *)
(* target language, each with a piece of it as a literal.  A literal is    *)
(* built in buf, where a character may take up several ones, and must not  *)
(* grow past it; some characters cannot be in a literal, or not at its     *)
(* start, and are printed by number; many languages have a statement that  *)
(* ends the line itself.                                                   *)
(*                                                                         *)
(* The record of a style:                                                  *)
(*   wide    : how many characters of buf a character takes up;            *)
(*   alone   : the characters printed by number;                           *)
(*   first   : those that may not be the first of a literal;               *)
(*   newline : what a newline is: "cut" (escaped in the literal, and cut   *)
(*             off again as the statement ends the line), "ends" (escaped, *)
(*             and the last of the literal), "held" (not in the literal,   *)
(*             which ends the line), "by number" (a character printed by   *)
(*             number, which ends the line if a literal is waiting),       *)
(*             or "plain" (like any other);                                *)
(*   cut     : how much of buf is cut off with the newline;                *)
(*   runs_on : the characters whose code in a literal takes in a digit     *)
(*             that follows it;                                            *)
(*   percent : the literal is a format if there is no % in it;             *)
(*   size, slack : sizeof(buf), and how much of it is kept back.           *)
(***************************************************************************)
Glyphs == {"plain", "quote", "apos", "slash", "dollar", "at", "brace", "bracket", "hash",
           "perc", "star", "bang", "backq", "dash", "digit", "nl", "tab", "esc", "ctl"}

\* An escaped character takes up two, one given by its code four.
Escaping(pairs, codes) ==
  [g \in Glyphs |-> IF g \in codes THEN 4 ELSE IF g \in pairs THEN 2 ELSE 1]

Controls == {"nl", "tab", "esc", "ctl"}

CText ==
  [ wide |-> Escaping({"quote", "slash", "nl", "tab"}, {"esc", "ctl"}), alone |-> {},
    first |-> {}, newline |-> "cut", cut |-> 2, runs_on |-> {}, percent |-> FALSE, size |-> 256, slack |-> 8 ]

\* No literals: every character is printed by number.
NoText == [CText EXCEPT !.alone = Glyphs, !.newline = "plain"]

(***************************************************************************)
(* w is [buf, len, nl, bad, perc, out]: the characters of buf and how many *)
(* of it they take up; gotnl, badchar and gotperc; and the statements,     *)
(* each [text, line, format]: line if it ends the line itself, format if   *)
(* the literal is read as a format.  most is the longest buf was.          *)
(***************************************************************************)
TextStart == [buf |-> <<>>, len |-> 0, nl |-> FALSE, bad |-> "", perc |-> FALSE,
              out |-> <<>>, most |-> 0]

Piece(text, line, format) == [text |-> text, line |-> line, format |-> format]

\* buf[outlen-2] = 0, or buf[--outlen] = 0
CutOff(t, buf) == IF t.wide[Last(buf)] = t.cut THEN Front(buf) ELSE Append(buf, "torn")

EndsLine(t, w) ==
  \/ w.nl /\ t.newline \in {"cut", "held"}
  \/ w.bad = "nl" /\ t.newline = "by number"

Flushed(t, w) ==
  [w EXCEPT !.buf = <<>>, !.len = 0, !.nl = FALSE, !.perc = FALSE,
            !.bad = IF EndsLine(t, w) THEN "" ELSE @,
            !.out = Append(@, Piece(IF w.nl /\ t.newline = "cut" THEN CutOff(t, w.buf) ELSE w.buf,
                                    EndsLine(t, w), t.percent /\ ~w.perc))]

\* Wrong on purpose: a literal is written down only when buf is full.
MustFlushLate(t, w, g) ==
  w.len > 0 /\ (g = "end" \/ w.nl \/ w.bad # "" \/ w.len > t.size)

MustFlush(t, w, g) ==
  w.len > 0 /\ (g = "end" \/ w.nl \/ w.bad # "" \/ w.len > t.size - t.slack)

\* What could not be in the literal.
ByNumber(t, w) ==
  IF w.bad # "" THEN [w EXCEPT !.bad = "", !.out = Append(@, Piece(<<w.bad>>, FALSE, FALSE))]
  ELSE IF w.nl THEN [w EXCEPT !.nl = FALSE, !.out = Append(@, Piece(<<>>, TRUE, FALSE))]
  ELSE w

Put(t, w, g) ==
  LET q == [w EXCEPT !.perc = @ \/ g = "perc"] IN
  CASE g = "end" -> w
    [] g \in t.alone \/ (g \in t.first /\ w.len = 0) -> [q EXCEPT !.bad = g]
    [] g = "nl" /\ t.newline = "held" -> [q EXCEPT !.nl = TRUE]
    [] OTHER -> [q EXCEPT !.buf = Append(@, g), !.len = @ + t.wide[g],
                          !.most = IF w.len + t.wide[g] > @ THEN w.len + t.wide[g] ELSE @,
                          !.nl = g = "nl" /\ t.newline \in {"cut", "ends"}]

\* One turn of the loop, for the next character or the end of the string.
Turn(t, w, g) ==
  Put(t, ByNumber(t, IF MustFlush(t, w, g) THEN Flushed(t, w) ELSE w), g)

(***************************************************************************)
(* What the statements print, and the room they need.                      *)
(***************************************************************************)
Printed(pieces) ==
  FlattenSeq([i \in DOMAIN pieces |->
                pieces[i].text \o (IF pieces[i].line THEN <<"nl">> ELSE <<>>)])

\* A % in a format is not printed.
Misread(pieces) == \E i \in DOMAIN pieces : pieces[i].format /\ "perc" \in ToSet(pieces[i].text)

\* A digit becomes part of the code before it.
RunsOn(t, pieces) ==
  \E i \in DOMAIN pieces :
    \E k \in 2 .. Len(pieces[i].text) :
      pieces[i].text[k] = "digit" /\ pieces[i].text[k - 1] \in t.runs_on

(***************************************************************************)
(* The statements of a command.                                            *)
(***************************************************************************)
CONSTANT MaxRun    \* max_prle, MAXPRLE, or 127: the longest run in one statement

ProgramCommands == {"=", "B", "M", "N", "S", "T", "*", "C", "D", "V", "W", "+", "-", "<",
                    ">", "[", "]", "I", "E", "X", ".", ",", "quote", "~"}
Few             == {"=", "+", "-", "<", ">", "[", "]", ".", ",", "~"}

Backend ==
  [ moves |-> FALSE, knows |-> ProgramCommands, masks |-> {}, cut |-> "amask", dot |-> "amask",
    sized |-> {}, always |-> FALSE, tests |-> FALSE, signed |-> TRUE, spoils |-> {},
    stop |-> "halt", input |-> "in", loops |-> "block", body |-> FALSE, plan |-> "", split |-> {},
    wraps |-> FALSE, slips |-> {}, own |-> FALSE, types |-> <<"word", "word">>,
    var |-> <<"word", "word">>, rem |-> "trunc", lines |-> FALSE, reads |-> "byte",
    eof |-> "keep", shows |-> "byte", text |-> CText,
    be |-> [ints |-> FALSE, limited |-> FALSE, bytesonly |-> FALSE, chrtok |-> FALSE] ]

GenStart == [out |-> <<>>, cmds |-> <<>>, imov |-> 0, sp |-> <<>>, ids |-> 0]

Emit(g, seq) == [g EXCEPT !.out = @ \o seq]

\* 0: nothing is cut.
Width(p, bytecell) ==
  IF bytecell THEN 2^ByteBits ELSE IF p.always THEN 2^WideBits ELSE 0

Mask(p, bytecell, cmd, off) ==
  IF cmd \in p.masks /\ Width(p, bytecell) # 0
  THEN << St(IF cmd = "." THEN p.dot ELSE p.cut, off, Width(p, bytecell)) >> ELSE <<>>

Shift(n) == IF n = 0 THEN <<>> ELSE << St("move", 0, n) >>

(***************************************************************************)
(* The statement for a command on the cell m[p+off].                       *)
(***************************************************************************)
Counts == { "=", "M", "N", "C", "D", "+", "-" }

Mistyped(p, bytecell, c) ==
  \/ bytecell /\ <<c.cmd, "byte">> \in p.slips
  \/ c.n > MaxRun /\ <<c.cmd, "long">> \in p.slips

\* bf2nav writes count%256.
Factor(p, n) == IF p.wraps THEN Remainder("trunc", n, 2^ByteBits) ELSE n

Simple(p, c, off) ==
  CASE <<c.cmd, "twice">> \in p.slips -> << St("twice", off, 0) >>
    [] c.cmd \in Counts /\ ~p.signed /\ c.cmd # "=" /\ c.n < 0 -> << St("unknown", off, 0) >>
    [] c.cmd = "=" -> << St("set", off, c.n) >>
    [] c.cmd = "B" -> << St("copy", off, 0) >>
    [] c.cmd = "M" -> << St("mul", off, c.n) >>  [] c.cmd = "N" -> << St("mul", off, -c.n) >>
    [] c.cmd = "S" -> << St("mul", off, 1) >>    [] c.cmd = "T" -> << St("mul", off, -1) >>
    [] c.cmd = "C" -> << St("put", off, c.n) >>  [] c.cmd = "D" -> << St("put", off, -c.n) >>
    [] c.cmd = "V" -> << St("put", off, 1) >>    [] c.cmd = "W" -> << St("put", off, -1) >>
    [] c.cmd = "*" -> << St("times", off, 0) >>
    [] c.cmd = "+" -> << St("add", off, c.n) >>  [] c.cmd = "-" -> << St("add", off, -c.n) >>
    [] c.cmd = "<" -> Shift(-c.n)                [] c.cmd = ">" -> Shift(c.n)
    [] c.cmd = "X" -> IF p.stop = "" THEN <<>> ELSE << St(p.stop, 0, 0) >>
    [] c.cmd = "." -> << St("out", off, 0) >>    [] c.cmd = "," -> << St(p.input, off, 0) >>
    [] c.cmd = "quote" -> << Literal(c.str) >>
    [] OTHER -> << St("unknown", off, 0) >>

\* while (count > most) { gen_code(ch, most, 0); count -= most; }
RECURSIVE Pieces(_)
Pieces(n) == IF n <= MaxRun THEN <<n>> ELSE <<MaxRun>> \o Pieces(n - MaxRun)

Statement(p, bytecell, c, off) ==
  IF Mistyped(p, bytecell, c) THEN << St("mistyped", off, 0) >>
  ELSE IF c.cmd \in p.split
  THEN FlattenSeq([i \in DOMAIN Pieces(c.n) |-> Simple(p, [c EXCEPT !.n = Pieces(c.n)[i]], off)])
  ELSE Simple(p, [c EXCEPT !.n = IF c.cmd \in Counts THEN Factor(p, @) ELSE @], off)

\* bf2nav: ... MOD 256
Wrapped(p, cmd, off) ==
  IF p.wraps /\ cmd \in (Counts \ {"="}) \cup {"S", "T", "V", "W", "*"}
  THEN << St("mask", off, 2^ByteBits) >> ELSE <<>>

Spoiled(p, cmd) == IF cmd \in p.spoils THEN << St("spoil", 0, 0) >> ELSE <<>>

(***************************************************************************)
(* Loops.  sp holds, for each open one, the offset it tests (of move_opt)  *)
(* and its number; labels are "B" and "E" with a number.                   *)
(***************************************************************************)
\* The cell cut by the condition, or 0.
Tested(p, bytecell) == IF p.tests THEN Width(p, bytecell) ELSE 0

\* bf2gas -local: labels are numbered by the depth, and numbers return.
LoopId(p, g) == IF p.loops = "local" THEN Len(g.sp) ELSE g.ids + 1

Enter(p, g, cmd, bytecell) ==
  LET id == LoopId(p, g)
      go == [g EXCEPT !.sp = Append(@, <<g.imov, id>>), !.ids = id]
      m  == Mask(p, bytecell, cmd, g.imov)
      n  == Tested(p, bytecell)
  IN  CASE p.loops = "block" ->
             Emit(go, m \o << St(IF cmd = "[" THEN "while" ELSE "if", g.imov, n) >>)
        [] p.loops = "label" ->
             Emit(go, m \o << Jump("jz", g.imov, <<"E", id>>, "") >>
                        \o (IF cmd = "[" THEN << Label(<<"B", id>>) >> ELSE <<>>))
        [] p.loops = "top" ->
             Emit(go, (IF cmd = "[" THEN << Label(<<"B", id>>) >> ELSE <<>>) \o m
                      \o << Jump("jz", g.imov, <<"E", id>>, "") >>)
        [] p.loops = "local" ->
             Emit(go, m \o << Jump("jz", g.imov, <<"E", id>>, "f"), Label(<<"B", id>>) >>)

\* Wrong on purpose: the end of an IF is not an end.
LeaveOpen(p, g, cmd, bytecell) ==
  IF cmd = "E" THEN g
  ELSE Emit([g EXCEPT !.sp = Front(@), !.imov = Last(g.sp)[1]],
            Shift(g.imov - Last(g.sp)[1]) \o << St("wend", Last(g.sp)[1], 0) >>)

Leave(p, g, cmd, bytecell) ==
  LET d  == Last(g.sp)[1]
      id == Last(g.sp)[2]
      go == Emit([g EXCEPT !.sp = Front(@), !.imov = d],
                 Shift(g.imov - d) \o Mask(p, bytecell, cmd, d))
  IN  CASE p.loops = "block" -> Emit(go, << St(IF cmd = "]" THEN "wend" ELSE "fi", d, 0) >>)
        [] p.loops = "label" ->
             Emit(go, (IF cmd = "]" THEN << Jump("jnz", d, <<"B", id>>, "") >> ELSE <<>>)
                      \o << Label(<<"E", id>>) >>)
        [] p.loops = "top" ->
             Emit(go, (IF cmd = "]" THEN << Jump("jmp", d, <<"B", id>>, "") >> ELSE <<>>)
                      \o << Label(<<"E", id>>) >>)
        [] p.loops = "local" ->
             Emit(go, << Jump("jnz", d, <<"B", id>>, "b"), Label(<<"E", id>>) >>)

(***************************************************************************)
(* gen_code.  be is what the front end was told and asked for.             *)
(***************************************************************************)
Distance(c) == IF c.cmd = ">" THEN c.n ELSE -c.n

Written(p, be, g, c) ==
  CASE c.cmd = "!" -> g
    [] c.cmd \notin p.knows -> g          \* no case, and no default
    [] p.moves /\ be.enable_optim /\ c.cmd \in {">", "<"} -> [g EXCEPT !.imov = @ + Distance(c)]
    [] c.cmd \in {"[", "I"} -> Enter(p, g, c.cmd, be.bytecell)
    [] c.cmd \in {"]", "E"} -> Leave(p, g, c.cmd, be.bytecell)
    [] c.cmd = "~" -> Emit([g EXCEPT !.imov = 0], << St("end", 0, 0) >>)
    [] OTHER -> Emit(g, Mask(p, be.bytecell, c.cmd, g.imov)
                        \o Statement(p, be.bytecell, c, g.imov)
                        \o Wrapped(p, c.cmd, g.imov) \o Spoiled(p, c.cmd))

\* A backend with a plan keeps the commands; those that move_opt takes are
\* not kept.
Planned(p, be, g, c) ==
  LET w    == Written(p, be, [g EXCEPT !.out = <<>>], c)
      L    == IF c.cmd \in {">", "<"} /\ w.out = <<>> THEN g.cmds
              ELSE Append(g.cmds, [cmd |-> c.cmd, off |-> w.imov, ops |-> w.out])
  IN  [w EXCEPT !.cmds = L,
                !.out = IF c.cmd = "~" THEN Arranged(p.plan, L, be.bytecell) ELSE <<>>]

GenCode(p, be, g, c) == IF p.plan = "" THEN Written(p, be, g, c) ELSE Planned(p, be, g, c)

(***************************************************************************)
(* A block in the program with nothing in it.                              *)
(***************************************************************************)
EmptyBlock(ops) ==
  \E i \in 1 .. Len(ops) - 1 : ops[i].op \in {"while", "if"} /\ ops[i + 1].op \in {"wend", "fi"}
=============================================================================
