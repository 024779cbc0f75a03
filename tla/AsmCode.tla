------------------------------ MODULE AsmCode ------------------------------
(***************************************************************************)
(* Tritium's generators of machine code: run_dynasm                        *)
(* (tritium/bfi.dasm.x86.dasc), run_gnulightning (tritium/bfi.gnulit.c)    *)
(* and print_asm (tritium/bfi.nasm.c).  Each goes through the tree once    *)
(* and writes instructions for each node; the code is then run (the first  *)
(* two) or assembled.                                                      *)
(*                                                                         *)
(* The first two keep a cell in the register A, the accumulator: acc says  *)
(* whether there is one (loaded) and which (offset), whether memory still  *)
(* has its old value (dirty) and whether A may have bits that a cell does  *)
(* not have (hi).  All of this is known when the code is written, and must *)
(* hold whichever way the code is reached.                                 *)
(*                                                                         *)
(* acc_const is left out: it is cleared before each of its tests.  So are  *)
(* strings, stack frames, the sections that dasm spreads its code over,    *)
(* and the choice among instructions that do the same.                     *)
(***************************************************************************)
EXTENDS BFTree, SequencesExt, TLC

CONSTANTS
  RegBits, \* the width of a register
  MemBits, \* the width of a cell in memory
  LowBits, \* the width of al
  IntBits, \* the width of an int, which getch returns
  CharBit, \* 8 in the code
  sse,     \* use_sse4_2, for dasm
  Libc     \* nasm: the program calls read and write of the C library

VARIABLES
  tree,
  gen        \* the generator

(***************************************************************************)
(* The processor that Tritium's code generators write for, as far as they  *)
(* use it: a pointer P into memory, whose cells have MemBits; registers of *)
(* RegBits, the low LowBits of which have a name of their own, as have the *)
(* next LowBits (al and ah of eax); what the last comparison compared; and *)
(* calls to the run time.                                                  *)
(*                                                                         *)
(* An operand is a record [k, r, v]: a kind, a register and a number.  An  *)
(* instruction is [op, d, s]: d is written, a jump goes to label d.v.      *)
(***************************************************************************)
R == INSTANCE RunTree

Registers == {"A", "B", "C", "D", "E"}

Rg(r)     == [k |-> "reg", r |-> r, v |-> 0]
Low(r)    == [k |-> "low", r |-> r, v |-> 0]     \* al
High(r)   == [k |-> "high", r |-> r, v |-> 0]    \* ah
Mem(off)  == [k |-> "mem", r |-> "", v |-> off]  \* the cell at P+off
MemS(off) == [k |-> "mems", r |-> "", v |-> off] \* ... sign-extended when read
Num(v)    == [k |-> "num", r |-> "", v |-> v]
None      == Num(0)

I(op, d, s) == [op |-> op, d |-> d, s |-> s]
Move(d, s)  == I("mov", d, s)
Label(x)    == I("label", Num(x), None)
Jump(how, x) == I(how, Num(x), None)             \* je, jne, jmp
Call(fn, s) == I(fn, None, s)

Processor(stdin) ==
  [ n |-> 1, p |-> 0, tape |-> <<>>, reg |-> [r \in Registers |-> 0], cmp |-> <<0, 0>>,
    string |-> R!NoString, stdin |-> stdin, io |-> <<>>, status |-> "run" ]

Reg(m, r, v) == [m EXCEPT !.reg[r] = v % 2^RegBits]

Signed(v, bits) == IF v >= 2^(bits - 1) THEN v - 2^bits ELSE v

Value(m, x) ==
  CASE x.k = "reg"  -> m.reg[x.r]
    [] x.k = "low"  -> m.reg[x.r] % 2^LowBits
    [] x.k = "high" -> (m.reg[x.r] \div 2^LowBits) % 2^LowBits
    [] x.k = "mem"  -> R!Fetch(m, x.v)
    [] x.k = "mems" -> Signed(R!Fetch(m, x.v), MemBits)
    [] OTHER        -> x.v

Assign(m, x, v) ==
  CASE x.k = "reg" -> Reg(m, x.r, v)
    [] x.k = "low" -> Reg(m, x.r, m.reg[x.r] - (m.reg[x.r] % 2^LowBits) + (v % 2^LowBits))
    [] x.k = "mem" -> R!Put(m, x.v, v % 2^MemBits)

Jumped(code, m, i, taken) ==
  IF taken THEN [m EXCEPT !.n = CHOOSE k \in DOMAIN code : code[k] = Label(i.d.v)] ELSE m

\* getch and getint are given the old value and return the new one, an int:
\* of a wider register the rest may hold anything, here ones.
Returned(m, g) ==
  LET v == R!Cell(g.tape, m.p) % 2^IntBits
  IN  Reg([g EXCEPT !.tape = m.tape], "A", v + (2^RegBits - 2^IntBits))

WithArgument(m, v) == [m EXCEPT !.tape = m.p :> v]

\* read(0, P, 1), which at the end of the file leaves the cell alone.
Read(m) ==
  IF m.stdin = <<>> THEN R!Event(m, "eof", 0)
  ELSE R!Put(R!Event([m EXCEPT !.stdin = Tail(@)], "in", Head(m.stdin)),
             0, Head(m.stdin) % 2^MemBits)

\* What getch and putch of nasm's run time leave in their registers.
AfterCall(m) == [m EXCEPT !.reg = ("D" :> IF Libc THEN 0 ELSE 1) @@ ("B" :> 0)
                                  @@ ("A" :> 1) @@ m.reg]

\* div: the pair D, A divided by v; a quotient too large for A is a fault.
Divided(m, v) ==
  LET n == (m.reg["D"] * 2^RegBits) + m.reg["A"]
  IN  IF v = 0 \/ n \div v >= 2^RegBits THEN R!Halted(m, "fault")
      ELSE Reg(Reg(m, "A", n \div v), "D", n % v)

\* ... of half the width: al and ah are the quotient and the rest of ax.
LowDivided(m, n, v) ==
  IF v = 0 \/ n \div v >= 2^LowBits THEN R!Halted(m, "fault")
  ELSE Reg(m, "A", (n \div v) + ((n % v) * 2^LowBits))

\* The first cell from P+off on that is zero.
StrLen(m, off) ==
  CHOOSE k \in 0 .. Cardinality(DOMAIN m.tape) :
    /\ R!Fetch(m, off + k) = 0
    /\ \A j \in 0 .. k - 1 : R!Fetch(m, off + j) # 0

\* d and s are the values of i's operands.
Perform(code, i, m, d, s) ==
  CASE i.op = "mov"    -> Assign(m, i.d, s)
    [] i.op = "add"    -> Assign(m, i.d, d + s)
    [] i.op = "sub"    -> Assign(m, i.d, d - s)
    [] i.op = "imul"   -> Assign(m, i.d, d * s)
    [] i.op = "and"    -> Assign(m, i.d, d % 2^s)   \* with 2^s - 1
    [] i.op = "neg"    -> Assign(m, i.d, -d)
    [] i.op = "xchg"   -> Assign(Assign(m, i.d, s), i.s, d)
    [] i.op = "setb"   -> Assign(m, i.d, IF m.cmp[1] < m.cmp[2] THEN 1 ELSE 0)
    [] i.op = "rem"    -> IF s = 0 THEN R!Halted(m, "fault") ELSE Assign(m, i.d, d % s)
    [] i.op = "quot"   -> IF s = 0 THEN R!Halted(m, "fault") ELSE Assign(m, i.d, d \div s)
    [] i.op = "div"    -> Divided(m, s)
    [] i.op = "divl"   -> LowDivided(m, m.reg["A"] % 2^(2 * LowBits), s)
    [] i.op = "cmp"    -> [m EXCEPT !.cmp = <<d, s>>]
    [] i.op = "je"     -> Jumped(code, m, i, m.cmp[1] = m.cmp[2])
    [] i.op = "jne"    -> Jumped(code, m, i, m.cmp[1] # m.cmp[2])
    [] i.op = "jmp"    -> Jumped(code, m, i, TRUE)
    [] i.op = "addp"   -> [m EXCEPT !.p = @ + s]
    [] i.op = "strlen" -> [m EXCEPT !.p = @ + StrLen(m, s)]
    [] i.op = "putch"  -> R!Putch(m, s)
    [] i.op = "write"  -> AfterCall(R!Putch(m, s))
    [] i.op = "putint" -> R!Putint(m, s)
    [] i.op = "getch"  -> Returned(m, R!Getch(WithArgument(m, s), 0))
    [] i.op = "getint" -> Returned(m, R!Getint(WithArgument(m, s), 0))
    [] i.op = "read"   -> AfterCall(Read(m))
    [] i.op = "exit"   -> R!Halted(m, "stop")
    [] OTHER           -> m                         \* a label

Do(code, i, m) == Perform(code, i, m, Value(m, i.d), Value(m, i.s))

ProcessorStep(code, m) ==
  IF m.n > Len(code) THEN R!Halted(m, "done")
  ELSE Do(code, code[m.n], [m EXCEPT !.n = @ + 1])

(***************************************************************************)
(* What the generators have in common.                                     *)
(***************************************************************************)
\* tape_step = 1; otherwise the cells are ints.
byte   == CellBits = CharBit
masked == CellBits < IntBits   \* cell_mask > 0

A == Rg("A")
D == Rg("D")
E == Rg("E")

\* The labels that a loop has, by its first node, and those inside of one.
Exit(x)    == x
Body(x)    == MaxNode + x
Spot(k, x) == (k + 1) * MaxNode + x

NoAcc == [loaded |-> FALSE, offset |-> 0, dirty |-> FALSE, hi |-> FALSE]

GenStart(t) ==
  [ n |-> t.next[Null], acc |-> NoAcc, stack |-> <<>>, code |-> <<>>,
    status |-> IF t.next[Null] = Null THEN "done" ELSE "run" ]

Emit(g, instrs) == [g EXCEPT !.code = @ \o instrs]
Refused(g)      == [g EXCEPT !.status = "exit"]

\* n=n->next;
NextNode(t, g) ==
  IF g.status # "run" THEN g
  ELSE [g EXCEPT !.n = t.next[@], !.status = IF t.next[g.n] = Null THEN "done" ELSE "run"]

(***************************************************************************)
(* The accumulator.                                                        *)
(***************************************************************************)
\* clean_acc: the cell goes back to memory, and stays in A.
CleanAcc(g) ==
  IF g.acc.loaded /\ g.acc.dirty
  THEN [Emit(g, <<Move(Mem(g.acc.offset), A)>>) EXCEPT !.acc.dirty = FALSE]
  ELSE g

\* Wrong on purpose: the cell that was there is forgotten.
SetAccUnclean(g, off) ==
  [g EXCEPT !.acc = [loaded |-> TRUE, offset |-> off, dirty |-> TRUE, hi |-> TRUE]]

\* set_acc_offset: A is about to become that cell.
SetAcc(g, off) ==
  [ (IF g.acc.offset # off THEN CleanAcc(g) ELSE g)
    EXCEPT !.acc = [loaded |-> TRUE, offset |-> off, dirty |-> TRUE, hi |-> TRUE] ]

Loaded(g, off, hi, from) ==
  [ Emit(CleanAcc(g), <<Move(A, from)>>)
    EXCEPT !.acc = [loaded |-> TRUE, offset |-> off, dirty |-> FALSE, hi |-> hi] ]

Has(g, off) == g.acc.loaded /\ g.acc.offset = off

\* load_acc_offset: A is that cell.
LoadAcc(g, off) == IF Has(g, off) THEN g ELSE Loaded(g, off, ~byte /\ masked, Mem(off))

\* With gnulightning the cell at P itself is sign-extended, and a register
\* may be wider than an int.
LoadAccLightning(g, off) ==
  IF Has(g, off) THEN g
  ELSE Loaded(g, off, RegBits > IntBits \/ (~byte /\ masked),
              IF byte \/ off # 0 THEN Mem(off) ELSE MemS(off))

Released(g) == [g EXCEPT !.acc.loaded = FALSE]
Unload(g)   == Released(CleanAcc(g))

\* Load one cell, and let it become the new value of another.
Take(g, from, to)      == SetAcc(LoadAcc(g, from), to)
TakeLight(g, from, to) == SetAcc(LoadAccLightning(g, from), to)

AddP(k)    == I("addp", None, Num(k))
Plus(r, k) == IF k = 0 THEN <<>> ELSE <<I("add", r, Num(k))>>
MaskTo(r)  == <<I("and", r, Num(CellBits))>>

(***************************************************************************)
(* run_dynasm.                                                             *)
(***************************************************************************)
\* What compares and prints the cell in A.
CellA == IF byte THEN Low("A") ELSE A

\* The multiplications that lea and add can do (here lea multiplies).
Times(r, k) ==
  LET neg    == <<I("neg", r, None)>>
      twice  == <<I("add", r, r)>>
      by(n)  == <<I("imul", r, Num(n))>>
      j      == IF k \in {-2, -3, -5} THEN -k ELSE k
  IN  (IF j # k THEN neg ELSE <<>>) \o
      (CASE j = 1        -> <<>>
         [] j = -1       -> neg
         [] j = 2        -> twice
         [] j \in {6, 10} -> by(j \div 2) \o twice
         [] OTHER        -> by(j))

DasmMov(g, nd) ==
  Emit([CleanAcc(g) EXCEPT !.acc.offset = IF g.acc.loaded THEN @ - nd.count ELSE @],
       <<AddP(nd.count)>>)

DasmAdd(g, nd) == Emit(Take(g, nd.offset, nd.offset), <<I("add", A, Num(nd.count))>>)
DasmSet(g, nd) == Emit(SetAcc(g, nd.offset), <<Move(A, Num(nd.count))>>)

DasmCalc(g, nd) ==
  Emit(IF nd.count2 # 0
       THEN Emit(Take(g, nd.offset2, nd.offset), Times(A, nd.count2))
       ELSE Emit(SetAcc(g, nd.offset), <<Move(A, Num(0))>>),
       (IF nd.count3 = 1 /\ ~byte THEN <<I("add", A, Mem(nd.offset3))>>
        ELSE IF nd.count3 # 0
        THEN <<Move(D, Mem(nd.offset3))>> \o Times(D, nd.count3) \o <<I("add", A, D)>>
        ELSE <<>>)
       \o Plus(A, nd.count))

DasmCalcMult(g, nd) ==
  IF nd.count2 = 0 \/ nd.count3 = 0
  THEN Emit(SetAcc(g, nd.offset), <<Move(A, Num(0))>>)
  ELSE Emit(Take(g, nd.offset2, nd.offset),
            <<I("imul", A, Num(nd.count2))>> \o
            (IF nd.count3 = 1 /\ ~byte THEN <<I("imul", A, Mem(nd.offset3))>>
             ELSE <<Move(D, Mem(nd.offset3)), I("imul", D, Num(nd.count3)), I("imul", A, D)>>)
            \o Plus(A, nd.count))

DasmLt(g, nd) ==
  Emit(Take(g, nd.offset, nd.offset),
       << Move(D, Mem(nd.offset2)), Move(E, Mem(nd.offset3)) >>
       \o (IF masked /\ ~byte THEN MaskTo(D) \o MaskTo(E) ELSE <<>>)
       \o << Move(Rg("C"), Num(0)), I("cmp", D, E), I("setb", Low("C"), None),
             I("add", A, Rg("C")) >>)

\* The quotient becomes the accumulator; a divisor of zero leaves 0, and the
\* dividend as the remainder.
DasmDiv(g, nd) ==
  Emit(Take(g, nd.offset, nd.offset + 3),
       (IF masked THEN MaskTo(A) ELSE <<>>)
       \o << Move(D, Num(0)), I("xchg", D, A), Move(E, Mem(nd.offset + 1)) >>
       \o (IF masked THEN MaskTo(E) ELSE <<>>)
       \o << I("cmp", E, Num(0)), Jump("je", Spot(1, g.n)),
             I("xchg", D, A), I("div", None, E), Label(Spot(1, g.n)),
             Move(Mem(nd.offset + 2), D) >>)

\* [>] on bytes is found with pcmpistri, unless it ends at once.
IsStrlen(t, x) ==
  /\ t.node[x].type = "WHL" /\ masked /\ byte /\ sse
  /\ LET m == t.next[x] IN
       /\ t.node[m].type = "MOV" /\ t.node[m].count = 1
       /\ t.next[m] # Null /\ t.node[t.next[m]].jmp = x

DasmStrlen(t, g, nd) ==
  [ Emit(LoadAcc(Emit(Unload(LoadAcc(g, nd.offset)),
                      << I("cmp", Low("A"), Num(0)), Jump("je", Spot(1, g.n)),
                         AddP(1), Move(A, Mem(nd.offset)),
                         I("cmp", Low("A"), Num(0)), Jump("je", Spot(1, g.n)),
                         I("strlen", None, Num(nd.offset)) >>), nd.offset),
         <<Label(Spot(1, g.n))>>) EXCEPT !.n = nd.jmp ]

\* [->+>>] and the like, in a loop that has no mask to apply.
IsMfind(t, x) ==
  /\ t.node[x].type = "WHL" /\ (~masked \/ byte)
  /\ LET n1 == t.next[x]   n2 == t.next[n1]
         n3 == t.next[n2]  n4 == t.next[n3]
     IN  /\ t.node[n1].type = "ADD" /\ t.node[n2].type = "ADD"
         /\ t.node[n3].type = "MOV" /\ t.node[n4].type = "END"
         /\ t.node[n1].count = -1 /\ t.node[n2].count = 1
         /\ t.node[x].offset = t.node[n1].offset
         /\ t.node[x].offset = t.node[n2].offset - t.node[n3].count

\* Its cell is one less all the way, so that the one sought is -1.
DasmMfind(t, g, nd) ==
  LET step  == t.node[t.next[t.next[t.next[g.n]]]].count
      ones  == Num(2^(IF byte THEN CharBit ELSE RegBits) - 1)
      tried(h, how, k) == Emit(h, <<I("cmp", CellA, ones), Jump(how, Spot(k, g.n))>>)
      begun(h)  == tried(CleanAcc(Emit(Take(h, nd.offset, nd.offset), Plus(A, -1))), "je", 2)
      moved(h)  == Emit([h EXCEPT !.acc.offset = @ - step], <<Label(Spot(1, g.n)), AddP(step)>>)
      again(h)  == tried(LoadAcc(h, nd.offset), "jne", 1)
      ended(h)  == Take(Emit(h, <<Label(Spot(2, g.n))>>), nd.offset, nd.offset)
  IN  [Emit(ended(again(moved(begun(g)))), Plus(A, 1)) EXCEPT !.n = nd.jmp]

DasmTest(g) ==
  Emit(g, (IF masked /\ g.acc.hi /\ ~byte THEN MaskTo(A) ELSE <<>>)
          \o <<I("cmp", CellA, Num(0))>>)

DasmOpen(g, nd) ==
  Emit(DasmTest(CleanAcc(LoadAcc(g, nd.offset))), <<Jump("je", Exit(g.n)), Label(Body(g.n))>>)

\* What follows may be reached from the start of the loop as well.
DasmEndif(g, nd) == Emit(Unload(g), <<Label(Exit(nd.jmp))>>)
DasmEnd(g, nd) ==
  DasmEndif(Emit(DasmTest(CleanAcc(LoadAcc(g, nd.offset))), <<Jump("jne", Body(nd.jmp))>>), nd)

DasmPut(g, nd, fn, what) ==
  Emit(Released(LoadAcc(CleanAcc(g), nd.offset)), <<Call(fn, what)>>)

DasmGet(g, nd, fn) == Emit(Take(g, nd.offset, nd.offset), <<Call(fn, A)>>)

DasmChr(g, nd) == Emit(Unload(g), <<Move(A, Num(nd.count)), Call("putch", A)>>)

Dasm(t, g, nd) ==
  CASE nd.type = "MOV"      -> DasmMov(g, nd)
    [] nd.type = "ADD"      -> DasmAdd(g, nd)
    [] nd.type = "SET"      -> DasmSet(g, nd)
    [] nd.type = "CALC"     -> DasmCalc(g, nd)
    [] nd.type = "CALCMULT" -> DasmCalcMult(g, nd)
    [] nd.type = "LT"       -> DasmLt(g, nd)
    [] nd.type = "DIV"      -> DasmDiv(g, nd)
    [] nd.type \in Openers  -> IF IsStrlen(t, g.n) THEN DasmStrlen(t, g, nd)
                               ELSE IF IsMfind(t, g.n) THEN DasmMfind(t, g, nd)
                               ELSE DasmOpen(g, nd)
    [] nd.type = "END"      -> DasmEnd(g, nd)
    [] nd.type = "ENDIF"    -> DasmEndif(g, nd)
    [] nd.type = "PRT"      -> DasmPut(g, nd, "putch", CellA)
    [] nd.type = "PRTI"     -> DasmPut(g, nd, "putint", A)
    [] nd.type = "CHR"      -> DasmChr(g, nd)
    [] nd.type = "INP"      -> DasmGet(g, nd, "getch")
    [] nd.type = "INPI"     -> DasmGet(g, nd, "getint")
    [] nd.type = "STOP"     -> Emit(g, <<I("exit", None, None)>>)
    [] nd.type \in {"NOP", "DUMP"} -> g
    [] OTHER                -> Refused(g)

(***************************************************************************)
(* run_gnulightning.                                                       *)
(***************************************************************************)
\* A cell as an operand beside the accumulator (A1 is B, A2 is C).
Beside(off) == IF byte THEN Mem(off) ELSE MemS(off)
A1 == Rg("B")
A2 == Rg("C")

By(r, k) == CASE k = 1 -> <<>> [] k = -1 -> <<I("neg", r, None)>>
              [] OTHER -> <<I("imul", r, Num(k))>>

\* Cut to the cell's width, or an int's if a register is wider.
Extract(r) ==
  IF masked THEN MaskTo(r)
  ELSE IF RegBits > IntBits THEN <<I("and", r, Num(IntBits))>> ELSE <<>>

\* The accumulator is not stored before the pointer moves.
LightMov(g, nd) ==
  Emit([g EXCEPT !.acc.offset = IF g.acc.loaded THEN @ - nd.count ELSE @], <<AddP(nd.count)>>)

LightAdd(g, nd) == Emit(TakeLight(g, nd.offset, nd.offset), <<I("add", A, Num(nd.count))>>)
LightSet(g, nd) == Emit(SetAcc(g, nd.offset), <<Move(A, Num(nd.count))>>)

LightCalc(g, nd) ==
  Emit(IF nd.count2 # 0
       THEN Emit(TakeLight(g, nd.offset2, nd.offset), By(A, nd.count2) \o Plus(A, nd.count))
       ELSE Emit(SetAcc(CleanAcc(g), nd.offset), <<Move(A, Num(nd.count))>>),
       IF nd.count3 = 0 THEN <<>>
       ELSE <<Move(A1, Beside(nd.offset3))>> \o By(A1, nd.count3) \o <<I("add", A, A1)>>)

OnlyOnes(nd) == nd.count = 0 /\ nd.count2 = 1 /\ nd.count3 = 1

LightCalcMult(g, nd) ==
  IF OnlyOnes(nd)
  THEN Emit(TakeLight(g, nd.offset2, nd.offset),
            <<Move(A1, Beside(nd.offset3)), I("imul", A, A1)>>)
  ELSE Refused(g)

LightLt(g, nd) ==
  IF OnlyOnes(nd)
  THEN Emit(TakeLight(g, nd.offset, nd.offset),
            << Move(A1, Beside(nd.offset2)), Move(A2, Beside(nd.offset3)) >>
            \o (IF masked THEN MaskTo(A1) \o MaskTo(A2) ELSE <<>>)
            \o << I("cmp", A1, A2), Move(A1, Num(0)), I("setb", Low("B"), None),
                  I("add", A, A1) >>)
  ELSE Refused(g)

LightDiv(g, nd) ==
  Emit([Unload(LoadAccLightning(g, nd.offset)) EXCEPT !.acc.hi = FALSE],
       << Move(A1, Mem(nd.offset + 1)), Move(Mem(nd.offset + 2), A),
          Move(A2, Num(0)), Move(Mem(nd.offset + 3), A2) >>
       \o Extract(A) \o Extract(A1)
       \o << I("cmp", A1, Num(0)), Jump("je", Spot(1, g.n)),
             Move(A2, A), I("rem", A2, A1), I("quot", A, A1),
             Move(Mem(nd.offset + 3), A), Move(Mem(nd.offset + 2), A2),
             Label(Spot(1, g.n)) >>)

LightTest(g) ==
  Emit(g, (IF g.acc.hi THEN Extract(A) ELSE <<>>) \o <<I("cmp", A, Num(0))>>)

LightOpen(g, nd) ==
  Emit([LightTest(Unload(LoadAccLightning(g, nd.offset))) EXCEPT !.stack = <<g.n>> \o @],
       <<Jump("je", Exit(g.n)), Label(Body(g.n))>>)

\* The accumulator is kept: A is 0 on both ways out of the loop.
LightEnd(g, nd) ==
  [ Emit(LightTest(CleanAcc(LoadAccLightning(g, nd.offset))),
         <<Jump("jne", Body(Head(g.stack))), Label(Exit(Head(g.stack)))>>)
    EXCEPT !.stack = Tail(@) ]

LightEndif(g) == [Emit(Unload(g), <<Label(Exit(Head(g.stack)))>>) EXCEPT !.stack = Tail(@)]

LightPut(g, nd, fn) ==
  Emit(Released(LoadAccLightning(CleanAcc(g), nd.offset)), <<Call(fn, A)>>)

LightChr(g, nd) == Emit(Unload(g), <<Move(A, Num(nd.count)), Call("putch", A)>>)

LightGet(g, nd, fn) == Emit(TakeLight(g, nd.offset, nd.offset), <<Call(fn, A)>>)

Light(g, nd) ==
  CASE nd.type = "MOV"      -> LightMov(g, nd)
    [] nd.type = "ADD"      -> LightAdd(g, nd)
    [] nd.type = "SET"      -> LightSet(g, nd)
    [] nd.type = "CALC"     -> LightCalc(g, nd)
    [] nd.type = "CALCMULT" -> LightCalcMult(g, nd)
    [] nd.type = "LT"       -> LightLt(g, nd)
    [] nd.type = "DIV"      -> LightDiv(g, nd)
    [] nd.type \in Openers  -> LightOpen(g, nd)
    [] nd.type = "END"      -> LightEnd(g, nd)
    [] nd.type = "ENDIF"    -> LightEndif(g)
    [] nd.type = "PRT"      -> LightPut(g, nd, "putch")
    [] nd.type = "PRTI"     -> LightPut(g, nd, "putint")
    [] nd.type = "CHR"      -> LightChr(g, nd)
    [] nd.type = "INP"      -> LightGet(g, nd, "getch")
    [] nd.type = "INPI"     -> LightGet(g, nd, "getint")
    [] nd.type = "STOP"     -> Emit(g, <<I("exit", None, None)>>)
    [] nd.type \in {"NOP", "DUMP"} -> g
    [] OTHER                -> Refused(g)

(***************************************************************************)
(* print_asm.  Cells are bytes, and work is done in memory; dh is zero at  *)
(* the start and after every call, for the comparisons.  loop_class is 3:  *)
(* a loop is tested at its start and at its end.                           *)
(***************************************************************************)
Al == Low("A")
Bl == Low("B")

\* [offset] = [offset2], += or -= a multiple of [offset3], or the whole sum.
NasmCalcCells(nd) ==
  LET O1 == Mem(nd.offset)  O2 == Mem(nd.offset2)  O3 == Mem(nd.offset3) IN
  CASE nd.count2 = 1 /\ nd.count3 = 0 -> <<Move(A, O2), Move(O1, Al)>>
    [] nd.count2 = 1 /\ nd.count3 # 0 /\ nd.offset2 = nd.offset ->
         <<Move(A, O3)>> \o
         (CASE nd.count3 = -1 -> <<I("sub", O1, Al)>>
            [] nd.count3 = 1  -> <<I("add", O1, Al)>>
            [] nd.count3 = 2  -> <<I("add", A, A), I("add", O1, Al)>>
            [] OTHER          -> <<I("imul", A, Num(nd.count3)), I("add", O1, Al)>>)
    [] nd.count2 = 1 /\ nd.count3 = -1 /\ nd.offset2 # nd.offset ->
         <<Move(A, O2), Move(Rg("B"), O3), I("sub", A, Rg("B")), Move(O1, Al)>>
    [] OTHER ->
         (CASE UM(nd.count2) = 0 -> <<Move(Bl, Num(0))>>
            [] nd.count2 = -1    -> <<Move(Bl, O2), I("neg", Bl, None)>>
            [] OTHER             -> <<Move(Al, O2), Move(Rg("B"), A),
                                      I("imul", Rg("B"), Num(nd.count2))>>)
         \o (IF UM(nd.count3) = 0 THEN <<>>
             ELSE <<Move(Al, O3), I("imul", A, Num(nd.count3)), I("add", Bl, Al)>>)
         \o <<Move(O1, Bl)>>

NasmCalc(g, nd) ==
  Emit(g, NasmCalcCells(nd) \o (IF UM(nd.count) = 0 THEN <<>> ELSE Plus(Mem(nd.offset), nd.count)))

NasmCalcMult(g, nd) ==
  IF OnlyOnes(nd)
  THEN Emit(g, << Move(A, Mem(nd.offset2)), Move(Rg("B"), Mem(nd.offset3)),
                  I("imul", A, Rg("B")), Move(Mem(nd.offset), Al) >>)
  ELSE Refused(g)

NasmLt(g, nd) ==
  Emit(g, << Move(Rg("B"), Mem(nd.offset2)), Move(E, Mem(nd.offset3)), I("cmp", Rg("B"), E),
             I("setb", Al, None), I("add", Mem(nd.offset), Al) >>)

NasmDiv(g, nd) ==
  Emit(g, << Move(Mem(nd.offset + 3), Num(0)), Move(A, Mem(nd.offset)),
             Move(Mem(nd.offset + 2), Al), Move(Rg("B"), Mem(nd.offset + 1)),
             I("cmp", High("D"), Bl), Jump("je", Spot(1, g.n)),
             I("divl", None, Bl),
             Move(Mem(nd.offset + 3), Al), Move(Mem(nd.offset + 2), High("A")),
             Label(Spot(1, g.n)), Move(D, Num(1)) >>)

NasmTest(off) == I("cmp", High("D"), Mem(off))

NasmOpen(g, nd) ==
  Emit(g, <<NasmTest(nd.offset), Jump("je", Exit(g.n))>>
          \o (IF nd.type = "IF" THEN <<>> ELSE <<Label(Body(g.n))>>))

\* Wrong on purpose: the loop around may test another cell.
SameEndAnywhere(t, x) == t.next[x] # Null /\ t.node[t.next[x]].type = "END"

\* The end of the loop around, which tests the same cell.
SameEnd(t, x) ==
  /\ t.next[x] # Null /\ t.node[t.next[x]].type = "END"
  /\ t.node[t.next[x]].offset = t.node[x].offset

\* This end and the ends after it that need no test any more.
EndsFrom(t, x) ==
  LET e[i \in 1 .. t.num] ==
        IF i = 1 THEN <<x>>
        ELSE LET s == e[i - 1] IN
             IF Len(s) = i - 1 /\ SameEnd(t, Last(s)) THEN Append(s, t.next[Last(s)]) ELSE s
  IN  e[t.num]

NasmEnds(t, g, ends) ==
  [Emit(g, [i \in DOMAIN ends |-> Label(Exit(t.node[ends[i]].jmp))]) EXCEPT !.n = Last(ends)]

NasmEnd(t, g, nd) ==
  NasmEnds(t, Emit(g, <<NasmTest(t.node[nd.jmp].offset), Jump("jne", Body(nd.jmp))>>),
           EndsFrom(t, g.n))

NasmEndif(g, nd) == Emit(g, <<Label(Exit(nd.jmp))>>)

NasmPrt(g, nd) == Emit(g, <<Move(Al, Mem(nd.offset)), Call("write", Al)>>)
NasmChr(g, nd) == Emit(g, <<Call("write", Num(nd.count % 2^CharBit))>>)
NasmInp(g, nd) == Emit(g, <<AddP(nd.offset), Call("read", None), AddP(-nd.offset)>>)

Nasm(t, g, nd) ==
  CASE nd.type = "MOV"      -> Emit(g, <<AddP(nd.count)>>)
    [] nd.type = "ADD"      -> Emit(g, <<I("add", Mem(nd.offset), Num(nd.count))>>)
    [] nd.type = "SET"      -> Emit(g, <<Move(Mem(nd.offset), Num(nd.count))>>)
    [] nd.type = "CALC"     -> NasmCalc(g, nd)
    [] nd.type = "CALCMULT" -> NasmCalcMult(g, nd)
    [] nd.type = "LT"       -> NasmLt(g, nd)
    [] nd.type = "DIV"      -> NasmDiv(g, nd)
    [] nd.type \in Openers  -> NasmOpen(g, nd)
    [] nd.type = "END"      -> NasmEnd(t, g, nd)
    [] nd.type = "ENDIF"    -> NasmEndif(g, nd)
    [] nd.type = "PRT"      -> NasmPrt(g, nd)
    [] nd.type = "CHR"      -> NasmChr(g, nd)
    [] nd.type = "INP"      -> NasmInp(g, nd)
    [] nd.type = "STOP"     -> Emit(g, <<I("exit", None, None)>>)
    [] nd.type \in {"NOP", "DUMP"} -> g
    [] OTHER                -> Refused(g)

(***************************************************************************)
(* One turn of the loop of each.                                           *)
(***************************************************************************)
Generates(g) ==
  /\ gen.status = "run"
  /\ gen' = NextNode(tree, g)
  /\ UNCHANGED tree

RunDynasm       == Generates(Dasm(tree, gen, tree.node[gen.n]))
RunGnulightning == Generates(Light(gen, tree.node[gen.n]))
PrintAsm        == Generates(Nasm(tree, gen, tree.node[gen.n]))
=============================================================================
