------------------------------ MODULE RunArray ------------------------------
(***************************************************************************)
(* The array interpreter (tritium/bfi.runarray.c, bfi.execloop.h), which   *)
(* runs programs unless they are traced.  convert_tree_to_runarray(1)      *)
(* writes the tree into an array of ints, in which an instruction is the   *)
(* movement before it, its token and its operands; operands are relative   *)
(* to the instruction's own cell, jumps are distances between words.       *)
(* Loops that walk along a rail of cells become one instruction.  Then one *)
(* of four copies of the same loop runs the array, for cells as wide as a  *)
(* char, as an int, narrower than an int and wider than it.                *)
(*                                                                         *)
(* For bfi.gmp.c (at the end) movements are instructions and every         *)
(* instruction has its cell as its first operand.                          *)
(* Left out: T_STR, which is converted as the T_CHRs it is made of.        *)
(***************************************************************************)
EXTENDS BFTree

CONSTANTS
  opt_level,                \* -O
  merge_mov,                \* the argument of convert_tree_to_runarray
  CharBit, IntBits, BigBits \* the widths of char, int and uintbig_t

VARIABLES
  tree,     \* the program; the conversion leaves notes in it
  conv,     \* the conversion, see below
  vm        \* the machine: vm.n is the loop's p, vm.p its m

vars == <<tree, conv, vm>>

R == INSTANCE RunTree

(***************************************************************************)
(* The conversion.  conv is a record of the node n it has come to, the     *)
(* last_offset merged, the array progarray so far, the size of the memory  *)
(* allocated for it, whether it is done and, for the property, starts: the *)
(* places at which something was written.                                  *)
(***************************************************************************)
\* TOKEN_LIST: an instruction's token is its place in it, from 0.
TokenList ==
  << "MOV", "ADD", "PRT", "INP", "WHL", "END", "SET", "CALC", "CALCMULT",
     "CHR", "STR", "IF", "ENDIF", "MULT", "CMULT", "ZFIND", "MFIND", "ADDWZ",
     "LT", "DIV", "CALC2", "CALC3", "CALC4", "CALC5", "PRTI", "INPI", "STOP",
     "FINI", "DUMP", "NOP", "DEAD", "CALL", "SUSP" >>

Code == [tok \in Range(TokenList) |->
           (CHOOSE i \in DOMAIN TokenList : TokenList[i] = tok) - 1]

\* The words the first loop counts for a node; arraylen is their sum.
WordsFor(tok) ==
  CASE tok = "MOV"               -> IF merge_mov THEN 0 ELSE 2
    [] tok = "CALC"              -> 7
    [] tok \in {"CALCMULT", "LT"} -> 4
    [] tok = "DIV"               -> 2
    [] OTHER                     -> 3

arraylen(t) ==
  LET sum[x \in 0 .. MaxNode] ==
        IF x = 0 THEN 0
        ELSE sum[x - 1] + (IF Live(t, x) THEN WordsFor(t.node[x].type) ELSE 0)
  IN  sum[MaxNode]

Converting(types) == ~conv.done /\ conv.n # Null /\ tree.node[conv.n].type \in types

NodeNow == tree.node[conv.n]

\* Where the pointer would be, had the movements been done.
OffsetAfter == IF merge_mov THEN NodeNow.offset ELSE 0

\* What is written next begins here.
Starting == conv.starts \cup {Len(conv.progarray)}

\* The array becomes words, and the loop goes on behind node last.
Written(words, last) ==
  conv' = [conv EXCEPT !.progarray = words, !.n = tree.next[last],
                       !.last_offset = OffsetAfter, !.starts = Starting]

\* The node's words are written.
Emit(words, last) == Written(conv.progarray \o words, last)

Mov            == NodeNow.offset - conv.last_offset
Instr(tok, ws) == (IF merge_mov THEN <<Mov, Code[tok]>>
                                ELSE <<Code[tok], NodeNow.offset>>) \o ws

\* An instruction that works on no cell.
Bare(tok, ws) == IF merge_mov THEN Instr(tok, ws) ELSE <<Code[tok]>> \o ws

ConvertMov ==
  /\ Converting({"MOV"})
  /\ IF merge_mov
     THEN conv' = [conv EXCEPT !.last_offset = @ - NodeNow.count,
                               !.n = tree.next[conv.n]]
     ELSE Emit(<<Code["MOV"], NodeNow.count>>, conv.n)
  /\ UNCHANGED <<tree, vm>>

\* Wrong on purpose: the operand is seen from where the pointer was before.
RelToLast(off) == off - conv.last_offset

\* An operand cell, seen from where the instruction leaves the pointer.
Rel(off) == off - OffsetAfter

CalcInstr(nd) ==
  IF nd.count3 = 0
  THEN IF nd.count = 0 /\ nd.count2 = 1
       THEN Instr("CALC4", <<Rel(nd.offset2)>>)
       ELSE Instr("CALC2", <<nd.count, Rel(nd.offset2), nd.count2>>)
  ELSE IF nd.count = 0 /\ nd.count2 = 1 /\ nd.offset = nd.offset2
  THEN IF nd.count3 = 1
       THEN Instr("CALC5", <<Rel(nd.offset3)>>)
       ELSE Instr("CALC3", <<Rel(nd.offset3), nd.count3>>)
  ELSE Instr("CALC", << nd.count, Rel(nd.offset2), nd.count2,
                        Rel(nd.offset3), nd.count3 >>)

Operands(nd) ==
  CASE nd.type \in {"ADD", "SET"} -> <<nd.count>>
    [] nd.type \in {"CALCMULT", "LT"}    -> <<Rel(nd.offset2), Rel(nd.offset3)>>
    [] OTHER                             -> <<>>

ConvertCommand ==
  /\ Converting((Simple \cup Calc \cup {"NOP"}) \ {"DUMP"})
  /\ LET nd == NodeNow IN
     Emit(CASE nd.type = "CALC" -> CalcInstr(nd)
            [] nd.type = "CHR"  -> Bare("CHR", <<nd.count>>)
            [] nd.type = "STOP" -> Bare("STOP", <<>>)
            [] nd.type = "NOP"  -> IF merge_mov THEN Instr("NOP", <<>>) ELSE <<>>
            [] OTHER            -> Instr(nd.type, Operands(nd)),
          conv.n)
  /\ UNCHANGED <<tree, vm>>

\* The loop body, up to its fourth node.
Body(k) ==
  LET after(x) == IF x = Null THEN Null ELSE tree.next[x]
      one   == tree.next[conv.n]
      two   == after(one)
      three == after(two)
      four  == after(three)
  IN  tree.node[CASE k = 1 -> one [] k = 2 -> two [] k = 3 -> three [] k = 4 -> four]

Types(toks) == \A k \in DOMAIN toks : Body(k).type = toks[k]

\* [<<<]: look for a zero.
IsZfind == Body(1).type = "MOV" /\ Body(1).count # 0 /\ Body(2).type = "END"

\* [-<<<]: add on the way to a zero.
IsAddwz == Types(<<"ADD", "MOV", "END">>)

\* Wrong on purpose: the cells are not looked at.
IsMfindAnywhere == Types(<<"ADD", "ADD", "MOV", "END">>)

\* [->>+]: move a one along until a cell becomes zero; look for a -1.
IsMfind ==
  /\ Types(<<"ADD", "ADD", "MOV", "END">>)
  /\ Body(1).count = -1 /\ Body(2).count = 1
  /\ NodeNow.offset = Body(1).offset
  /\ NodeNow.offset = Body(2).offset - Body(3).count

IsRail == opt_level > 0 /\ (IsZfind \/ IsAddwz \/ IsMfind)

LoopOpeners == Openers \ {"IF"}

ConvertRail ==
  /\ Converting(LoopOpeners) /\ IsRail
  /\ Emit(CASE IsZfind -> Instr("ZFIND", <<Body(1).count>>)
            [] IsAddwz -> Instr("ADDWZ", << Rel(Body(1).offset), Body(1).count,
                                            Body(2).count >>)
            [] OTHER   -> Instr("MFIND", <<Body(3).count>>),
          NodeNow.jmp)
  /\ UNCHANGED <<tree, vm>>

\* The jump's distance is not known yet: the partner's count remembers where
\* it goes.  A T_IF is written as a T_WHL, the others as they are.
ConvertOpen ==
  /\ Converting(Openers) /\ ~(NodeNow.type \in LoopOpeners /\ IsRail)
  /\ Emit(Instr(IF NodeNow.type = "IF" THEN "WHL" ELSE NodeNow.type, <<0>>), conv.n)
  /\ tree' = [tree EXCEPT !.node[NodeNow.jmp].count = Len(conv.progarray) + 2]
  /\ UNCHANGED vm

\* Wrong on purpose: one word too far.
PatchedFurther(words, i, w) == [words EXCEPT ![i + 1] = w + 1]

\* progarray[i] = w, counting from 0.
Patched(words, i, w) == [words EXCEPT ![i + 1] = w]

ConvertEnd ==
  /\ Converting({"END"})
  /\ LET d == Len(conv.progarray) + 2 - NodeNow.count IN
     Written(Patched(conv.progarray \o Instr("END", <<-d>>), NodeNow.count, d), conv.n)
  /\ UNCHANGED <<tree, vm>>

\* The end of a conditional is only written if it moves the pointer, and is
\* jumped over: the jump leaves the pointer where the conditional found it.
EndIfInstr == IF Mov = 0 \/ ~merge_mov THEN <<>> ELSE Instr("ENDIF", <<>>)

ConvertEndIf ==
  /\ Converting({"ENDIF"})
  /\ LET words == conv.progarray \o EndIfInstr IN
     Written(Patched(words, NodeNow.count, Len(words) - NodeNow.count - 1), conv.n)
  /\ UNCHANGED <<tree, vm>>

FinishInstr == IF merge_mov THEN <<0, Code["FINI"]>> ELSE <<Code["FINI"]>>

ConvertDone ==
  /\ ~conv.done /\ conv.n = Null
  /\ conv' = [conv EXCEPT !.progarray = @ \o FinishInstr, !.starts = Starting, !.done = TRUE]
  /\ UNCHANGED <<tree, vm>>

(***************************************************************************)
(* The loop.  icell is wider than a cell unless that is a char or an int;  *)
(* what is stored in an icell is cut to a cell when the macro M looks at   *)
(* it, and stays cut.                                                      *)
(***************************************************************************)
IcellBits ==
  CASE CellBits = CharBit  -> CharBit
    [] CellBits # CharBit /\ CellBits <= IntBits -> IntBits
    [] OTHER               -> BigBits

Machine(stdin) ==
  [ n |-> 0, p |-> 0, tape |-> <<>>, string |-> R!NoString, stdin |-> stdin,
    io |-> <<>>, status |-> "run",
    onRail |-> FALSE ]                \* inside the loop of a rail instruction

Icell(v)          == v % 2^IcellBits
Assign(m, off, v) == R!Put(m, off, Icell(v))
M(m, off)         == Assign(m, off, UM(R!Fetch(m, off)))

\* Numbers are written digit by digit with putch, which cuts each digit to a
\* cell; only in cells of six bits is there room for '9'.
Digits(v) ==
  LET d[x \in 0 .. v] ==
        IF x < 10 THEN <<48 + x>> ELSE Append(d[x \div 10], 48 + (x % 10))
  IN  d[v]

Putnumber(m, v) ==
  IF CellBits >= 6 \/ CellBits > IntBits THEN R!Putint(m, v)
  ELSE LET out == [k \in DOMAIN Digits(v) |-> [ev |-> "out", val |-> R!Char(Digits(v)[k])]]
       IN  [m EXCEPT !.io = @ \o out]

\* A turn of a rail's loop while the cell under the pointer is not stop.
Ride(m, stop, work) ==
  IF UM(R!Fetch(m, 0)) = UM(stop)
  THEN [m EXCEPT !.onRail = FALSE]
  ELSE [work EXCEPT !.onRail = TRUE]

Moved(m, d) == [m EXCEPT !.p = @ + d]

\* The token of the instruction at n.
TokenAt(words, n) == TokenList[words[IF merge_mov THEN n + 2 ELSE n + 1] + 1]

\* One pass through the switch with tok at word p: m += p[0] is done unless a
\* rail's loop is going on.  W(k) is p[k]; a token without a case does nothing
\* more.
Exec(tok, words, before) ==
  LET W(k)    == words[before.n + k + 1]
      m       == IF before.onRail THEN before ELSE Moved(before, W(0))
      F(off)  == R!Fetch(m, off)
      on(x,k) == IF x.status = "run" THEN [x EXCEPT !.n = @ + k] ELSE x
      cut     == M(m, 0)
      mfind   == IF before.onRail THEN m ELSE Assign(m, 0, F(0) - 1)
      rail(x, k) == IF x.onRail THEN x ELSE on(x, k)
  IN CASE tok = "ADD"   -> on(Assign(m, 0, F(0) + W(2)), 3)
       [] tok = "SET"   -> on(Assign(m, 0, W(2)), 3)
       [] tok = "END"   -> on(cut, IF R!Fetch(cut, 0) # 0 THEN W(2) + 3 ELSE 3)
       [] tok = "WHL"   -> on(cut, IF R!Fetch(cut, 0) = 0 THEN W(2) + 3 ELSE 3)
       [] tok = "ENDIF" -> on(m, 2)
       [] tok = "CALC"  -> on(Assign(m, 0, W(2) + F(W(3)) * W(4) + F(W(5)) * W(6)), 7)
       [] tok = "CALC2" -> on(Assign(m, 0, W(2) + F(W(3)) * W(4)), 5)
       [] tok = "CALC3" -> on(Assign(m, 0, F(0) + F(W(2)) * W(3)), 4)
       [] tok = "CALC4" -> on(Assign(m, 0, F(W(2))), 3)
       [] tok = "CALC5" -> on(Assign(m, 0, F(0) + F(W(2))), 3)
       [] tok = "CALCMULT" -> on(Assign(m, 0, F(W(2)) * F(W(3))), 4)
       [] tok = "LT"    -> on(Assign(m, 0, F(0) + (IF F(W(2)) < F(W(3)) THEN 1 ELSE 0)), 4)
       [] tok = "DIV"   ->
            LET b == M(m, 1)
                c == M(b, 0)
                x == R!Fetch(c, 0)
                y == R!Fetch(c, 1)
            IN  on(IF R!Fetch(b, 1) # 0
                   THEN Assign(Assign(c, 2, x % y), 3, x \div y)
                   ELSE Assign(Assign(b, 2, F(0)), 3, 0), 2)
       [] tok = "ADDWZ" -> rail(Ride(cut, 0, Moved(Assign(cut, W(2), R!Fetch(cut, W(2)) + W(3)), W(4))), 5)
       [] tok = "ZFIND" -> rail(Ride(cut, 0, Moved(cut, W(2))), 3)
       [] tok = "MFIND" ->
            LET r == Ride(mfind, -1, Moved(mfind, W(2)))
            IN  IF r.onRail THEN r ELSE on(Assign(r, 0, R!Fetch(r, 0) + 1), 3)
       [] tok = "INP"   -> LET g == R!Getch(m, 0) IN on(Assign(g, 0, R!Fetch(g, 0)), 2)
       [] tok = "INPI"  -> LET g == R!Getint(m, 0) IN on(g, 2)
       [] tok = "PRT"   -> on(R!Putch(m, F(0)), 2)
       [] tok = "PRTI"  -> on(Putnumber(cut, R!Fetch(cut, 0)), 2)
       [] tok = "CHR"   -> on(R!Putch(m, W(2)), 3)
       [] tok = "STOP"  -> R!Halted(m, "stop")
       [] tok = "FINI"  -> R!Halted(m, "done")
       [] OTHER         -> m

Turn ==
  /\ conv.done /\ vm.status = "run"
  /\ \E tok \in {TokenAt(conv.progarray, vm.n)} : vm' = Exec(tok, conv.progarray, vm)
  /\ UNCHANGED <<tree, conv>>

Convert ==
  \/ ConvertMov \/ ConvertCommand \/ ConvertRail \/ ConvertOpen
  \/ ConvertEnd \/ ConvertEndIf \/ ConvertDone

StartConverting(t) ==
  [ n |-> t.next[Null], last_offset |-> 0, progarray |-> <<>>,
    size |-> arraylen(t) + 2, done |-> FALSE, starts |-> {} ]

(***************************************************************************)
(* The array interpreter for cells of any size (tritium/bfi.gmp.c): the    *)
(* array is made without merging movements, and a cell is a long until a   *)
(* result does not fit one, and a big number of GMP from then on.  Cells   *)
(* are cut to their width only when their value is looked at, a big one    *)
(* also when it was calculated; without a width (do_mask unset) never.     *)
(*                                                                         *)
(* Left out: growing the tape, which is unbounded here and zero where it   *)
(* was never written; and when a big number's memory is initialised.       *)
(***************************************************************************)
CONSTANTS
  LongBits, \* the width of a long
  do_mask   \* cells have a width

\* Fresh memory is all zero.
FreshCell == [f |-> FALSE, v |-> 0, b |-> 0]

MemCell(m, off) == IF m.p + off \in DOMAIN m.tape THEN m.tape[m.p + off] ELSE FreshCell
PutCell(m, off, c) == [m EXCEPT !.tape = R!Store(@, m.p + off, c)]

AsLong(c, v) == [c EXCEPT !.f = FALSE, !.v = v]
AsBig(c, b)  == [c EXCEPT !.f = TRUE, !.b = b]
Value(c)     == IF c.f THEN c.b ELSE c.v

\* The ov_long functions fail exactly if the result is not a long.
IsLong(x) == -(2^(LongBits - 1)) <= x /\ x < 2^(LongBits - 1)

cell_and(b) == IF do_mask THEN b % 2^CellBits ELSE b

\* long_mask is zero if the mask is not a long.
long_mask(v) == IF do_mask /\ CellBits < LongBits THEN v % 2^CellBits ELSE v

\* A cell's value is about to be looked at.
Masked(c) == IF c.f THEN [c EXCEPT !.b = cell_and(@)] ELSE [c EXCEPT !.v = long_mask(@)]

mpx_add_cell_si(c, n) ==
  IF ~c.f /\ IsLong(c.v + n) THEN AsLong(c, c.v + n) ELSE AsBig(c, Value(c) + n)

\* The result of a calculation whose parts, from the operands to the sum, are
\* given: a long if all of them are, a big number cut to its width if not.
Result(c, operands, parts, sum) ==
  IF (\A x \in operands : ~x.f) /\ \A x \in parts \cup {sum} : IsLong(x)
  THEN AsLong(c, sum) ELSE AsBig(c, cell_and(sum))

\* In cells of unknown width a negative value is larger than any other.
LessBig(x, y) == IF x >= 0 /\ y < 0 THEN TRUE
                 ELSE IF x < 0 /\ y >= 0 THEN FALSE
                 ELSE x < y

LessCell(c, d) ==
  IF ~c.f /\ ~d.f THEN c.v % 2^LongBits < d.v % 2^LongBits
                  ELSE LessBig(Value(c), Value(d))

\* Both operands of a comparison are cut, a long for good only if both are.
Compared(m, a, b) ==
  LET c == MemCell(m, a)
      d == MemCell(m, b)
      longs == ~c.f /\ ~d.f
      cut(x)  == IF longs \/ x.f THEN Masked(x) ELSE x
      seen(x) == IF longs \/ x.f THEN Masked(x) ELSE [x EXCEPT !.v = cell_and(@)]
  IN  [m |-> PutCell(PutCell(m, a, cut(c)), b, cut(d)), less |-> LessCell(seen(c), seen(d))]

Divided(m, off) ==
  LET n0 == MemCell(m, off)
      d0 == MemCell(m, off + 1)
      n  == Masked(n0)
      d  == Masked(d0)
      to(x, r, q) == PutCell(PutCell(x, off + 2, r), off + 3, q)
      old(k) == MemCell(m, off + k)
      big(x) == IF x.f \/ x.v >= 0 THEN Value(x) ELSE cell_and(x.v)
      divisor == IF ~d.f /\ n.v < 0 THEN cell_and(d.v) ELSE Value(d)
      cut == PutCell(PutCell(m, off, n), off + 1, d)
  IN  IF ~n0.f /\ ~d0.f /\ n0.v >= 0 /\ d0.v > 0
      THEN to(m, AsLong(old(2), n0.v % d0.v), AsLong(old(3), n0.v \div d0.v))
      ELSE IF ~do_mask /\ Value(n) < 0 THEN R!Halted(m, "exit")
      ELSE IF Value(d) > 0
      THEN to(cut, AsBig(old(2), big(n) % divisor), AsBig(old(3), big(n) \div divisor))
      ELSE to(cut, IF n.f THEN AsBig(old(2), n.b) ELSE AsLong(old(2), n.v),
              AsLong(old(3), 0))

\* -256 is what getch returns when the cell is to be left as it is.
GmpGetch(m, off) ==
  LET g == R!Getch([m EXCEPT !.tape = [x \in {m.p + off} |-> -256]], off)
      read == [g EXCEPT !.tape = m.tape]
      nv == R!Fetch(g, off)
  IN  IF nv = -256 THEN read ELSE PutCell(read, off, AsLong(MemCell(m, off), nv))

\* mpz_inp_str, and back to a long if it fits.
GmpGetint(m, off) ==
  LET c == MemCell(m, off)
      x == Head(m.stdin)
      read == R!Event([m EXCEPT !.stdin = Tail(@)], "in", x)
  IN  PutCell(read, off, IF IsLong(x) THEN AsLong([c EXCEPT !.b = x], x) ELSE AsBig(c, x))

\* A big number's low bits are what putch needs of it.
Printed(c) == Value(c)

\* A turn of a rail's loop, as Ride.
GmpRide(m, stops, work) ==
  IF stops THEN [m EXCEPT !.onRail = FALSE]
  ELSE [work EXCEPT !.onRail = TRUE]

\* What MFIND looks for; a big cell is compared with the mask, which is 0
\* without a width.
IsMinusOne(c) ==
  IF c.f THEN c.b = (IF do_mask THEN 2^CellBits - 1 ELSE 0)
  ELSE c.v = long_mask(-1)

\* One pass through the switch with tok at word p.
GmpExec(tok, words, m) ==
  LET W(k)   == words[m.n + k + 1]
      C(off) == MemCell(m, off)
      c1     == C(W(1))
      on(x, k)  == IF x.status = "run" THEN [x EXCEPT !.n = @ + k] ELSE x
      set(c, k) == on(PutCell(m, W(1), c), k)
      cut    == PutCell(m, W(1), Masked(c1))
      zero   == Value(Masked(c1)) = 0
      V(k)   == Value(C(W(k)))
      rail(x, k) == IF x.onRail THEN x ELSE on(x, k)
      begun  == IF m.onRail THEN m ELSE PutCell(m, W(1), mpx_add_cell_si(c1, -1))
      tried  == PutCell(begun, W(1), Masked(MemCell(begun, W(1))))
  IN CASE tok = "MOV"   -> on(Moved(m, W(1)), 2)
       [] tok = "ADD"   -> set(mpx_add_cell_si(c1, W(2)), 3)
       [] tok = "SET"   -> set(AsLong(c1, W(2)), 3)
       [] tok = "END"   -> on(cut, IF zero THEN 3 ELSE W(2) + 3)
       [] tok = "WHL"   -> on(cut, IF zero THEN W(2) + 3 ELSE 3)
       [] tok = "CALC"  ->
            set(Result(c1, {C(W(3)), C(W(5))},
                       {V(3) * W(4), V(5) * W(6), V(3) * W(4) + V(5) * W(6)},
                       W(2) + V(3) * W(4) + V(5) * W(6)), 7)
       [] tok = "CALC2" -> set(Result(c1, {C(W(3))}, {V(3) * W(4)}, W(2) + V(3) * W(4)), 5)
       [] tok = "CALC3" -> set(Result(c1, {c1, C(W(2))}, {V(2) * W(3)}, V(1) + V(2) * W(3)), 4)
       [] tok = "CALC4" -> set(IF C(W(2)).f THEN AsBig(c1, V(2)) ELSE AsLong(c1, V(2)), 3)
       [] tok = "CALC5" -> set(Result(c1, {c1, C(W(2))}, {}, V(1) + V(2)), 3)
       [] tok = "CALCMULT" -> set(Result(c1, {C(W(2)), C(W(3))}, {}, V(2) * V(3)), 4)
       [] tok = "LT"    ->
            LET r == Compared(m, W(2), W(3))
            IN  on(IF r.less
                   THEN PutCell(r.m, W(1), mpx_add_cell_si(MemCell(r.m, W(1)), 1))
                   ELSE r.m, 4)
       [] tok = "DIV"   -> on(Divided(m, W(1)), 2)
       [] tok = "ADDWZ" ->
            rail(GmpRide(cut, zero,
                   Moved(PutCell(cut, W(2), mpx_add_cell_si(MemCell(cut, W(2)), W(3))), W(4))), 5)
       [] tok = "ZFIND" -> rail(GmpRide(cut, zero, Moved(cut, W(2))), 3)
       [] tok = "MFIND" ->
            LET r == GmpRide(tried, IsMinusOne(MemCell(tried, W(1))),
                             Moved(tried, W(2)))
            IN  IF r.onRail THEN r
                ELSE on(PutCell(r, W(1), mpx_add_cell_si(MemCell(r, W(1)), 1)), 3)
       [] tok = "INP"   -> on(GmpGetch(m, W(1)), 2)
       [] tok = "INPI"  -> on(GmpGetint(m, W(1)), 2)
       [] tok = "PRT"   -> on(R!Putch(m, Printed(c1)), 2)
       [] tok = "PRTI"  -> on(R!Event(IF c1.f THEN cut ELSE m, "int",
                                      IF c1.f THEN cell_and(c1.b) ELSE c1.v), 2)
       [] tok = "CHR"   -> on(R!Putch(m, W(1)), 2)
       [] tok = "FINI"  -> R!Halted(m, "done")
       [] OTHER         -> R!Halted(m, "stop")

GmpTurn ==
  /\ conv.done /\ vm.status = "run"
  /\ \E tok \in {TokenAt(conv.progarray, vm.n)} : vm' = GmpExec(tok, conv.progarray, vm)
  /\ UNCHANGED <<tree, conv>>

(***************************************************************************)
(* The conversion, and then the loop for cells of one size, or of any.     *)
(***************************************************************************)
\* A tree as the optimiser leaves it.
Convertible(t) == t \in Tree /\ WellFormed(t) /\ Complete(t) /\ Nested(t)

Init ==
  /\ Convertible(tree)
  /\ conv = StartConverting(tree)
  /\ \E stdin \in Seq(Int) : vm = Machine(stdin)

Next == Convert \/ (merge_mov /\ Turn) \/ (~merge_mov /\ GmpTurn)

Spec == Init /\ [][Next]_vars

\* p always stands where an instruction was written: the jumps, which are
\* patched in when a loop ends, and the steps over operands, of which the
\* conversion and the loop have ideas of their own, never lead into the middle
\* of one, nor out of the array.
Landing == conv.done /\ vm.status = "run" => vm.n \in conv.starts

\* The array, which is allocated by what the first loop of the conversion counts,
\* is never too short for what the second one writes, although rails,
\* calculations and conditionals take other numbers of words than their nodes.
LongEnough == Len(conv.progarray) <= conv.size

\* Neither loop takes an operand for an instruction, or leaves the array, and
\* the conversion writes none of it behind its memory.
JumpsLand == Landing /\ LongEnough
=============================================================================
