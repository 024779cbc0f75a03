------------------------------- MODULE CCode -------------------------------
(***************************************************************************)
(* Tritium's generator of C (tritium/bfi.ccode.c): print_c_body writes a   *)
(* statement for each node, and print_ccode, if it may use functions,      *)
(* first gives each long loop a function of its own; loops of the same     *)
(* text are given the same one.  A statement is written here as the        *)
(* instructions that do it, with A, B and C for values that C does not     *)
(* name; they are as wide as an int, and a cell is unsigned.               *)
(*                                                                         *)
(* Two texts are the same if what they say of each node is.  Left out: the *)
(* headers, strings, -dynmem, names for the cells, traces, and the         *)
(* compiler.                                                               *)
(***************************************************************************)
EXTENDS AsmCode

CONSTANTS
  use_goto, libtcc_specials, use_functions,
  use_md5dedup, \* a loop may have the function of another
  MinFunction   \* the last node of a loop comes more than so much later: 5

\* No loop has a function yet.
CStart(t) ==
  GenStart(t) @@ [ pass |-> IF use_functions THEN "functions" ELSE "bf",
                   iprof |-> <<>>, lib |-> <<>>, texts |-> <<>>, call |-> <<>>,
                   simple |-> FALSE ]

\* set_cell_type: M(x) cuts a cell that no type of C fits.
fixed_mask == CellBits \notin {CharBit, IntBits}

B == Rg("B")
C == Rg("C")

RVal(r, off)    == <<Move(r, Mem(off))>>
RValMsk(r, off) == RVal(r, off) \o (IF fixed_mask THEN MaskTo(r) ELSE <<>>)

\* "if(!M(m[off])) goto x", and "if(M(m[off]))".
Test(off, how, x) == RValMsk(A, off) \o <<I("cmp", A, Num(0)), Jump(how, x)>>

Product(r, off, k) == RVal(r, off) \o <<I("imul", r, Num(k))>>

\* m[offset] += count + m[offset3]*count3, or = with a second product.
CCalc(nd) ==
  LET third == Product(B, nd.offset3, nd.count3) \o <<I("add", A, B)>>
      whole == <<Move(A, Num(nd.count))>>
  IN  IF nd.offset = nd.offset2 /\ nd.count2 = 1
      THEN whole \o third \o <<I("add", Mem(nd.offset), A)>>
      ELSE whole \o Product(C, nd.offset2, nd.count2) \o <<I("add", A, C)>>
           \o (IF nd.count3 = 0 THEN <<>> ELSE third) \o <<Move(Mem(nd.offset), A)>>

CCalcMult(nd) ==
  Product(A, nd.offset2, nd.count2) \o RVal(B, nd.offset3)
  \o << I("imul", A, B), I("imul", A, Num(nd.count3)), I("add", A, Num(nd.count)),
        Move(Mem(nd.offset), A) >>

\* The cells are compared as they are.
CLt(g, nd) ==
  IF OnlyOnes(nd)
  THEN Emit(g, RVal(A, nd.offset2) \o RVal(B, nd.offset3)
               \o <<I("cmp", A, B), I("setb", A, None), I("add", Mem(nd.offset), A)>>)
  ELSE Refused(g)

CDiv(nd, x) ==
  LET divided(op, to) == RValMsk(A, nd.offset)
                         \o <<I(op, A, Mem(nd.offset + 1)), Move(Mem(to), A)>>
  IN  (IF fixed_mask THEN RValMsk(A, nd.offset + 1) \o <<Move(Mem(nd.offset + 1), A)>> ELSE <<>>)
      \o RVal(A, nd.offset + 1) \o <<I("cmp", A, Num(0)), Jump("je", Spot(1, x))>>
      \o divided("quot", nd.offset + 3) \o divided("rem", nd.offset + 2)
      \o << Jump("jmp", Spot(2, x)), Label(Spot(1, x)), Move(Mem(nd.offset + 3), Num(0)),
            Move(A, Mem(nd.offset)), Move(Mem(nd.offset + 2), A), Label(Spot(2, x)) >>

\* With functions the same cell, printed again and again, is one statement.
Prints(t, x) ==
  LET p[i \in 1 .. t.num] ==
        IF i = 1 THEN <<x>>
        ELSE LET s == p[i - 1]
                 y == t.next[Last(s)] IN
             IF Len(s) = i - 1 /\ y # Null /\ t.node[y].type = "PRT"
                               /\ t.node[y].offset = t.node[x].offset
             THEN Append(s, y) ELSE s
  IN  p[t.num]

CPrts(g, nd, all) ==
  [Emit(g, RValMsk(A, nd.offset) \o [i \in DOMAIN all |-> Call("putch", A)])
   EXCEPT !.n = Last(all)]
CPrt(t, g, nd) == CPrts(g, nd, IF use_functions THEN Prints(t, g.n) ELSE <<g.n>>)

CPrti(nd) == RValMsk(A, nd.offset) \o <<Call("putint", A)>>
CChr(nd)  == <<Call("putch", Num(nd.count))>>
CStop     == <<I("exit", None, None)>>

\* EOFCELL 2 leaves the program; 0 and below is the value, else oldch is.
CGetch(m, oldch) ==
  IF m.stdin # <<>>
  THEN Reg(R!Event([m EXCEPT !.stdin = Tail(@)], "in", Head(m.stdin)), "A", Head(m.stdin))
  ELSE LET e == R!Event(m, "eof", 0) IN
       CASE eofcell = 7        -> R!Halted(e, "exit")
         [] eofcell \in {2, 4} -> Reg(e, "A", -1)
         [] eofcell = 3        -> Reg(e, "A", 0)
         [] OTHER              -> Reg(e, "A", oldch)

CInp(nd) == <<Call("cgetch", Mem(nd.offset)), Move(Mem(nd.offset), A)>>
\* getint starts from 0.
CInpi(nd) == <<Call("getint", Num(0)), Move(Mem(nd.offset), A)>>

(***************************************************************************)
(* Loops.                                                                  *)
(***************************************************************************)
\* One node between the brackets.
Single(t, x, types) ==
  LET y == t.next[x] IN
  /\ t.node[y].type \in types
  /\ t.next[y] # Null /\ t.node[t.next[y]].jmp = x

\* if(..) and a statement, or {, or goto.
CIf(t, g, nd) ==
  Emit([g EXCEPT !.simple = Single(t, g.n, {"SET", "ADD", "STOP"})],
       Test(nd.offset, "je", Exit(g.n)))

\* "if(*m) { m++; if(*m) { m++; m += strlen(m); } }" for the library of tcc.
IsTccRail(t, x) ==
  /\ t.node[x].type = "WHL" /\ Single(t, x, {"MOV"}) /\ t.node[t.next[x]].count = 1
  /\ libtcc_specials /\ byte /\ ~fixed_mask

CTccRail(g, nd) ==
  [Emit(g, Test(nd.offset, "je", Exit(g.n)) \o <<AddP(1)>>
           \o Test(nd.offset, "je", Exit(g.n)) \o <<AddP(1)>>
           \o <<I("strlen", None, Num(nd.offset)), Label(Exit(g.n))>>)
   EXCEPT !.n = nd.jmp]

\* while(..) is tested at its start only; the first label is that of nothing.
CWhl(t, g, nd) ==
  IF use_goto
  THEN Emit(g, Test(nd.offset, "je", Exit(g.n)) \o <<Label(Body(g.n))>>)
  ELSE Emit([g EXCEPT !.simple = Single(t, g.n, {"MOV"})],
            <<Label(0), Label(Body(g.n))>> \o Test(nd.offset, "je", Exit(g.n)))

\* The statement after "if(..)" or "while(..)" ends it, or } does.
CEnd(t, g, nd) ==
  Emit([g EXCEPT !.simple = FALSE],
       (IF nd.type = "ENDIF" THEN <<>>
        ELSE IF use_goto /\ ~g.simple THEN Test(t.node[nd.jmp].offset, "jne", Body(nd.jmp))
        ELSE <<Jump("jmp", Body(nd.jmp))>>)
       \o <<Label(Exit(nd.jmp))>>)

\* The function of a loop, which has the name of its first node.
Function(x) == Spot(3, x)

\* "if(..) m = bf(m);": the function of a conditional does not test.
CCall(t, g, nd) ==
  [Emit(g, (IF t.node[nd.jmp].type = "ENDIF" THEN Test(nd.offset, "je", Spot(1, g.n)) ELSE <<>>)
           \o <<Jump("call", Function(g.call[g.n])), Label(Spot(1, g.n))>>)
   EXCEPT !.n = nd.jmp]

(***************************************************************************)
(* print_c_body, one node.                                                 *)
(***************************************************************************)
CBody(t, g, nd) ==
  IF g.n \in DOMAIN g.call THEN CCall(t, g, nd)
  ELSE
  CASE nd.type = "MOV"      -> Emit(g, <<AddP(nd.count)>>)
    [] nd.type = "ADD"      -> Emit(g, <<I("add", Mem(nd.offset), Num(nd.count))>>)
    [] nd.type = "SET"      -> Emit(g, <<Move(Mem(nd.offset), Num(nd.count))>>)
    [] nd.type = "CALC"     -> Emit(g, CCalc(nd))
    [] nd.type = "CALCMULT" -> Emit(g, CCalcMult(nd))
    [] nd.type = "LT"       -> CLt(g, nd)
    [] nd.type = "DIV"      -> Emit(g, CDiv(nd, g.n))
    [] nd.type = "PRT"      -> CPrt(t, g, nd)
    [] nd.type = "PRTI"     -> Emit(g, CPrti(nd))
    [] nd.type = "CHR"      -> Emit(g, CChr(nd))
    [] nd.type = "INP"      -> Emit(g, CInp(nd))
    [] nd.type = "INPI"     -> Emit(g, CInpi(nd))
    [] nd.type = "IF"       -> CIf(t, g, nd)
    [] nd.type \in {"WHL", "CMULT", "MULT"} ->
                               IF IsTccRail(t, g.n) THEN CTccRail(g, nd) ELSE CWhl(t, g, nd)
    [] nd.type \in Closers  -> CEnd(t, g, nd)
    [] nd.type = "STOP"     -> Emit(g, CStop)
    [] nd.type \in {"NOP", "DUMP"} -> g
    [] OTHER                -> Refused(g)

\* From node x up to node e.
BodyOf(t, g, x, e) ==
  LET b[k \in 0 .. t.num] ==
        IF k = 0 THEN [g EXCEPT !.n = x, !.code = <<>>]
        ELSE LET s == b[k - 1] IN
             IF s.n = e \/ s.status # "run" THEN s ELSE NextNode(t, CBody(t, s, t.node[s.n]))
  IN  b[t.num]

(***************************************************************************)
(* print_ccode: the functions, as their last nodes are come to, and bf.    *)
(***************************************************************************)
\* What is said of a node: of a loop with a function only which; labels are
\* numbered.
Said(t, g, x) ==
  CASE x \in DOMAIN g.call ->
         [t.node[x] EXCEPT !.count = g.call[x], !.jmp = Null,
                            !.type = IF @ = "IF" THEN "if call" ELSE "call"]
    [] x \notin DOMAIN g.call /\ t.node[x].type \in Openers /\ use_goto ->
         [t.node[x] EXCEPT !.jmp = x]
    [] OTHER -> [t.node[x] EXCEPT !.jmp = Null]

\* The text of the nodes from x up to e.
TextOf(t, g, x, e) ==
  LET s[k \in 0 .. t.num] ==
        IF k = 0 THEN [n |-> x, said |-> <<>>]
        ELSE LET r == s[k - 1] IN
             IF r.n = e THEN r
             ELSE [n |-> t.next[IF r.n \in DOMAIN g.call THEN t.node[r.n].jmp ELSE r.n],
                   said |-> Append(r.said, Said(t, g, r.n))]
  IN  s[t.num].said

\* A new function, or one that has the same text.
Named(g, x, text, body) ==
  LET same == {f \in DOMAIN g.texts : g.texts[f] = text} IN
  IF body.status # "run" THEN Refused(g)
  ELSE IF use_md5dedup /\ same # {}
  THEN [g EXCEPT !.call = (x :> CHOOSE f \in same : TRUE) @@ @]
  ELSE [g EXCEPT !.call = (x :> x) @@ @, !.texts = (x :> text) @@ @,
                 !.lib  = @ \o <<Label(Function(x))>> \o body.code \o <<I("ret", None, None)>>]

FunctionOf(t, g, x, from, to) == Named(g, x, TextOf(t, g, from, to), BodyOf(t, g, from, to))

\* The loop from x to y, if it is long enough.
WithFunction(t, g, x, y) ==
  IF g.iprof[y] - g.iprof[x] <= MinFunction THEN g
  ELSE IF t.node[y].type = "ENDIF" THEN FunctionOf(t, g, x, t.next[x], y)
  ELSE FunctionOf(t, g, x, x, t.next[y])

PrintFunctions ==
  LET y == gen.n
      x == tree.node[y].jmp
      g == [gen EXCEPT !.iprof = (y :> Cardinality(DOMAIN @) + 1) @@ @]
      h == IF tree.node[y].type \in Closers /\ tree.node[x].type \in {"WHL", "IF"}
           THEN WithFunction(tree, g, x, y) ELSE g
  IN
  /\ gen.status = "run" /\ gen.pass = "functions"
  /\ gen' = IF h.status = "run" /\ tree.next[y] = Null
            THEN [h EXCEPT !.n = tree.next[Null], !.pass = "bf"] ELSE NextNode(tree, h)
  /\ UNCHANGED tree

\* "return 0;", and what bf calls.
Closed(g) ==
  IF g.status = "done" THEN [g EXCEPT !.code = @ \o <<I("ret", None, None)>> \o g.lib] ELSE g

PrintBody ==
  /\ gen.status = "run" /\ gen.pass = "bf"
  /\ gen' = Closed(NextNode(tree, CBody(tree, gen, tree.node[gen.n])))
  /\ UNCHANGED tree

PrintCCode == PrintFunctions \/ PrintBody

\* The program runs.
CStep(code, m) ==
  LET i == code[m.n]
      s == [m EXCEPT !.n = @ + 1]
  IN  CASE i.op = "call"   -> Jumped(code, [s EXCEPT !.calls = <<s.n>> \o @], i, TRUE)
        [] i.op = "ret"    -> IF s.calls = <<>> THEN R!Halted(s, "done")
                              ELSE [s EXCEPT !.n = Head(s.calls), !.calls = Tail(@)]
        [] i.op = "cgetch" -> CGetch(s, Value(s, i.s))
        [] OTHER           -> Do(code, i, s)
=============================================================================
