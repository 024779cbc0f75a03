------------------------------ MODULE Hydrogen ------------------------------
(***************************************************************************)
(* extras/hydrogen.c: texts become tokens, one for each command, and one   *)
(* for each of some long texts that treat two cells as one of twice the    *)
(* width, with a cell to help on both sides.  The tokens become nodes, the *)
(* nodes are rewritten in place, and an array of words is made of them and *)
(* run; a program that uses nothing but double cells is run with words of  *)
(* twice the width instead.                                                *)
(***************************************************************************)
EXTENDS Machine

CONSTANTS
  Margin       \* the cells the tape has left of where the program begins

(***************************************************************************)
(* substrlist, and nexttok.                                                *)
(***************************************************************************)
Lp(b) == <<"[">> \o b \o <<"]">>
Rt(n) == [i \in 1 .. n |-> ">"]
Lf(n) == [i \in 1 .. n |-> "<"]
Inc == <<"+">>
Dec == <<"-">>
Zero == Lp(Dec)

\* From the lower cell to the help cell left of it, which is set if the
\* double cell is not zero.
TestText ==
  Lp(Lf(1) \o Inc \o Rt(1) \o Lp(Dec \o Rt(2) \o Inc \o Lf(2)))
  \o Rt(2) \o Lp(Dec \o Lf(2) \o Inc \o Rt(2))
  \o Lf(1) \o Lp(Lf(2) \o Inc \o Rt(2) \o Lp(Dec \o Rt(1) \o Inc \o Lf(1)))
  \o Rt(1) \o Lp(Dec \o Lf(1) \o Inc \o Rt(1)) \o Lf(3)

CarryText(step) ==
  Lp(Lf(1) \o Dec \o Rt(1) \o Lp(Dec \o Rt(2) \o Inc \o Lf(2)))
  \o Rt(2) \o Lp(Dec \o Lf(2) \o Inc \o Rt(2)) \o Lf(3) \o Lp(Dec \o Rt(2) \o step \o Lf(2))

AddText   == Inc \o Rt(1) \o Inc \o CarryText(Inc)
SubText   == Inc \o Rt(1) \o CarryText(Dec) \o Rt(1) \o Dec
WhileText == TestText \o <<"[">> \o Zero
EndText   == TestText \o <<"]">>
SetText   == WhileText \o Rt(1) \o Lf(1) \o SubText \o EndText \o Rt(1)
FourText  == Zero \o Rt(1) \o Zero \o Rt(1) \o Zero \o Rt(1) \o Zero
TempText  == Zero \o Rt(3) \o Zero

substrlist ==
  << [t |-> <<"SET">>, s |-> Lp(Inc)],
     [t |-> <<"MOV", "ZTEMP2", "SET2c2", "MOV", "MOV">>, s |-> FourText],
     [t |-> <<"MOV", "ZTEMP2", "MOV", "MOV">>, s |-> TempText],
     [t |-> <<"SET2c2">>, s |-> SetText],
     [t |-> <<"MOV", "ADD2c2", "RMOV">>, s |-> AddText],
     [t |-> <<"MOV", "SUB2c2">>, s |-> SubText],
     [t |-> <<"WHL2c2", "RMOV">>, s |-> WhileText],
     [t |-> <<"END2c2", "RMOV">>, s |-> EndText],
     [t |-> <<"MOV">>, s |-> <<">">>], [t |-> <<"RMOV">>, s |-> <<"<">>],
     [t |-> <<"ADD">>, s |-> <<"+">>], [t |-> <<"DEC">>, s |-> <<"-">>],
     [t |-> <<"WHL">>, s |-> <<"[">>], [t |-> <<"END">>, s |-> <<"]">>],
     [t |-> <<"PRT">>, s |-> <<".">>], [t |-> <<"INP">>, s |-> <<",">>],
     [t |-> <<"DATA">>, s |-> <<"!">>] >>

\* The first of substrlist that the text goes on with.
FirstMatch(text, i) ==
  LET fits == {k \in DOMAIN substrlist :
                 LET s == substrlist[k].s
                 IN  i + Len(s) - 1 <= Len(text) /\ SubSeq(text, i, i + Len(s) - 1) = s}
  IN  substrlist[CHOOSE k \in fits : \A j \in fits : k <= j]

RECURSIVE Tokens(_, _)
Tokens(text, i) ==
  IF i > Len(text) THEN <<>>
  ELSE LET f == FirstMatch(text, i) IN f.t \o Tokens(text, i + Len(f.s))

\* The buffer has only these; a ! only from stdin.
Known(text, stdin) ==
  SelectSeq(text, LAMBDA ch : ch \in Runs \cup {"[", "]", ",", "."}
                              \cup (IF stdin THEN {"!"} ELSE {}))

(***************************************************************************)
(* main: the nodes.  dld counts the loops of a comment, j has the nodes of *)
(* the open loops.                                                         *)
(***************************************************************************)
Node(type, count) == [type |-> type, count |-> count]

HydroStart == [ns |-> <<>>, dld |-> 0, j |-> <<>>, bangs |-> 0]

Whiles == {"WHL", "WHL2", "WHL2c2"}
Ends2  == {"END", "END2", "END2c2"}

NodeOf(tok) ==
  CASE tok \in {"MOV", "ADD", "ADD2c2"} -> Node(tok, 1)
    [] tok = "RMOV"   -> Node("MOV", -1)
    [] tok = "DEC"    -> Node("ADD", -1)
    [] tok = "SUB2c2" -> Node("SUB2c2", -1)
    [] OTHER          -> Node(tok, 0)

LastType(l) == IF l.ns = <<>> THEN "none" ELSE Last(l.ns).type

\* A run that has come to nothing is taken away, unless it is the first.
RunOn(l, c) ==
  LET k == Len(l.ns) IN
  IF l.ns[k].count + c = 0 /\ k > 1 THEN [l EXCEPT !.ns = Front(@)]
  ELSE [l EXCEPT !.ns[k].count = @ + c]

NewNode(l, n) ==
  LET k == Len(l.ns) + 1
      w == [l EXCEPT !.ns = Append(@, n)]
  IN  CASE n.type \in Whiles -> [w EXCEPT !.j = Append(@, k)]
        [] n.type \in Ends2 /\ l.j # <<>> -> [w EXCEPT !.j = Front(@)]
        [] n.type \in Ends2  -> [w EXCEPT !.ns[k].type = "ERR"]
        [] OTHER             -> w

HydroTakes(l, tok) ==
  LET n == NodeOf(tok)
      nest == IF tok = "WHL" THEN 1 ELSE IF tok = "END" THEN -1 ELSE 0
  IN  CASE tok = "DATA" -> [l EXCEPT !.bangs = @ + 1]
        [] l.dld > 0 \/ (tok = "WHL" /\ LastType(l) \in {"none", "END"})
                        -> [l EXCEPT !.dld = @ + nest]
        [] n.count # 0 /\ LastType(l) = n.type -> RunOn(l, n.count)
        [] OTHER        -> NewNode(l, n)

(***************************************************************************)
(* The rewriting.  s has the nodes and n, the one looked at; a node that   *)
(* is deleted leaves n at the one before it.  Each rule is for n and what  *)
(* lies around it.                                                         *)
(***************************************************************************)
NodeAt(s, k) == IF s.n + k \in DOMAIN s.ns THEN s.ns[s.n + k] ELSE Node("none", 0)
Is(s, k, type) == NodeAt(s, k).type = type
IsOf(s, k, type, count) == NodeAt(s, k) = Node(type, count)
Nop(s, ks)  == FoldSet(LAMBDA k, u : [u EXCEPT !.ns[u.n + k] = Node("NOP", 0)], s, ks)
Retype(s, k, type) == [s EXCEPT !.ns[s.n + k].type = type]
Replace(s, k, node) == [s EXCEPT !.ns[s.n + k] = node]
Back(s, k)  == [s EXCEPT !.n = @ - k]
Dropped(s)  == [s EXCEPT !.ns = RemoveAt(@, s.n), !.n = @ - 1]

\* n goes into the node before it.
Joined(s) == Dropped([s EXCEPT !.ns[s.n - 1].count = @ + s.ns[s.n].count])

RuleErr(s) == IF Is(s, 0, "ERR") THEN Nop(s, {0}) ELSE s

RuleSame(s) ==
  IF NodeAt(s, 0).type \in {"MOV", "ADD"} /\ Is(s, -1, NodeAt(s, 0).type) THEN Joined(s) ELSE s

RuleNothing(s) ==
  IF NodeAt(s, 0).type \in {"MOV", "ADD"} /\ NodeAt(s, 0).count = 0 THEN Nop(s, {0}) ELSE s

RuleSetAdd(s) == IF Is(s, -1, "SET") /\ Is(s, 0, "ADD") THEN Joined(s) ELSE s

RuleAddSet(s) ==
  IF Is(s, -1, "ADD") /\ Is(s, 0, "SET") THEN Dropped(Replace(s, -1, NodeAt(s, 0))) ELSE s

\* Behind a node that has cleared the help cells, it is enough to clear them.
Careful == [t \in {"ADD2c2", "SUB2c2", "WHL2c2", "END2c2", "SET2c2", "ZTEMP2"} |->
              CASE t \in {"ADD2c2", "SUB2c2"} -> "ADD2"
                [] t = "WHL2c2" -> "WHL2" [] t = "END2c2" -> "END2"
                [] t = "SET2c2" -> "SET2" [] t = "ZTEMP2" -> "NOP"]

Clears == {"ADD2", "SET2", "WHL2", "END2", "SET4", "ZFIND2", "MFIND2", "ADDWZ2", "ZTEMP2"}

RuleUpgrade(s) ==
  LET prior == {i \in 1 .. s.n - 1 : s.ns[i].type \notin {"PRT", "INP"} \/ i = 1}
      p     == CHOOSE i \in prior : \A k \in prior : i >= k
      up    == Retype(s, 0, Careful[NodeAt(s, 0).type])
  IN  CASE NodeAt(s, 0).type \notin DOMAIN Careful \/ s.n = 1 -> s
        [] s.ns[p].type \notin Clears -> s
        [] s.ns[p].type = "ZTEMP2" /\ p > 1 /\ ~Is(s, 0, "ZTEMP2") ->
             [up EXCEPT !.ns = RemoveAt(@, p), !.n = @ - 1]
        [] OTHER -> up

RuleAdd2(s) ==
  LET w == IF Is(s, -1, "ADD2") /\ Is(s, 0, "ADD2") THEN Joined(s) ELSE s
  IN  IF IsOf(w, 0, "ADD2", 0) THEN Retype(w, 0, "ZTEMP2") ELSE w

RuleZero2(s) ==
  IF Is(s, 0, "END2") /\ IsOf(s, -1, "ADD2", -1) /\ Is(s, -2, "WHL2")
  THEN Back(Nop(Replace(s, 0, Node("SET2", 0)), {-1, -2}), 2) ELSE s

RuleSetAdd2(s) == IF Is(s, -1, "SET2") /\ Is(s, 0, "ADD2") THEN Joined(s) ELSE s

\* [>>]: up a rail and back down is only down, from one cell further.
RuleZFind(s) ==
  LET c == NodeAt(s, 1).count
      w == Nop(Replace(s, 0, Node("ZFIND", c)), {1, 2})
  IN  CASE ~(Is(s, 0, "WHL") /\ Is(s, 1, "MOV") /\ Is(s, 2, "END")) -> s
        [] IsOf(s, -1, "MOV", c) /\ IsOf(s, -2, "ZFIND", -c) -> Back(Nop(w, {-2}), 2)
        [] OTHER -> w

\* [->>+]
RuleMFind(s) ==
  IF /\ Is(s, 0, "WHL") /\ IsOf(s, 1, "ADD", -1) /\ Is(s, 2, "MOV")
     /\ IsOf(s, 3, "ADD", 1) /\ Is(s, 4, "END")
  THEN Back(Nop(Replace(s, 0, Node("MFIND", NodeAt(s, 2).count)), 1 .. 4), -4) ELSE s

\* [->>]
RuleAddWZ(s) ==
  IF Is(s, 0, "WHL") /\ IsOf(s, 1, "ADD", -1) /\ Is(s, 2, "MOV") /\ Is(s, 3, "END")
  THEN Back(Nop(Replace(s, 0, Node("ADDWZ", NodeAt(s, 2).count)), 1 .. 3), -3) ELSE s

(***************************************************************************)
(* A loop that takes one away from its cell in each turn and adds to or    *)
(* sets others.  Looked at from its end, in nodes of the types body; pos   *)
(* has where a node is, from the end.                                      *)
(***************************************************************************)
BodyStart(s, body) ==
  LET stop == {i \in 1 .. s.n - 1 : s.ns[i].type \notin body}
  IN  CHOOSE i \in stop : \A k \in stop : i >= k

Position(s, first) ==
  LET pos[i \in first .. s.n] ==
        IF i = s.n THEN 0
        ELSE pos[i + 1] + (IF s.ns[i].type = "MOV" THEN s.ns[i].count ELSE 0)
  IN  pos

Changes(s, first, p, add, set) ==
  [ by   |-> FoldSet(LAMBDA i, n : n + s.ns[i].count, 0,
                     {i \in first + 1 .. s.n - 1 : s.ns[i].type = add /\ p[i] = 0}),
    sets |-> \E i \in first + 1 .. s.n - 1 : s.ns[i].type = set /\ p[i] = 0,
    only |-> \A i \in first + 1 .. s.n - 1 : s.ns[i].type = "MOV" \/ p[i] = 0 ]

\* The nodes of the loop, each for all turns at once.
OnceNode(s, first, i, at, only, t) ==
  LET n == s.ns[i] IN
  CASE i = first -> Node(IF only THEN "NOP" ELSE t.save, 0)
    [] i = s.n   -> Node(t.end, 0)
    [] n.type = "MOV" -> n
    [] at = 0    -> Node(IF only THEN t.set ELSE "NOP", 0)
    [] n.type = t.add -> Node(t.mul, n.count)
    [] n.type = t.set -> Node(t.qset, n.count)
    [] OTHER     -> n

Once(s, first, p, only, t) ==
  [FoldSet(LAMBDA i, u : [u EXCEPT !.ns[i] = OnceNode(s, first, i, p[i], only, t)],
           s, first .. s.n) EXCEPT !.n = first]

Single == [ begin |-> "WHL", add |-> "ADD", set |-> "SET", mul |-> "MUL", qset |-> "QSET",
            save |-> "SAVE", close |-> "END", end |-> "NOP", step |-> 1 ]
Double == [ begin |-> "WHL2", add |-> "ADD2", set |-> "SET2", mul |-> "MUL2", qset |-> "QSET2",
            save |-> "SAVE2", close |-> "END2", end |-> "SET4", step |-> 3 ]

Multi(s, first, p, c, t) ==
  IF /\ Is(s, 0, t.close) /\ s.ns[first].type = t.begin /\ p[first] = 0
     /\ c.by = -1 /\ ~c.sets /\ \A i \in first .. s.n : p[i] % t.step = 0
  THEN Once(s, first, p, c.only, t) ELSE s

MultiFrom(s, first, t) ==
  LET p == Position(s, first) IN Multi(s, first, p, Changes(s, first, p, t.add, t.set), t)

RuleMulti(s) == MultiFrom(s, BodyStart(s, {"ADD", "SET", "MOV"}), Single)

RuleZFind2(s) ==
  IF Is(s, 0, "END2") /\ Is(s, -1, "MOV") /\ Is(s, -2, "WHL2")
  THEN Back(Nop(Replace(s, 0, Node("ZFIND2", NodeAt(s, -1).count)), {-1, -2}), 2) ELSE s

RuleMFind2(s) ==
  IF /\ Is(s, 0, "END2") /\ IsOf(s, -1, "ADD2", 1) /\ Is(s, -2, "MOV")
     /\ IsOf(s, -3, "ADD2", -1) /\ Is(s, -4, "WHL2")
  THEN Back(Nop(Replace(s, 0, Node("MFIND2", NodeAt(s, -2).count)), -4 .. -1), 4) ELSE s

RuleAddWZ2(s) ==
  IF Is(s, 0, "END2") /\ Is(s, -1, "MOV") /\ IsOf(s, -2, "ADD2", -1) /\ Is(s, -3, "WHL2")
  THEN Back(Nop(Replace(s, 0, Node("ADDWZ2", NodeAt(s, -1).count)), -3 .. -1), 3) ELSE s

RuleMulti2(s) == MultiFrom(s, BodyStart(s, {"ADD2", "SET2", "MOV", "ZTEMP2"}), Double)

RECURSIVE Leftovers(_)
Leftovers(s) == IF Is(s, 0, "NOP") /\ s.n > 1 THEN Leftovers(Dropped(s)) ELSE s

Rules(s) ==
  LET one   == RuleAddSet(RuleSetAdd(RuleNothing(RuleSame(RuleErr(s)))))
      two   == RuleSetAdd2(RuleZero2(RuleAdd2(RuleUpgrade(one))))
      three == RuleMulti(RuleAddWZ(RuleMFind(RuleZFind(two))))
  IN  Leftovers(RuleMulti2(RuleAddWZ2(RuleMFind2(RuleZFind2(three)))))

RECURSIVE Rewritten(_)
Rewritten(s) ==
  IF s.n > Len(s.ns) THEN s.ns
  ELSE LET w == Rules(s) IN Rewritten([w EXCEPT !.n = @ + 1])

Trimmed(ns) == IF ns # <<>> /\ ns[1].type = "NOP" THEN Tail(ns) ELSE ns

\* What follows the !s that were read, all of them but the last within loops.
Behind(text, bangs) ==
  LET nth[i \in 0 .. Len(text)] == IF i = 0 THEN 0 ELSE nth[i - 1] + (IF text[i] = "!" THEN 1 ELSE 0)
  IN  SelectSeq([i \in DOMAIN text |-> IF nth[i] > bangs THEN text[i] ELSE "no data"],
                LAMBDA ch : ch # "no data")

Erred(l) ==
  FoldSet(LAMBDA i, u : [u EXCEPT ![i] = Node("ERR", 0)], l.ns, {l.j[i] : i \in DOMAIN l.j})

HydroRead(text, stdin) ==
  LET Stops(k, tok) == tok = "DATA" /\ k.dld = 0 /\ k.j = <<>>
  IN  Loaded(HydroStart, Tokens(Known(text, stdin), 1), Stops, HydroTakes)

HydroRewritten(l, text, stdin) ==
  [ ns   |-> Trimmed(Rewritten([ns |-> Erred(l), n |-> 1])),
    data |-> IF stdin /\ l.ended THEN Tail(Behind(text, l.bangs)) ELSE <<>> ]

HydroLoad(text, stdin) == HydroRewritten(HydroRead(text, stdin), text, stdin)

(***************************************************************************)
(* try_16bit                                                               *)
(***************************************************************************)
Wide == [t \in {"MOV", "INP", "PRT", "SAVE2", "SET2", "SET4", "ADD2", "MUL2", "QSET2",
                "WHL2", "END2", "ZFIND2", "MFIND2", "ADDWZ2", "ZTEMP2"} |->
           CASE t = "SAVE2" -> "SAVE" [] t \in {"SET2", "SET4"} -> "SET"
             [] t = "ADD2" -> "ADD" [] t = "MUL2" -> "MUL" [] t = "QSET2" -> "QSET"
             [] t = "WHL2" -> "WHL" [] t = "END2" -> "END" [] t = "ZFIND2" -> "ZFIND"
             [] t = "MFIND2" -> "MFIND" [] t = "ADDWZ2" -> "ADDWZ" [] t = "ZTEMP2" -> "NOP"
             [] OTHER -> t]

Steps3 == {"MOV", "ZFIND2", "MFIND2", "ADDWZ2"}

\* Division as in C, towards zero.
Third(x) == IF x < 0 THEN -((-x) \div 3) ELSE x \div 3

Is16Bit(ns) ==
  /\ ns # <<>> /\ ns[1].type = "MOV" /\ ns[1].count > 0 /\ ns[1].count % 3 = 1
  /\ \A i \in 2 .. Len(ns) :
       /\ ns[i].type \in DOMAIN Wide
       /\ ns[i].type = "MOV" /\ i < Len(ns) => ns[i].count % 3 = 0

To16Bit(ns) ==
  [i \in DOMAIN ns |->
     LET c == IF ns[i].type \in Steps3 THEN Third(ns[i].count) ELSE ns[i].count
     IN  IF ns[i].type = "MOV" /\ c = 0 THEN Node("NOP", 0) ELSE Node(Wide[ns[i].type], c)]

(***************************************************************************)
(* run: the words.                                                         *)
(***************************************************************************)
HasCount == {"ADD2c2", "SUB2c2", "SET2c2", "ADD2", "SET2", "MUL2", "QSET2", "SET", "MUL", "QSET",
             "ZFIND", "MFIND", "ADDWZ", "ZFIND2", "MFIND2", "ADDWZ2", "ADD"}

WordsStart == [words |-> <<>>, offset |-> 0, open |-> <<>>]

AddWords(w, n) ==
  LET u == [w EXCEPT !.words = @ \o <<w.offset, n.type>>, !.offset = 0]
      k == Len(u.words) + 1
  IN  CASE n.type = "NOP" -> w
        [] n.type = "MOV" -> [w EXCEPT !.offset = @ + n.count]
        [] n.type \in Whiles -> [u EXCEPT !.words = Append(@, 0), !.open = Append(@, k)]
        [] n.type \in Ends2 ->
             LET d == k - Last(w.open)
             IN  [u EXCEPT !.words = Append([@ EXCEPT ![Last(w.open)] = d], -d), !.open = Front(@)]
        [] n.type \in HasCount -> [u EXCEPT !.words = Append(@, n.count)]
        [] OTHER -> u

Words(ns) == FoldLeft(AddWords, WordsStart, ns).words \o <<0, "STOP">>

(***************************************************************************)
(* The interpreter.  n is p; bits is the width of an icell; again tells    *)
(* that the loop of a word goes on; a and a2 are what SAVE and SAVE2 keep. *)
(***************************************************************************)
HydroMachine(stdin) == [Start(stdin) EXCEPT !.n = 2] @@ [a |-> 0, a2 |-> 0, again |-> FALSE]

Held(v, k)  == IF v.m + k \in DOMAIN v.t THEN v.t[v.m + k] ELSE 0
Double2(v)  == Held(v, 0) + Held(v, 1) * 2^ByteBits
SetAt(v, k, x) == Put(v, v.m + k, Byte(x))

PutDouble(v, x) ==
  LET y == x % 2^(2 * ByteBits) IN SetAt(SetAt(v, 0, y), 1, y \div 2^ByteBits)

ClearHelp(v) == SetAt(SetAt(v, -1, 0), 2, 0)

Helped(v) == Held(v, -1) # 0 \/ Held(v, 2) # 0

\* The c2 words, when the help cells are in use.
PutFour(v, x, lo, hi, y) == SetAt(SetAt(SetAt(SetAt(v, -1, x), 0, lo), 1, hi), 2, y)

AddHelped(v) ==
  LET lo1 == Byte(Held(v, 0) + 1)
      x   == Byte(Held(v, -1) + (IF lo1 # 0 THEN 0 ELSE 1))
      lo2 == Byte(Held(v, 2) + lo1)
  IN  PutFour(v, 0, lo2 - 1, Held(v, 1) + x - (IF lo2 # 0 THEN 0 ELSE 1), 0)

SubHelped(v) ==
  LET x  == Byte(Held(v, -1) + (IF Held(v, 0) # 0 THEN 0 ELSE 1))
      lo == Byte(Held(v, 2) + Held(v, 0))
  IN  PutFour(v, 0, lo, Held(v, 1) - x + (IF lo # 0 THEN 0 ELSE 1), 0)

\* What the test leaves, and whether it finds a zero.
NonZero(x) == IF x # 0 THEN 1 ELSE 0

TestFlag(v) == Byte(Held(v, -1) + NonZero(Held(v, 0)) + NonZero(Held(v, 1)))

Tested(v) == PutFour(v, 0, Held(v, 0) + Held(v, 2), Held(v, 1), 0)

SetHelped(v) ==
  IF TestFlag(v) # 0 THEN PutFour(v, 0, 0, 0, 0) ELSE Tested(v)

CarefulWord(cmd, v) ==
  CASE cmd = "ADD2c2" -> IF Helped(v) THEN AddHelped(v) ELSE v
    [] cmd = "SUB2c2" -> IF Helped(v) THEN SubHelped(v) ELSE v
    [] cmd = "SET2c2" -> IF Helped(v) THEN SetHelped(v) ELSE PutDouble(v, 0)

\* The loops of a word; each turn is a step.
Rail(cmd, v, c, bits) ==
  LET top  == 2^bits
      down == Store(v, (Cell(v) - 1) % top)
      w    == IF cmd = "MFIND" /\ ~v.again THEN down ELSE v
      goes == IF cmd = "MFIND" THEN Cell(w) # top - 1 ELSE Cell(w) # 0
      turn == Move(IF cmd = "ADDWZ" THEN down ELSE w, c)
  IN  IF goes THEN [turn EXCEPT !.again = TRUE]
      ELSE Goto([(IF cmd = "MFIND" THEN Store(w, (Cell(w) + 1) % top) ELSE w)
                   EXCEPT !.again = FALSE], v.n + 3)

Rail2(cmd, v, c) ==
  LET all  == 2^(2 * ByteBits) - 1
      u    == IF v.again THEN v ELSE ClearHelp(v)
      w    == IF cmd = "MFIND2" /\ ~v.again THEN PutDouble(u, Double2(u) - 1) ELSE u
      goes == IF cmd = "MFIND2" THEN Double2(w) # all ELSE Double2(w) # 0
      turn == Move(IF cmd = "ADDWZ2" THEN PutDouble(w, Double2(w) - 1) ELSE w, c)
  IN  IF goes THEN [ClearHelp(turn) EXCEPT !.again = TRUE]
      ELSE Goto([(IF cmd = "MFIND2" THEN PutDouble(w, Double2(w) + 1) ELSE w)
                   EXCEPT !.again = FALSE], v.n + 3)

\* A word that is no jump; c is its count.
WordDo(cmd, v, c, bits) ==
  LET cut(x) == x % 2^bits
      h == ClearHelp(v)
  IN  CASE cmd = "ADD"  -> Store(v, cut(Cell(v) + c))
        [] cmd = "SET"  -> Store(v, cut(c))
        [] cmd = "INP"  -> ReadOrKeep(v)
        [] cmd = "PRT"  -> PutChar(v, Cell(v))
        [] cmd = "SAVE" -> Store([v EXCEPT !.a = Cell(v)], 0)
        [] cmd = "MUL"  -> Store(v, cut(Cell(v) + c * v.a))
        [] cmd = "QSET" -> IF v.a # 0 THEN Store(v, cut(c)) ELSE v
        [] cmd = "SET4" -> PutFour(v, 0, 0, 0, 0)
        [] cmd = "SAVE2"  -> [h EXCEPT !.a = Held(v, 0), !.a2 = Double2(v)]
        [] cmd = "MUL2"   -> PutDouble(h, Double2(h) + c * v.a2)
        [] cmd = "QSET2"  -> IF v.a2 # 0 THEN PutDouble(h, c) ELSE h
        [] cmd = "ADD2"   -> PutDouble(h, Double2(h) + c)
        [] cmd = "SET2"   -> PutDouble(h, c)
        [] cmd = "ZTEMP2" -> h
        [] OTHER -> LET w == CarefulWord(cmd, v) IN PutDouble(w, Double2(w) + c)

\* Whether a loop is entered or left there, and what the test changes.
Flag(cmd, v) ==
  CASE cmd \in {"WHL", "END"}   -> Cell(v)
    [] cmd \in {"WHL2", "END2"} -> Double2(v)
    [] OTHER                    -> IF Helped(v) THEN TestFlag(v) ELSE Double2(v)

Looked(cmd, v) ==
  CASE cmd \in {"WHL", "END"}   -> v
    [] cmd \in {"WHL2", "END2"} -> ClearHelp(v)
    [] OTHER                    -> IF Helped(v) THEN Tested(v) ELSE v

Jump(cmd, v, d) ==
  LET w == Looked(cmd, v)
      jumps == IF cmd \in Whiles THEN Flag(cmd, v) = 0 ELSE Flag(cmd, v) # 0
  IN  Goto(w, v.n + 3 + (IF jumps THEN d ELSE 0))

HydroStep(words, v, bits) ==
  LET u   == IF v.again THEN v ELSE Move(v, words[v.n - 1])
      cmd == words[v.n]
  IN  CASE cmd = "STOP"       -> Ends(u, "done")
        [] u.m - 1 < -Margin  -> Ends(u, "range")
        [] cmd \in Whiles \cup Ends2 -> Jump(cmd, u, words[v.n + 1])
        [] cmd \in {"ZFIND", "MFIND", "ADDWZ"} -> Rail(cmd, u, words[v.n + 1], bits)
        [] cmd \in {"ZFIND2", "MFIND2", "ADDWZ2"} -> Rail2(cmd, u, words[v.n + 1])
        [] cmd \in HasCount   -> Goto(WordDo(cmd, u, words[v.n + 1], bits), v.n + 3)
        [] OTHER              -> Goto(WordDo(cmd, u, 0, bits), v.n + 2)
=============================================================================
