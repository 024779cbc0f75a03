------------------------------ MODULE MicroBF ------------------------------
(***************************************************************************)
(* extras/microbf.c: the smallest interpreter of the collection.  It runs  *)
(* the text itself, finds the other end of a loop by counting brackets as  *)
(* it walks over them, and optimises nothing: what it does with a program  *)
(* is what the program means, and the compilers are compared with it.      *)
(***************************************************************************)
EXTENDS Integers, Sequences

CONSTANTS
  CellBits,    \* the width of char
  TapeSize     \* the cells an unsigned short can address

\* The variables of main: p, m, t and i; scan tells which inner loop it is in.
Start(stdin) ==
  [ p |-> 1, m |-> 0, t |-> <<>>, i |-> 0, scan |-> "no",
    stdin |-> stdin, io |-> <<>>, status |-> "run" ]

Cell(v) == IF v.m \in DOMAIN v.t THEN v.t[v.m] ELSE 0

SetCell(v, x) ==
  [v EXCEPT !.t = [a \in DOMAIN @ \cup {v.m} |->
                     IF a = v.m THEN x % 2^CellBits ELSE @[a]]]

Event(v, ev, x) == [v EXCEPT !.io = Append(@, [ev |-> ev, val |-> x])]

Moved(v, d) == [v EXCEPT !.m = (@ + d) % TapeSize]

Read(v) ==
  IF v.stdin = <<>> THEN Event(v, "eof", 0)
  ELSE SetCell(Event([v EXCEPT !.stdin = Tail(@)], "in", Head(v.stdin)),
               Head(v.stdin))

Nesting(ch) == CASE ch = "[" -> 1 [] ch = "]" -> -1 [] OTHER -> 0

\* One turn of "while((i+=(*p=='[')-(*p==']'))&&p[1])p++;"
ScanForward(b, v) ==
  LET i == v.i + Nesting(b[v.p]) IN
  [v EXCEPT !.i = i, !.p = @ + 1,
            !.scan = IF i # 0 /\ v.p < Len(b) THEN "forward" ELSE "no"]

\* One turn of "while((i+=(*p==']')-(*p=='['))&&p>b)p--;"
ScanBack(b, v) ==
  LET i == v.i - Nesting(b[v.p]) IN
  IF i # 0 /\ v.p > 1
  THEN [v EXCEPT !.i = i, !.p = @ - 1, !.scan = "back"]
  ELSE [v EXCEPT !.i = i, !.p = @ + 1, !.scan = "no"]

\* One character of the program, or of a scan.
Step(b, v) ==
  LET next(w) == [w EXCEPT !.p = @ + 1]
      ch      == b[v.p]
  IN CASE v.p > Len(b)          -> [v EXCEPT !.status = "done"]
       [] v.scan = "forward"    -> ScanForward(b, v)
       [] v.scan = "back"       -> ScanBack(b, v)
       [] ch = ">" -> next(Moved(v, 1))
       [] ch = "<" -> next(Moved(v, -1))
       [] ch = "+" -> next(SetCell(v, Cell(v) + 1))
       [] ch = "-" -> next(SetCell(v, Cell(v) - 1))
       [] ch = "." -> next(Event(v, "out", Cell(v)))
       [] ch = "," -> next(Read(v))
       [] ch = "[" -> IF Cell(v) = 0 THEN ScanForward(b, v) ELSE next(v)
       [] ch = "]" -> IF Cell(v) # 0 THEN ScanBack(b, v) ELSE next(v)
       [] OTHER    -> next(v)
=============================================================================
