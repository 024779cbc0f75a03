------------------------------- MODULE TxtBF -------------------------------
(***************************************************************************)
(* extras/txtbf.c: writes a program that prints a given text.  Its many    *)
(* generators differ in how they fill the cells with values to begin with; *)
(* then each character is printed by whichever cell is cheapest to change. *)
(* All the while cells is what the program written so far is thought to    *)
(* leave on the tape.  The shortest program is kept.                       *)
(*                                                                         *)
(* Left out are the order in which the generators search their parameters, *)
(* gen_twincell with the table qtable.h, and how lines are broken.         *)
(***************************************************************************)
EXTENDS Integers, SequencesExt

CONSTANTS
  MaxCells,    \* MAX_CELLS
  LongSteps,   \* MAX_STEPS
  ShortSteps,  \* the steps runbf grants a candidate
  PrevFound    \* PREV_FOUND

(***************************************************************************)
(* C arithmetic, and pieces of programs.                                   *)
(***************************************************************************)
Byte(x)    == x % 256
Signed(x)  == IF Byte(x) > 127 THEN Byte(x) - 256 ELSE Byte(x)
AbsVal(x)  == IF x < 0 THEN -x ELSE x
Quotient(a, b) == IF a < 0 THEN -((-a) \div b) ELSE a \div b

Repeat(n, c) == [i \in 1 .. n |-> c]
Inc(n)  == IF n < 0 THEN Repeat(-n, "-") ELSE Repeat(n, "+")
Mv(n)   == IF n < 0 THEN Repeat(-n, "<") ELSE Repeat(n, ">")
Loop(b) == <<"[">> \o b \o <<"]">>
Zero    == Loop(Inc(-1))
Dot     == <<".">>

\* A character of the text, as the options say it is to be taken.
Char(o, c) == IF o.signed THEN Signed(c) ELSE c

\* A difference of two cells, the short way round if they wrap.
Away(o, d) == IF o.wrap THEN Signed(d) ELSE d

(***************************************************************************)
(* The program being written: str is str_start, mark is str_mark, used is  *)
(* str_cells_used; cur is the local variable currcell.  ok turns FALSE     *)
(* when the program is given up as too long.                               *)
(***************************************************************************)
Blank == (0 :> 0) @@ [c \in 1 .. MaxCells - 1 |-> 0]

Reinit == [str |-> <<>>, cells |-> Blank, used |-> 0, mark |-> 0, cur |-> 0, ok |-> TRUE]

\* FoldLeft for long texts: in halves, so as not to nest as deep as s is long.
InTurn(Op(_, _), base, s) ==
  LET RECURSIVE go(_, _)
      go(v, n) == IF n = 0 \/ v.i = Len(s) THEN v
                  ELSE IF n = 1 THEN [acc |-> Op(v.acc, s[v.i + 1]), i |-> v.i + 1]
                  ELSE go(go(v, n \div 2), n - n \div 2)
  IN  go([acc |-> base, i |-> 0], Len(s)).acc

\* A > behind a < takes it back, and the other way round.
AddChr(str, ch) ==
  IF str # <<>> /\ {ch, Last(str)} = {"<", ">"} THEN Front(str) ELSE Append(str, ch)

AddStr(g, s) == [g EXCEPT !.str = InTurn(AddChr, @, s)]

Go(g, i) == [AddStr(g, Mv(i - g.cur)) EXCEPT !.cur = i]

SetHere(g, x) == [g EXCEPT !.cells[g.cur] = x]

\* "while(diff>0) { add_chr('+'); cells[currcell]++; diff--; } ..."
Count(o, g, diff) ==
  LET x == g.cells[g.cur] + diff IN
  SetHere(AddStr(g, Inc(diff)), IF o.wrap THEN Byte(x) ELSE x)

\* The first and the last cell of a range that is zero, or else.
ZeroFrom(cells, i, else) ==
  IF \E c \in i .. else : cells[c] = 0
  THEN CHOOSE c \in i .. else : cells[c] = 0 /\ \A d \in i .. c - 1 : cells[d] # 0
  ELSE else

ZeroBelow(cells, i) ==
  IF \E c \in 0 .. i : cells[c] = 0
  THEN CHOOSE c \in 0 .. i : cells[c] = 0 /\ \A d \in c + 1 .. i : cells[d] # 0
  ELSE 0

(***************************************************************************)
(* clear_tape: with [>]<[[-]<] where a row of cells lies between zeroes,   *)
(* then cell by cell, then back to cell 0.                                 *)
(***************************************************************************)
Sweep(o, g) ==
  LET right == ZeroFrom(g.cells, g.cur, IF g.used < g.cur THEN g.cur ELSE g.used)
      stops == {c \in 1 .. right - 1 : g.cells[c] = 0 \/ (~o.wrap /\ g.cells[c] < 0)}
      left  == IF stops = {} THEN 0 ELSE CHOOSE c \in stops : \A d \in stops : d <= c
  IN  IF /\ ~o.optim /\ o.clear /\ g.cells[0] = 0
         /\ ~(right >= g.used /\ o.init) /\ right < o.limit
         /\ \A c \in right .. g.used - 1 : g.cells[c] = 0
         /\ right > 0 /\ g.cells[left] = 0 /\ 5 * (right - 1 - left) > 10
      THEN [AddStr(g, Loop(Mv(1)) \o Mv(-1) \o Loop(Zero \o Mv(-1))) EXCEPT
              !.cur = left,
              !.cells = [c \in left .. g.used - 1 |-> 0] @@ @]
      ELSE g

ClearCell(g, i) ==
  IF g.cells[i] = 0 THEN g
  ELSE SetHere(AddStr(Go(g, i), IF g.cells[i] > 0 THEN Zero ELSE Loop(Inc(1))), 0)

ClearAll(g) == FoldLeft(ClearCell, g, [i \in 1 .. MaxCells |-> MaxCells - i])

Home(o, g) ==
  LET c == ZeroBelow(g.cells, g.cur) IN
  Go(IF ~o.optim /\ g.cells[0] = 0 /\ g.cur > 3 /\ g.cells[c] = 0 /\ g.cur - c > 3
     THEN [AddStr(g, Loop(Mv(-1))) EXCEPT !.cur = c] ELSE g, 0)

ClearTape(o, g) ==
  LET swept   == Sweep(o, g)
      cleared == IF o.clear THEN ClearAll(swept) ELSE swept
  IN  IF o.clear \/ o.rtz \/ o.init THEN Home(o, cleared) ELSE cleared

(***************************************************************************)
(* runbf: the program is run in an array of entries [mov, cmd, arg].  j is *)
(* the loop open last, whose arg is the one around it until it is closed.  *)
(***************************************************************************)
Entry(cmd, arg) == [mov |-> 0, cmd |-> cmd, arg |-> arg]

Compiled(c, ch) ==
  LET r    == CASE ch \in {">", "+"} -> 1 [] ch \in {"<", "-"} -> -1 [] OTHER -> 0
      cmd  == CASE ch = "<" -> ">" [] ch = "-" -> "+" [] OTHER -> ch
      last == IF c.pgm = <<>> THEN Entry("none", 0) ELSE Last(c.pgm)
      e    == [Entry(cmd, r) EXCEPT !.mov = IF last.cmd = ">" THEN last.arg ELSE 0]
      rest == IF last.cmd = ">" THEN Front(c.pgm) ELSE c.pgm
      n    == Len(rest) + 1
  IN  CASE ch = "]" /\ c.j = 0     -> c
        [] r # 0 /\ last.cmd = cmd -> [c EXCEPT !.pgm[Len(c.pgm)].arg = @ + r]
        [] ch = "[" -> [c EXCEPT !.pgm = Append(rest, [e EXCEPT !.arg = c.j]), !.j = n]
        [] ch = "]" -> [c EXCEPT !.pgm = Append([rest EXCEPT ![c.j].arg = n], [e EXCEPT !.arg = c.j]),
                                 !.j = rest[c.j].arg]
        [] OTHER    -> [c EXCEPT !.pgm = Append(rest, e)]

\* Loops left open become a + of 0; what is open has an arg before itself.
Closed(pgm) ==
  [n \in DOMAIN pgm |-> IF pgm[n].cmd = "[" /\ pgm[n].arg < n
                        THEN [pgm[n] EXCEPT !.cmd = "+", !.arg = 0] ELSE pgm[n]]

Compile(prog) == Closed(InTurn(Compiled, [pgm |-> <<>>, j |-> 0], prog).pgm)

\* rv is what runbf returns; the interpreter runs while it is "run".
Fits(o, long, x) == x <= 255 /\ x >= (IF long \/ o.signed THEN -128 ELSE 0)

RunEntry(o, long, e, v) ==
  LET x == CASE e.cmd = "+" -> v.cells[v.m] + e.arg [] OTHER -> v.cells[v.m]
      y == IF o.wrap THEN Byte(x) ELSE x
      n == IF (e.cmd = "[" /\ x = 0) \/ (e.cmd = "]" /\ x # 0) THEN e.arg ELSE v.n
  IN  IF ~Fits(o, long, y) THEN [v EXCEPT !.rv = -3]
      ELSE [v EXCEPT !.n = n + 1, !.cells[v.m] = y,
                     !.m = IF e.cmd = ">" THEN @ + e.arg ELSE @,
                     !.out = IF e.cmd = "." THEN Append(@, Byte(x)) ELSE @]

RunStep(o, long, pgm, v) ==
  LET m == IF v.n > Len(pgm) THEN v.m ELSE v.m + pgm[v.n].mov IN
  CASE v.running = FALSE             -> v
    [] m < 0 \/ m >= MaxCells        -> [v EXCEPT !.running = FALSE, !.rv = -2]
    [] v.countdown = 1               -> [v EXCEPT !.running = FALSE, !.rv = -1]
    [] v.n > Len(pgm)                -> [v EXCEPT !.running = FALSE, !.rv = m,
                                          !.used = IF m >= @ THEN m + 1 ELSE @]
    [] OTHER ->
         LET w == RunEntry(o, long, pgm[v.n],
                           [v EXCEPT !.m = m, !.countdown = @ - 1,
                                     !.used = IF m >= @ THEN m + 1 ELSE @])
         IN  [w EXCEPT !.running = w.rv # -3]

RunEntries(o, long, pgm, v) ==
  LET RECURSIVE go(_, _)
      go(u, fuel) ==
        IF fuel = 0 \/ ~u.running THEN u
        ELSE IF fuel = 1 THEN RunStep(o, long, pgm, u)
        ELSE go(go(u, fuel \div 2), fuel - fuel \div 2)
  IN  go(v, v.countdown)

RunBF(o, prog, cells, long) ==
  RunEntries(o, long, Compile(prog),
             [n |-> 1, m |-> 0, cells |-> cells, out |-> <<>>, used |-> 1, rv |-> 0,
              running |-> TRUE, countdown |-> IF long THEN LongSteps ELSE ShortSteps])

(***************************************************************************)
(* gen_unzoned, gen_lookahead and gen_zoned: print the text with cells     *)
(* that hold something already.  Each fills in one turn of its loop; the   *)
(* program is given up once it is longer than longest, if that is known.   *)
(***************************************************************************)
Cost(o, cells, cur, c, i) == AbsVal(Away(o, c - cells[i])) + AbsVal(cur - i)

\* The first of a range of cells for which the cost is the least.
Cheapest(from, to, Of(_)) ==
  CHOOSE c \in from .. to :
    /\ \A d \in from .. c - 1 : Of(d) > Of(c)
    /\ \A d \in c .. to : Of(d) >= Of(c)

\* A long way is gone with [<] or [>] if there is a zero to stop at.
SlideDown(o, g, use, low) ==
  IF /\ ~o.optim /\ g.cur - 3 > use /\ g.cells[low] = 0
     /\ AbsVal(use - low) + 3 < g.cur - use
  THEN [AddStr(g, Loop(Mv(-1))) EXCEPT !.cur = low] ELSE g

SlideUp(o, g, use, high) ==
  IF /\ ~o.optim /\ g.cur + 3 < use /\ g.cells[high] = 0
     /\ AbsVal(use - high) + 3 < use - g.cur
  THEN [AddStr(g, Loop(Mv(1))) EXCEPT !.cur = high] ELSE g

UpFrom(o, g, use) ==
  LET bound == IF o.init THEN g.used - 1 ELSE g.used IN
  SlideUp(o, g, use, IF bound < g.cur THEN g.cur ELSE ZeroFrom(g.cells, g.cur, bound))

Slide(o, g, use) == Go(UpFrom(o, SlideDown(o, g, use, ZeroBelow(g.cells, g.cur)), use), use)

\* The first cell behind those used so far; of a dirty tape, it is cleared.
Enter(o, g) ==
  IF g.cur < g.used THEN g
  ELSE [(IF o.init THEN AddStr(g, Zero) ELSE g) EXCEPT
          !.used = @ + 1, !.more = IF g.used + 1 >= o.limit THEN 0 ELSE @]

\* From a large value down to a small one it is shorter to begin at zero.
Restart(o, g, c) ==
  LET diff == Away(o, c - g.cells[g.cur]) IN
  IF c >= 0 /\ diff < 0 /\ c + 3 < -diff THEN SetHere(AddStr(g, Zero), 0) ELSE g

Output(o, g, c, longest) ==
  LET h == AddStr(Count(o, g, Away(o, c - g.cells[g.cur])), Dot) IN
  [h EXCEPT !.ok = longest < 0 \/ Len(h.str) <= longest]

Chars(o, buf) == [i \in DOMAIN buf |-> Char(o, buf[i])]

\* A program that was given up is not finished.
Finished(o, g) == IF g.ok THEN ClearTape(o, g) ELSE g

PrintUnzoned(o, buf, g0, longest) ==
  LET spare == ~o.init /\ ~o.optim /\ g0.used > 0 /\ (g0.used < o.limit \/ o.limit <= 0)
      used  == IF g0.used <= 0 THEN 1 ELSE IF spare THEN g0.used + 1 ELSE g0.used
      g1    == [more |-> IF g0.used <= 0 /\ used < o.limit THEN 1 ELSE 0]
               @@ [g0 EXCEPT !.used = used, !.mark = Len(g0.str)]
      first == IF o.clear /\ ~o.optim /\ used > 4 /\ g0.cells[0] = 0 THEN 1 ELSE 0
      use(g, c)  == Cheapest(first, g.used + g.more - 1, LAMBDA i : Cost(o, g.cells, g.cur, c, i))
      turn(g, c) ==
        IF ~g.ok THEN g
        ELSE Output(o, Restart(o, Enter(o, Slide(o, g, use(g, c))), c), c, longest)
  IN  Finished(o, FoldLeft(turn, g1, Chars(o, buf)))

\* What the characters after it will cost if this one is printed by cell i.
Ahead(o, g, rest, c, i) ==
  LET turn(a, d) ==
        LET use == Cheapest(0, g.used - 1, LAMBDA j : Cost(o, a.cells, a.cur, d, j)) IN
        [cells |-> [a.cells EXCEPT ![use] = d], cur |-> use,
         sum |-> a.sum + Cost(o, a.cells, a.cur, d, use)]
  IN  FoldLeft(turn, [cells |-> [g.cells EXCEPT ![i] = c], cur |-> i, sum |-> 0],
               SubSeq(rest, 1, IF Len(rest) < 15 THEN Len(rest) ELSE 15)).sum

LookTurn(o, g, cs, n, more, longest) ==
  LET rest    == SubSeq(cs, n + 1, Len(cs))
      cost(i) == Cost(o, g.cells, g.cur, cs[n], i) + Ahead(o, g, rest, cs[n], i)
  IN  Output(o, Enter(o, Slide(o, g, Cheapest(0, g.used + more - 1, cost))), cs[n], longest)

PrintLookahead(o, buf, g0, longest) ==
  LET more       == IF g0.used <= 0 THEN 1 ELSE 0
      turn(g, n) == IF g.ok THEN LookTurn(o, g, Chars(o, buf), n, more, longest) ELSE g
  IN  Finished(o, FoldLeft(turn, [more |-> more] @@ [g0 EXCEPT !.used = IF @ <= 0 THEN 1 ELSE @],
                           [n \in DOMAIN buf |-> n]))

\* Each character is printed by the cell that was nearest at the beginning.
PrintZoned(o, buf, g0, longest) ==
  LET used  == IF g0.used <= 0 THEN 1 ELSE g0.used
      g1    == [g0 EXCEPT !.used = used, !.mark = Len(g0.str)]
      full  == {c \in 0 .. used - 1 : g0.cells[c] # 0}
      st    == IF full = {} THEN 0 ELSE CHOOSE c \in full : \A d \in full : c <= d
      first == IF st = 0 THEN 0 ELSE st - 1
      turn(g, c) ==
        IF ~g.ok THEN g
        ELSE LET cost(i) == 4 * AbsVal(Away(o, c - g0.cells[i])) + AbsVal(g.cur - i)
             IN  Output(o, Restart(o, Go(g, Cheapest(first, used - 1, cost)), c), c, longest)
  IN  Finished(o, FoldLeft(turn, g1, Chars(o, buf)))

GenPrint(o, buf, g, best) ==
  LET longest == IF best.len > 0 THEN best.len + o.more ELSE -1 IN
  CASE o.zoned     -> PrintZoned(o, buf, g, longest)
    [] o.lookahead -> PrintLookahead(o, buf, g, longest)
    [] OTHER       -> PrintUnzoned(o, buf, g, longest)

(***************************************************************************)
(* check_if_best: a program no longer than the best one is tried before it *)
(* may take its place; failed is that it did not print the text, left the  *)
(* range of the cells or, if it was to clear them, did not.  found are the *)
(* beginnings that gave good results, up to PrevFound of them.  bytes is   *)
(* that the best one is for cells that wrap.                               *)
(***************************************************************************)
None == [len |-> -1, str |-> <<>>, cells |-> 0, mark |-> 0, bytes |-> FALSE,
         found |-> <<>>, failed |-> FALSE]

Dirty(o) == IF o.init THEN [c \in DOMAIN Blank |-> 85] @@ Blank ELSE Blank

Prints(buf, v) == IsPrefix(v.out, buf)

Saved(found, new) ==
  LET worst == CHOOSE i \in DOMAIN found :
                 /\ \A j \in 1 .. i - 1 : found[j].len < found[i].len
                 /\ \A j \in DOMAIN found : found[j].len <= found[i].len
  IN  CASE \E i \in DOMAIN found : found[i].init = new.init -> found
        [] Len(found) < PrevFound        -> Append(found, new)
        [] found[worst].len > new.len    -> [found EXCEPT ![worst] = new]
        [] OTHER                         -> found

Shorter(len, used, mark, best) ==
  \/ best.len = -1 \/ best.len > len
  \/ /\ best.len = len
     /\ \/ used < best.cells
        \/ used = best.cells /\ mark # 0 /\ mark < best.mark

Best(o, g, used, best) ==
  IF ~Shorter(Len(g.str), used, g.mark, best) THEN best
  ELSE [best EXCEPT !.len = Len(g.str), !.str = g.str, !.cells = used, !.mark = g.mark,
                    !.bytes = o.wrap]

Remember(o, g, best) ==
  IF ~o.rerun \/ g.mark = 0 \/ best.len + o.more < Len(g.str) THEN best
  ELSE [best EXCEPT !.found = Saved(@, [init |-> SubSeq(g.str, 1, g.mark), len |-> Len(g.str)])]

Unclean(w, used) == w.rv >= 0 /\ \E c \in 0 .. used - 1 : w.cells[c] # 0

\* sure is that it ran to its end; w is a second run, on a clean tape.
Judged(o, buf, g, best, v, sure, w) ==
  LET used == CASE v.rv < 0 -> g.used [] w.rv < 0 -> v.used [] OTHER -> w.used IN
  IF v.rv < -1 \/ ~Prints(buf, v) \/ (sure /\ Unclean(w, used)) THEN [best EXCEPT !.failed = TRUE]
  ELSE Remember(o, g, Best(o, g, used, best))

Again(o, buf, g, best, v, sure) ==
  Judged(o, buf, g, best, v, sure, IF sure /\ o.init THEN RunBF(o, g.str, Blank, TRUE) ELSE v)

FirstRun(o, buf, g, best, v) == Again(o, buf, g, best, v, v.rv >= 0 /\ o.clear /\ Prints(buf, v))

CheckIfBest(o, buf, g, best) ==
  CASE g.used > o.limit /\ o.limit > 0 -> best
    [] best.len # -1 /\ best.len < Len(g.str) -> Remember(o, g, best)
    [] OTHER -> FirstRun(o, buf, g, best, RunBF(o, g.str, Dirty(o), TRUE))

(***************************************************************************)
(* The generators.  Each is given one set of the parameters it searches,   *)
(* and yields what it has written before the first character is printed.   *)
(***************************************************************************)
\* Cells that may hold anything are cleared from the last one to the first.
Cleared(o, maxcell) ==
  IF ~o.init THEN Reinit
  ELSE FoldLeft(LAMBDA g, i : AddStr(Go(g, i), Zero), Reinit,
                [i \in 1 .. maxcell + 1 |-> maxcell + 1 - i])

With(g, cells, used) == [g EXCEPT !.used = used, !.cells = cells @@ @]

best_factor ==
  << 1,  2,  3,  4,  5,  6,  7,  8,  9, 10, 11, 12, 13, 14, 15,
     4,  4,  6,  6,  5,  7,  7,  7,  6,  5,  5,  9,  7,  7,  6,  6,
     8,  8,  8,  7,  6,  6,  6,  6,  8,  8,  7,  7, 11,  9,  9,  9 >>

\* n as a product and a rest, with the help of the cell next to it.
Factored(n, dir) ==
  LET l == IF n \in DOMAIN best_factor THEN best_factor[n] ELSE 10
      r == n \div l
  IN  (IF r > 1
       THEN Mv(dir) \o Inc(l) \o Loop(Mv(-dir) \o Inc(r) \o Mv(dir) \o Inc(-1)) \o Mv(-dir)
       ELSE Inc(l))
      \o Inc(n - l * r)

Counter(o, n) ==
  CASE n = 127 /\ o.wrap -> Mv(1) \o Inc(2) \o Loop(Mv(-1) \o Inc(1) \o Mv(1) \o Inc(2)) \o Mv(-1)
    [] n > 15 /\ ~o.bare /\ ~(n = 127 /\ o.wrap) -> Factored(n, 1)
    [] OTHER -> Inc(n)

Cell8(o, x) == IF o.wrap THEN Byte(x) ELSE x

\* gen_multonly: incs[1] is cellincs[0], the counter, the rest its products.
MultOnly(o, incs) ==
  LET maxcell == Len(incs) - 1
      g    == AddStr(Cleared(o, maxcell), Counter(o, incs[1]))
      copy == maxcell = 1 /\ incs[2] = 1
      body == FlattenSeq([i \in 1 .. maxcell |-> Mv(1) \o Inc(incs[i + 1])])
  IN  IF copy THEN With(g, [c \in {0} |-> incs[1]], 2)
      ELSE With(AddStr(g, Loop(body \o Mv(-maxcell) \o Inc(-1))),
                [c \in 1 .. maxcell |-> Cell8(o, incs[c + 1] * incs[1])], maxcell + 1)

\* gen_multbyte: incs[2] is added to the counter until it is zero again.
Half(n) == IF n % 2 = 1 THEN (n + 1) \div 2 ELSE -((n + 1) \div 2)

Rounds(start, step) ==
  LET hits == {k \in 1 .. 255 : Byte(start + k * step) = 0} IN
  IF hits = {} THEN 256 ELSE CHOOSE k \in hits : \A j \in hits : k <= j

MultByte(o, incs) ==
  LET maxcell == Len(incs) - 1
      by   == [i \in 1 .. maxcell |-> Half(incs[i + 1])]
      g    == AddStr(Cleared(o, maxcell), Counter(o, incs[1]))
      body == FlattenSeq([i \in 1 .. maxcell |-> Inc(by[i]) \o Mv(1)])
  IN  With(AddStr(g, Loop(body \o Mv(-maxcell))),
           [c \in 1 .. maxcell - 1 |-> Byte(by[c + 1] * Rounds(incs[1], by[1]))], maxcell + 1)

MultByteTries(incs) ==
  /\ Len(incs) >= 3 /\ Rounds(incs[1], Half(incs[2])) < 256
  /\ Half(incs[2]) # -1 \/ \E i \in 3 .. Len(incs) : Half(incs[i]) < 0

\* gen_nestloop and gen_nestloop8: outer times (inner times a number, and
\* another); incs are pairs of them for the cells from 2 on.
Nested(o, outer, inner, incs) ==
  LET maxcell == Len(incs) + 1
      g     == Cleared(o, maxcell)
      adds  == FlattenSeq([i \in DOMAIN incs |-> Mv(1) \o Inc(incs[i][1])])
      again == FoldLeft(LAMBDA h, i : IF incs[i][2] = 0 THEN h
                                      ELSE AddStr(Go(h, i + 1), Inc(incs[i][2])),
                        [Reinit EXCEPT !.cur = 1], [i \in DOMAIN incs |-> i])
      back  == IF again.cur <= 4 \/ o.optim THEN Mv(-again.cur) ELSE Loop(Mv(-1)) \o Mv(-1)
      text  == Inc(outer)
               \o Loop(Mv(1) \o Inc(inner) \o Loop(adds \o Mv(1 - maxcell) \o Inc(-1))
                       \o again.str \o back \o Inc(-1))
  IN  With(AddStr(g, text),
           [c \in 2 .. maxcell |-> outer * (inner * incs[c - 1][1] + incs[c - 1][2])],
           maxcell + 1)

NestedTries(o, outer, inner, incs) ==
  /\ Len(incs) + 1 <= o.limit
  /\ \A i \in DOMAIN incs :
       outer * (inner * incs[i][1] + incs[i][2])
         \in IF outer = 8 /\ inner = 4 THEN -128 .. 255 ELSE (-128 .. 127) \ {0}

\* gen_slipnest and gen_trislipnest: what their loops leave in the cells is
\* found out by running them.
Left(g, v) == [g EXCEPT !.ok = v.rv = 0, !.cells = v.cells, !.used = v.used, !.cur = 0]

Ran(o, g) == Left(g, RunBF(o, g.str, Blank, FALSE))

Fill(ns) == FlattenSeq([i \in DOMAIN ns |-> Mv(1) \o Inc(ns[i])])

SlipNest(o, up, back, ns) ==
  Ran(o, AddStr(Cleared(o, Len(ns) - 1),
                Fill(ns)
                \o Loop(Mv(1) \o Loop(Inc(-1) \o Mv(1) \o Inc(up) \o Mv(-2) \o Inc(back) \o Mv(1))
                        \o Mv(-2))))

TriSlipNest(o, up, inner, back, ns) ==
  Ran(o, AddStr(Cleared(o, 8),
                Fill(ns)
                \o Loop(Mv(1) \o Loop(Inc(-1) \o Mv(1) \o Inc(up) \o Mv(1)
                                      \o Loop(Inc(-1) \o Mv(1) \o Inc(inner) \o Mv(-1))
                                      \o Mv(-3) \o Inc(back) \o Mv(1))
                        \o Mv(-2))))

(***************************************************************************)
(* gen_special: a beginning from a list, from -I or from another           *)
(* generator.  Unless runbf is enough it is walked through, to see which   *)
(* cells must be cleared before: mode 1, not those it clears itself (2) or *)
(* never comes to (0).                                                     *)
(***************************************************************************)
Depth(code, i) == Cardinality({j \in 1 .. i : code[j] = "["}) - Cardinality({j \in 1 .. i - 1 : code[j] = "]"})

Partner(code, i) ==
  IF code[i] = "["
  THEN CHOOSE j \in i .. Len(code) :
         code[j] = "]" /\ Depth(code, j) = Depth(code, i)
         /\ \A q \in i .. j - 1 : code[q] = "]" => Depth(code, q) # Depth(code, i)
  ELSE CHOOSE j \in 1 .. i :
         code[j] = "[" /\ Depth(code, j) = Depth(code, i)
         /\ \A q \in j + 1 .. i : code[q] = "[" => Depth(code, q) # Depth(code, i)

Partners(code) ==
  [i \in {j \in DOMAIN code : code[j] \in {"[", "]"}} |-> Partner(code, i)]

Touched(code, v) ==
  LET first == code[v.p] = "[" /\ v.p + 2 <= Len(code) /\ SubSeq(code, v.p, v.p + 2) = Zero IN
  IF code[v.p] \in {"+", "-", "[", "]"} /\ v.mode[v.m] = 0
  THEN [v EXCEPT !.mode[v.m] = IF first THEN 2 ELSE 1] ELSE v

WalkStep(o, code, jump, v) ==
  LET ch == code[v.p]
      t  == Touched(code, v)
      m  == CASE ch = ">" -> v.m + 1 [] ch = "<" -> v.m - 1 [] OTHER -> v.m
      x  == CASE ch = "+" -> v.cells[v.m] + 1 [] ch = "-" -> v.cells[v.m] - 1
              [] OTHER    -> v.cells[v.m]
      p  == CASE ch = "[" /\ x = 0 -> jump[v.p] [] ch = "]" /\ x # 0 -> jump[v.p]
              [] OTHER -> v.p
      u  == [t EXCEPT !.cells[v.m] = x]
      over == ~o.wrap /\ ~v.wrap /\ u.cells[m] # 0 /\ Byte(u.cells[m]) = 0
      cut  == o.wrap \/ v.wrap \/ over
  IN  IF m < 0 \/ m >= MaxCells \/ v.countdown = 1 THEN [v EXCEPT !.ok = FALSE]
      ELSE [u EXCEPT !.p = p + 1, !.m = m, !.countdown = @ - 1,
                     !.maxcell = IF m > @ THEN m ELSE @,
                     !.mode[m] = IF m > v.maxcell /\ m > 0 THEN 0 ELSE @,
                     !.wrap = @ \/ over,
                     !.cells[m] = IF cut THEN Byte(@) ELSE @]

Walk(o, code) ==
  LET jump == Partners(code)
      RECURSIVE go(_, _)
      go(v, fuel) ==
        IF fuel = 0 \/ ~v.ok \/ v.p > Len(code) THEN v
        ELSE IF fuel = 1 THEN WalkStep(o, code, jump, v)
        ELSE go(go(v, fuel \div 2), fuel - fuel \div 2)
  IN  go([p |-> 1, m |-> 0, cells |-> Blank, maxcell |-> -1, wrap |-> FALSE, ok |-> TRUE,
          mode |-> [Blank EXCEPT ![0] = IF code = <<>> THEN 1 ELSE 0],
          countdown |-> LongSteps], LongSteps)

\* A "self cleaning rail": it is filled with ones whatever was there.
Rail(maxcell) ==
  LET v    == maxcell - 2
      tens == IF v > 16
              THEN Mv(1) \o Zero \o Inc(v \div 8) \o Loop(Inc(-1) \o Mv(-1) \o Inc(8) \o Mv(1)) \o Mv(-1)
              ELSE <<>>
  IN  Zero \o tens \o Inc(IF v > 16 THEN v % 8 ELSE v) \o Mv(1) \o Zero \o Mv(1) \o Zero \o Mv(-2)
      \o Loop(Inc(-1) \o Mv(2) \o Loop(Mv(1)) \o Inc(1) \o Mv(1) \o Zero \o Mv(-1)
              \o Loop(Mv(-1)) \o Mv(-1))
      \o Mv(2) \o Loop(Mv(1)) \o Mv(-1) \o Loop(Inc(-1) \o Mv(-1)) \o Mv(-1)

\* The cells the beginning finds dirty.
Prepared(o, v) ==
  LET dirty == {c \in 0 .. v.maxcell : v.mode[c] = 1}
      last  == IF v.maxcell < 0 THEN 0 ELSE v.maxcell
      clear(g, c) ==
        IF v.mode[c] = 1 THEN AddStr(Go(g, c), Zero) ELSE IF c = 0 THEN Go(g, 0) ELSE g
  IN  CASE ~o.init -> Reinit
        [] /\ o.init /\ v.maxcell > 10 /\ v.maxcell < 256 /\ ~o.optim
           /\ Cardinality(dirty) > 10 -> AddStr(Reinit, Rail(v.maxcell))
        [] OTHER -> FoldLeft(clear, Reinit, [i \in 1 .. last + 1 |-> last + 1 - i])

\* wrap is bytewrap_override: the beginning needs cells that are bytes.
SpecialFrom(o, code, usercode, v) ==
  [wrap |-> v.wrap]
  @@ [AddStr(Prepared(o, v), code) EXCEPT
        !.ok = v.ok /\ (usercode \/ v.maxcell <= o.limit),
        !.cells = v.cells, !.used = v.maxcell + 1, !.cur = v.m]

RunFirst(r) ==
  [cells |-> r.cells, m |-> r.rv, maxcell |-> r.used - 1, wrap |-> FALSE, ok |-> r.rv >= 0]

Special(o, code, usercode) ==
  SpecialFrom(o, code, usercode,
              IF usercode \/ o.init THEN Walk(o, code) ELSE RunFirst(RunBF(o, code, Blank, TRUE)))

(***************************************************************************)
(* The slopes of gen_countslide and gen_nastyslide are beginnings, too.    *)
(***************************************************************************)
bestfactor ==
  <<  1,  1,  1,  1,  1,  1,  1,  1,  1,  1,  1,  1,  1,  1,  1,  1,
      4,  4,  6,  6,  5,  7,  7, 22,  6,  5,  5,  9,  7,  7,  6,  6,
      8,  8, 23,  7,  6,  6,  6, 24,  8,  8,  7,  7, 11,  9,  9, 24,
      8,  7, 10, 10, 13, 25,  9, 11,  8,  8,  8, 26, 10, 10, 25,  9,
      8,  8, 11, 11, 11, 26, 10, 10,  9,  9,  9, 15, 27, 11, 13, 26,
     10,  9,  9, 28, 12, 12, 12, 27, 11, 11, 10, 13, 13, 13, 28, 28,
     12, 12, 14, 11, 10, 10, 10, 29, 13, 15, 15, 28, 12, 12, 11, 11,
     14, 14, 14, 29, 29, 13, 13, 28, 12, 11, 11, 11, 30, 30, 14, 14,
      8, 29, 13, 13, 12, 12, 31, 15, 15, 15, 30, 30, 14, 14, 29, 13,
     12, 12, 12, 12, 31, 31, 15, 15, 15, 30, 14, 14, 13, 13, 13, 26,
     10, 10,  9, 31, 31, 15, 15, 30, 14, 13, 13, 13, 13, 13, 27, 27,
     11, 11, 31, 31, 15, 15, 14, 14, 14, 14, 27, 11, 11, 11, 10, 28,
     12, 12, 31, 15, 14, 14, 11, 11, 10, 10, 28, 28, 12, 12, 29, 29,
     13, 31, 15, 15, 15, 15, 28, 28, 12, 12, 12, 29, 29, 13, 13, 30,
     14, 15, 15, 15, 12, 12, 12, 11, 29, 29, 13, 13, 30, 30, 14, 31,
     15, 15, 15, 15, 15, 29, 29, 13, 13, 13, 30, 30, 14, 14, 31, 15 >>

\* A number below 256 as a product a * b, almost; a is 1 if it is short.
Product(n) ==
  LET t == bestfactor[n + 1]
      a == t % 16
  IN  [a |-> a, b |-> n \div a + t \div 16]

CountSlide(o, p1, extra, p3, p4) ==
  LET f == Product(p1)
      c == IF f.a > 1 THEN f.a * f.b ELSE 0
  IN  (IF f.a > 1 THEN Inc(f.b) \o Loop(Mv(1) \o Inc(f.a) \o Mv(-1) \o Inc(-1)) ELSE <<>>)
      \o Mv(1) \o Inc(p1 - c)
      \o Loop(Fill(extra) \o Mv(1) \o Loop(Inc(p3) \o Mv(1)) \o Inc(p4)
              \o (IF o.init THEN Mv(1) \o Zero \o Mv(-1) ELSE <<>>)
              \o Loop(Mv(-1)) \o Mv(1) \o Inc(-1))

NastySlide(p1, extra, p3, p4) ==
  Inc(1)
  \o Loop(Mv(1)
          \o Loop(Mv(-1) \o Inc(-1) \o Mv(1) \o Inc(1)
                  \o Loop(Fill(extra) \o Mv(1) \o Loop(Inc(p3) \o Mv(1)) \o Loop(<<>>) \o Inc(p4)
                          \o Loop(Mv(-1)) \o Mv(1) \o Inc(-1)))
          \o Inc(p1) \o Mv(-1))

SlideTries(o, p1, p3, p4) ==
  /\ p4 # 0 /\ (o.signed \/ o.wrap \/ p4 > 0) /\ ~(p4 < 0 /\ p3 <= -p4) /\ p1 * p3 + p4 <= 255

(***************************************************************************)
(* gen_subrange: one cell for each range of n characters, those needed     *)
(* most nearest to the counter; the order of two needed as often is left   *)
(* open.                                                                   *)
(***************************************************************************)
RangeOf(o, n, c) ==
  LET r == Quotient(c + n \div 2, n) IN
  CASE o.signed /\ r * n > 127   -> r - 1
    [] o.signed /\ r * n < -128  -> r + 1
    [] ~o.signed /\ r * n > 255  -> r - 1
    [] OTHER                     -> r

\* Early characters count for more.
Weight(i) == 1 + (IF i < 10 THEN 1 ELSE 0) + (IF i < 5 THEN 2 ELSE 0)

Ranges(o, n, cs) ==
  LET rs    == {RangeOf(o, n, cs[i]) : i \in DOMAIN cs} \ {0}
      of(r) == {i \in DOMAIN cs : RangeOf(o, n, cs[i]) = r}
      count == [r \in rs |-> FoldSet(LAMBDA i, k : k + Weight(i), 0, of(r))]
  IN  IF \A r \in rs : Byte(r) <= 1 THEN <<>>
      ELSE SetToSortSeq(rs, LAMBDA a, b : count[a] > count[b]
                                          \/ (count[a] = count[b] /\ Byte(a) < Byte(b)))

Give(o, n, r, g) == SetHere(AddStr(g, Inc(r)), Cell8(o, g.cells[g.cur] + n * r))

RangeLoop(o, n, rng, far, home, start) ==
  LET there(i)   == IF far THEN home - i ELSE i
      give(g, i) == Give(o, n, IF there(i) = 0 THEN 0 ELSE rng[there(i)], Go(g, there(i)))
  IN  AddStr(Go(FoldLeft(give, AddStr(start, <<"[">>), [i \in DOMAIN rng |-> i]), home),
             Inc(-1) \o <<"]">>)

\* The counter is behind the cells if that is where the clearing has ended.
RangesFrom(o, n, rng, far, cleared) ==
  LET home == IF far THEN Len(rng) ELSE 0
      long == n > 15 /\ ~o.bare
  IN  RangeLoop(o, n, rng, far, home,
                AddStr(Go(cleared, home),
                       IF long THEN Factored(n, IF far THEN -1 ELSE 1) ELSE Inc(n)))

SubrangeCells(o, n, zoned, rng) ==
  LET zero(g, c) == AddStr(Go(g, c), Zero)
      cleared    == IF ~o.init THEN Reinit
                    ELSE FoldLeft(zero, Reinit, [i \in 1 .. Len(rng) + 1 |-> i - 1])
  IN  [(IF rng = <<>> THEN cleared
        ELSE RangesFrom(o, n, rng, o.init /\ ~zoned, cleared)) EXCEPT !.used = Len(rng) + 1]

\* Each character stays with the cell of its range, or goes to cell 0.
SubrangeZoned(o, buf, n, g0, rng) ==
  LET zone(c) == {i \in DOMAIN rng : Byte(rng[i]) = Byte(Quotient(c + n \div 2, n))}
      turn(g, c) ==
        LET h == Go(g, IF zone(c) = {} THEN 0 ELSE CHOOSE i \in zone(c) : TRUE) IN
        SetHere(AddStr(h, Inc(c - h.cells[h.cur]) \o Dot), c)
  IN  ClearTape([o EXCEPT !.optim = TRUE],
                FoldLeft(turn, [g0 EXCEPT !.mark = Len(g0.str)], Chars(o, buf)))

Kept(o, rng) == SubSeq(rng, 1, IF Len(rng) >= o.limit THEN o.limit - 1 ELSE Len(rng))

(***************************************************************************)
(* gen_twoflower: cell 1 counts for cell 0.  By the number nl a newline or *)
(* a space has a cell of its own, filled when it is first needed.  two and *)
(* three tell whether cells 1 and 2 may still hold anything.               *)
(***************************************************************************)
NewLine == 10
Space   == 32

\* A newline in cell 1.
LineInCell1(g) ==
  LET dirty == g.two \/ g.cells[1] # 0
      text  == IF ~g.two /\ g.cells[1] = NewLine THEN <<>>
               ELSE (IF dirty THEN Zero ELSE <<>>) \o Inc(NewLine)
  IN  [AddStr(g, Mv(1) \o text \o Dot \o Mv(-1)) EXCEPT !.two = FALSE, !.cells[1] = NewLine]

\* The eighth of a space is counted in cell 1.
Eights == Mv(1) \o Inc(4) \o Loop(Mv(1) \o Inc(8) \o Mv(-1) \o Inc(-1)) \o Mv(1)

\* A newline or a space in cell 2.
InCell2(g, c) ==
  LET h == IF g.three THEN AddStr(g, Mv(2) \o Zero \o Mv(-2)) ELSE g
      i == IF g.two /\ c # NewLine THEN AddStr(h, Mv(1) \o Zero \o Mv(-1)) ELSE h
  IN  IF ~g.three /\ g.cells[2] = c THEN AddStr(g, Mv(2) \o Dot \o Mv(-2))
      ELSE [AddStr(i, (IF c = NewLine THEN Mv(2) \o Inc(NewLine) ELSE Eights) \o Dot \o Mv(-2)) EXCEPT
              !.used = 3, !.cells[2] = c, !.three = FALSE, !.two = @ /\ c = NewLine]

\* A space in cell 2, made from what cell 1 holds.
SpaceInCell2(g) ==
  LET line  == g.cells[1] = NewLine
      three == Loop(Mv(1) \o Inc(3) \o Mv(-1) \o Inc(-1)) \o Mv(1) \o Inc(2)
      eight == Inc(4) \o Loop(Mv(1) \o Inc(8) \o Mv(-1) \o Inc(-1)) \o Mv(1)
      text  == CASE line /\ ~g.three /\ g.cells[2] = 0 -> Mv(1) \o three
                 [] line /\ g.three -> Mv(2) \o Zero \o Mv(-1) \o three
                 [] ~line /\ g.three /\ ~g.two /\ g.cells[1] = 0 -> Mv(2) \o Zero \o Mv(-1) \o eight
                 [] OTHER -> Mv(2) \o Zero \o Mv(-1) \o Zero \o eight
      sure  == line \/ (g.three /\ ~g.two /\ g.cells[1] = 0)
  IN  [AddStr(g, text \o Dot \o Mv(-2)) EXCEPT
         !.cells[1] = 0, !.cells[2] = Space, !.three = FALSE, !.used = 3, !.two = @ /\ sure]

\* How far a product is off.
Over(p, d) == AbsVal(AbsVal(d) - p.a * p.b)

\* Cell 1 counts to b; what it holds may be nearer than nothing.
CountTo(b, held, dirty) ==
  (IF dirty THEN Zero ELSE <<>>)
  \o (IF held # 0 /\ AbsVal(b - held) <= b + 3 THEN Inc(b - held)
      ELSE (IF held # 0 THEN Zero ELSE <<>>) \o Inc(b))

\* Cell 0 goes to c in a loop of b turns by a, and the rest one by one,
\* before the loop if it ends near the limit of a cell.
Petals(g, c, a, b) ==
  LET looped == IF a = 0 THEN <<>>
                ELSE Mv(1) \o CountTo(b, g.cells[1], g.two)
                     \o Loop(Mv(-1) \o Inc(a) \o Mv(1) \o Inc(-1)) \o Mv(-1)
      rest   == Inc(c - g.cells[0] - a * b)
  IN  [AddStr(g, (IF c > 253 \/ c < -126 THEN rest \o looped ELSE looped \o rest) \o Dot) EXCEPT
         !.cells[0] = c, !.cells[1] = IF a = 0 THEN @ ELSE 0, !.two = @ /\ a = 0]

Petal(g, c, diff, p) ==
  Petals(g, c, CASE p.a <= 1 -> 0 [] diff < 0 -> -p.a [] OTHER -> p.a, p.b)

Zeroed(g) ==
  IF g.cells[0] = 0 THEN g
  ELSE SetHere(AddStr(g, Loop(Inc(IF g.cells[0] > 0 THEN -1 ELSE 1))), 0)

\* near is the way from what cell 0 holds, anew that from zero.
Shortest(g, c, near, anew) ==
  LET cost == IF anew.a > 1 THEN 10 + anew.a + anew.b + Over(anew, c) ELSE 3 + AbsVal(c) IN
  IF near.a > 1 /\ cost < 7 + near.a + near.b + Over(near, c - g.cells[0])
  THEN Petal(Zeroed(g), c, c, anew)
  ELSE Petal(g, c, c - g.cells[0], near)

FlowerTo(g, c) == Shortest(g, c, Product(AbsVal(c - g.cells[0])), Product(AbsVal(c)))

Flower(o, g, c) ==
  FlowerTo(g, IF o.wrap /\ AbsVal(c - g.cells[0]) > 128 THEN Signed(c) ELSE c)

TwoFlower(o, buf, nl, best) ==
  LET start == [two |-> o.init, three |-> o.init]
               @@ [AddStr(Reinit, IF o.init THEN Zero ELSE <<>>) EXCEPT !.used = 2]
      turn(g, c) ==
        CASE ~g.ok -> g
          [] c = NewLine /\ nl = 1 /\ g.cells[0] # 0 -> LineInCell1(g)
          [] (c = NewLine /\ nl = 2) \/ (c = Space /\ nl = 3) -> InCell2(g, c)
          [] c \in {NewLine, Space} /\ nl = 4 ->
               IF g.cells[2] = c THEN AddStr(g, Mv(2) \o Dot \o Mv(-2))
               ELSE IF c = NewLine THEN LineInCell1(g) ELSE SpaceInCell2(g)
          [] OTHER ->
               LET h == Flower(o, g, c) IN
               [h EXCEPT !.ok = best.len <= 0 \/ Len(h.str) <= best.len]
  IN  Finished(o, FoldLeft(turn, start, Chars(o, buf)))

(***************************************************************************)
(* One turn of one generator: by says which, ns are its numbers; a rerun   *)
(* takes a beginning that was good once more, looking ahead.               *)
(***************************************************************************)
Gen(by, ns) == [by |-> by, ns |-> ns]

SpecialCode(o, by, ns) ==
  CASE by = "special"    -> ns[1]
    [] by = "countslide" -> CountSlide(o, ns[1], ns[2], ns[3], ns[4])
    [] by = "nastyslide" -> NastySlide(ns[1], ns[2], ns[3], ns[4])

Begun(o, by, ns) ==
  CASE by = "multonly" -> MultOnly(o, ns)
    [] by = "multbyte" -> MultByte(o, ns)
    [] by = "nestloop" -> Nested(o, ns[1], ns[2], ns[3])
    [] by = "slipnest" -> SlipNest(o, ns[1], ns[2], ns[3])
    [] by = "trislipnest" -> TriSlipNest(o, ns[1], ns[2], ns[3], ns[4])
    [] OTHER -> Special(o, SpecialCode(o, by, ns), by = "special" /\ ns[2])

\* Whether a generator comes to these parameters at all.
Tries(o, buf, gen) ==
  LET ns == gen.ns IN
  CASE gen.by = "multonly" -> Len(ns) - 1 \in 1 .. Len(buf)
    [] gen.by = "multbyte" -> o.wrap /\ MultByteTries(ns)
    [] gen.by = "nestloop" -> NestedTries(o, ns[1], ns[2], ns[3])
    [] gen.by = "countslide" -> SlideTries(o, ns[1] - 1, ns[3], ns[4])
    [] gen.by = "nastyslide" -> SlideTries(o, ns[1], ns[3], ns[4])
    [] OTHER -> TRUE

TooLong(g, best) == best.len > 0 /\ Len(g.str) > best.len

CheckIfDone(o, buf, g, best) == IF g.ok THEN CheckIfBest(o, buf, g, best) ELSE best

Printed1(o, buf, g, best) ==
  IF ~g.ok \/ TooLong(g, best) THEN best
  ELSE CheckIfDone(o, buf, GenPrint(o, buf, g, best), best)

Filled(o, buf, n, zoned, best, rng, g) ==
  IF ~zoned THEN Printed1(o, buf, g, best)
  ELSE IF TooLong(g, best) THEN best
  ELSE CheckIfBest(o, buf, SubrangeZoned(o, buf, n, g, rng), best)

SubrangeFor(o, buf, n, zoned, best, rng) ==
  Filled(o, buf, n, zoned, best, rng, SubrangeCells(o, n, zoned, rng))

Subrange(o, buf, n, zoned, best) ==
  SubrangeFor(o, buf, n, zoned, best, Kept(o, Ranges(o, n, Chars(o, buf))))

ByteOption(o, g) == IF "wrap" \in DOMAIN g /\ g.wrap THEN [o EXCEPT !.wrap = TRUE] ELSE o

ByGen(o, buf, g, best) == Printed1(ByteOption(o, g), buf, g, best)

Turn(o, buf, gen, best) ==
  CASE gen.by = "subrange"  -> Subrange(o, buf, gen.ns[1], gen.ns[2], best)
    [] gen.by = "twoflower" -> CheckIfDone(o, buf, TwoFlower(o, buf, gen.ns[1], best), best)
    [] OTHER                -> ByGen(o, buf, Begun(o, gen.by, gen.ns), best)

Rerun(o, buf, i, best) ==
  Turn([o EXCEPT !.lookahead = TRUE], buf, Gen("special", <<best.found[i].init, TRUE>>), best)

(***************************************************************************)
(* main gives find_best_conversion the whole text, or with -lines and -B   *)
(* one piece after the other; each must then cope with what the one before *)
(* leaves.                                                                 *)
(***************************************************************************)
Options(flags) ==
  [ init |-> "-i" \in flags, clear |-> "-c" \in flags, optim |-> "-0" \in flags,
    rtz |-> flags \cap {"-rtz", "-i", "-c"} # {}, wrap |-> "-b" \in flags,
    signed |-> "-sc" \in flags /\ "-b" \notin flags,
    lookahead |-> "-lookahead" \in flags, zoned |-> flags \cap {"-zoned", "-lookahead"} = {"-zoned"},
    bare |-> "-mult-bare" \in flags, rerun |-> "-I" \notin flags,
    more |-> IF "-F" \in flags THEN 1 ELSE 0, limit |-> IF "-L4" \in flags THEN 4 ELSE MaxCells ]

\* A piece ends with a line, with a block, or with the file.
Ends == {"line", "block", "file"}

PieceOptions(o, end) == IF end # "file" /\ ~o.clear THEN [o EXCEPT !.init = TRUE] ELSE o

Ending(o, end) ==
  IF end # "line" THEN <<>>
  ELSE (IF o.init THEN Zero ELSE <<>>) \o Inc(NewLine) \o Dot \o (IF o.clear THEN Zero ELSE <<>>)
=============================================================================
