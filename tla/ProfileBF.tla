------------------------------ MODULE ProfileBF ------------------------------
(***************************************************************************)
(* extras/profilebf.c: an interpreter that counts what it executes.  It    *)
(* takes short cuts, for [-], for loops that only move a cell elsewhere    *)
(* and for loops that only move the pointer, and must count what these     *)
(* would have executed.  A cell is an int that may leave its range: only   *)
(* where that changes whether it is zero it is an overflow.                *)
(***************************************************************************)
EXTENDS Machine

CONSTANTS
  IntBits,     \* the width of an int
  MaxRun,      \* the longest run of + or - in one entry
  MaxMove,     \* the longest run of < or >
  MINALLOC, MAXOFF,  \* by how much the tape grows, and what is kept free above
  LowestCell,  \* the lowest cell a program may go to
  MostEofs     \* how often the end of the input may be read

(***************************************************************************)
(* Options, as main leaves them: bits for cell_mask, from physical_min up  *)
(* to physical_max.                                                        *)
(***************************************************************************)
Sized(o, bits, signed) == [o EXCEPT !.bits = bits, !.signed = signed]

Option(o, arg) ==
  CASE arg = "-e"  -> [o EXCEPT !.on_eof = -1]
    [] arg = "-z"  -> [o EXCEPT !.on_eof = 0]
    [] arg = "-n"  -> [o EXCEPT !.on_eof = 1]
    [] arg = "-N"  -> [o EXCEPT !.suppress_io = TRUE]
    [] arg = "-d"  -> [o EXCEPT !.debug = TRUE]
    [] arg = "-p"  -> [o EXCEPT !.physical = TRUE]
    [] arg = "-s"  -> [o EXCEPT !.signed = TRUE]
    [] arg = "-u"  -> [o EXCEPT !.signed = FALSE]
    [] arg = "-Z"  -> [o EXCEPT !.optimise = FALSE]
    [] arg = "-sc" -> Sized(o, ByteBits, TRUE)
    [] arg = "-w"  -> Sized(o, IntBits, TRUE)
    [] OTHER       -> o

Options(args) ==
  FoldLeft(Option, [bits |-> ByteBits, signed |-> FALSE, on_eof |-> 1, optimise |-> TRUE,
                    suppress_io |-> FALSE, physical |-> FALSE, debug |-> FALSE], args)

physical_min(opt) == IF opt.signed THEN -(2^(opt.bits - 1)) ELSE 0
physical_max(opt) == 2^opt.bits - 1 + physical_min(opt)
AllOf(opt)        == 2^opt.bits

AsInt(x)    == ((x + 2^(IntBits - 1)) % 2^IntBits) - 2^(IntBits - 1)
Unsigned(x) == x % 2^IntBits
UM(opt, x)  == IF opt.bits = IntBits THEN x ELSE x % 2^opt.bits

AbsOf(x) == IF x < 0 THEN -x ELSE x

(***************************************************************************)
(* The loader.  The last entry is p; j is the last loop that is open; n is *)
(* the number of entries.  A loop that begins the program is a comment.    *)
(***************************************************************************)
LoadStart == [pgm |-> <<>>, p |-> 0, j |-> 0, lc |-> 0, inp |-> FALSE]

Entry(cmd, arg) == [cmd |-> cmd, arg |-> arg]

MostOf(ch) == IF ch \in {"+", "-"} THEN MaxRun ELSE MaxMove

Joins(l, ch) ==
  ch \in Runs /\ l.p > 0 /\ l.pgm[l.p].cmd = ch /\ l.pgm[l.p].arg < MostOf(ch)

Closed(l) ==
  LET n   == Len(l.pgm) + 1
      pgm == Append([l.pgm EXCEPT ![l.j] = Entry("[", n)], Entry("]", l.j))
      w   == [l EXCEPT !.pgm = pgm, !.p = n, !.j = l.pgm[l.j].arg]
  IN  IF n > 2 /\ pgm[n - 1] = Entry("-", 1) /\ pgm[n - 2].cmd = "["
      THEN [w EXCEPT !.pgm = Append(SubSeq(pgm, 1, n - 3), Entry("=", 0)), !.p = n - 2]
      ELSE w

Enters(l, ch) ==
  LET n == Len(l.pgm) + 1 IN
  CASE ch = "[" -> [l EXCEPT !.pgm = Append(@, Entry(" ", l.j)), !.p = n, !.j = n]
    [] ch = "]" -> Closed(l)
    [] OTHER    -> [l EXCEPT !.pgm = Append(@, Entry(ch, IF ch \in Runs THEN 1 ELSE 0)),
                             !.p = n, !.inp = @ \/ ch = ","]

ProfileTakes(l, ch, debug) ==
  LET known == Runs \cup {"[", ",", "."} \cup (IF debug THEN {"#"} ELSE {})
               \cup (IF l.j > 0 \/ l.lc > 0 THEN {"]"} ELSE {})
  IN  CASE ch \notin known -> l
        [] Joins(l, ch)    -> [l EXCEPT !.pgm[l.p].arg = @ + 1]
        [] l.lc > 0 \/ (ch = "[" /\ l.pgm = <<>>) -> [l EXCEPT !.lc = @ + Nesting(ch)]
        [] OTHER           -> Enters(l, ch)

(***************************************************************************)
(* optimise: s is where it is, the loop last opened, the balance of the    *)
(* movements since and whether a - was found where it began.  The loop of  *)
(* the first entry is never one of these: 0 says that there is none.       *)
(***************************************************************************)
Short == [cmd \in {"[", "+", "-", ">", "<"} |->
            CASE cmd = "[" -> "B" [] cmd = "+" -> "M" [] cmd = "-" -> "N"
              [] cmd = ">" -> "R" [] cmd = "<" -> "L"]

MovesCell(pgm, first, last) ==
  LET simple(i) == pgm[i].cmd \in DOMAIN Short IN
  FoldSet(LAMBDA i, q : [q EXCEPT ![i].cmd = IF i = last THEN "E" ELSE Short[@]],
          pgm, {i \in first .. last : simple(i) \/ i = last})

\* [>] or [<], as they are now.
IsRail(pgm, n) ==
  /\ n > 2 /\ pgm[n].cmd = "]" /\ pgm[n - 1].cmd \in {">", "<"} /\ pgm[n - 2].cmd = "["

Railed(s, n) ==
  IF IsRail(s.pgm, n) THEN [s EXCEPT !.pgm[n - 2].cmd = "{", !.pgm[n].cmd = "}"] ELSE s

None == 0

Looked(s, n) ==
  LET e == s.pgm[n]
      dec == e = Entry("-", 1) /\ ~s.dec
  IN  CASE e.cmd = "[" -> [s EXCEPT !.open = IF n = 1 THEN None ELSE n, !.bal = 0, !.dec = FALSE]
        [] e.cmd = ">" -> [s EXCEPT !.bal = @ + e.arg]
        [] e.cmd = "<" -> [s EXCEPT !.bal = @ - e.arg]
        [] e.cmd \in {"+", "-"} ->
             IF s.bal # 0 THEN s
             ELSE IF dec THEN [s EXCEPT !.dec = TRUE]
             ELSE [s EXCEPT !.open = None]
        [] e.cmd = "]" /\ s.open # None /\ s.bal = 0 /\ s.dec ->
             [s EXCEPT !.pgm = MovesCell(@, s.open, n)]
        [] OTHER -> [s EXCEPT !.open = None]

Optimise(pgm) ==
  FoldLeft(LAMBDA s, n : Railed(Looked(s, n), n),
           [pgm |-> pgm, open |-> None, bal |-> 0, dec |-> FALSE],
           [n \in DOMAIN pgm |-> n]).pgm

ProfileLoad(text, stdin, opt) ==
  LET Stops(k, ch) == stdin /\ ch = "!" /\ k.inp /\ k.j = 0
      Takes(k, ch) == ProfileTakes(k, ch, opt.debug)
      l == Loaded(LoadStart, text, Stops, Takes)
  IN  [l EXCEPT !.pgm = IF opt.optimise THEN Optimise(@) ELSE @]

(***************************************************************************)
(* The tape.  The cell 0 of the program is at memshift; a cell below mem   *)
(* moves everything up.                                                    *)
(***************************************************************************)
AllocPtr(v, memoff) ==
  LET off == IF memoff < 0 THEN -memoff ELSE memoff - v.memsize
      amt == (off \div MINALLOC + 1) * MINALLOC
      big == [v EXCEPT !.memsize = @ + amt]
  IN  CASE memoff \in 0 .. v.memsize - 1 -> [v |-> v, off |-> memoff]
        [] memoff < 0 ->
             [v |-> [big EXCEPT !.memshift = @ + amt,
                                !.t = [a \in {b + amt : b \in DOMAIN @} |-> @[a - amt]]],
              off |-> memoff + amt]
        [] OTHER -> [v |-> big, off |-> memoff]

Up(v, d) ==
  LET m == v.m + d
      a == AllocPtr(v, m + MAXOFF)
      w == IF m + MAXOFF >= v.memsize THEN [a.v EXCEPT !.m = a.off - MAXOFF]
           ELSE [v EXCEPT !.m = m]
  IN  [w EXCEPT !.tape_max = IF w.m - w.memshift > @ THEN w.m - w.memshift ELSE @]

Down(v, d) ==
  LET a   == AllocPtr(v, v.m - d)
      w   == IF v.m - d <= 0 THEN [a.v EXCEPT !.m = a.off] ELSE [v EXCEPT !.m = @ - d]
      pos == w.m - w.memshift
  IN  CASE pos >= w.tape_min -> w
        [] pos < LowestCell  -> Ends([w EXCEPT !.tape_min = pos], "range")
        [] OTHER             -> [w EXCEPT !.tape_min = pos]

(***************************************************************************)
(* run: v is the v of a loop that moves a cell, m0 where a rail began.     *)
(* prof has the four numbers of each command: for [ ] , the second counts  *)
(* it with a zero cell, the third with another, the fourth its overflows.  *)
(***************************************************************************)
Counted == {"+", "-", ">", "<", "[", "]", ".", ",", "="}
NoRail  == -1

ProfileMachine(stdin) ==
  LET v == Start(stdin) @@
             [ memsize |-> 0, memshift |-> 0, tape_min |-> 0, tape_max |-> 0,
               hard_min |-> 0, hard_max |-> 0, overflows |-> 0, underflows |-> 0,
               phy_limit |-> FALSE, eofs |-> 0, v |-> 1, m0 |-> NoRail,
               prof |-> [c \in Counted |-> [k \in 0 .. 3 |-> 0]] ]
      a == AllocPtr(v, MAXOFF)
  IN  [a.v EXCEPT !.m = a.off - MAXOFF]

Count(v, c, k, n) == [v EXCEPT !.prof[c][k] = @ + n]

CountTest(v, c) == Count(v, c, IF Cell(v) = 0 THEN 1 ELSE 2, 1)

\* A cell that is zero but for the bits it should not have.
Tested(v, c, opt) ==
  LET x == Cell(v)
      y == IF UM(opt, x) > physical_max(opt) THEN UM(opt, x) - AllOf(opt) ELSE UM(opt, x)
      w == IF x < 0 THEN [v EXCEPT !.underflows = @ + 1] ELSE [v EXCEPT !.overflows = @ + 1]
  IN  IF ~opt.physical /\ x # 0 /\ UM(opt, x) = 0 THEN Store(Count(w, c, 3, 1), y) ELSE v

Limit(v, c) == Count([v EXCEPT !.phy_limit = TRUE], c, 3, 1)

\* '+': a sum that leaves the int, a new maximum, or neither.
Added(v, n, opt) ==
  LET x == Cell(v) + n
      w == Store(Count(v, "+", 0, n), AsInt(x))
      over == opt.physical /\ x > physical_max(opt)
      y == IF over THEN x - AllOf(opt) ELSE x
  IN  CASE AsInt(x) # x     -> Limit([w EXCEPT !.overflows = @ + 1], "+")
        [] x > v.hard_max -> Store([w EXCEPT !.hard_max = y,
                                             !.overflows = @ + (IF over THEN 1 ELSE 0)], y)
        [] OTHER          -> w

\* '-'
Taken(v, n, opt) ==
  LET x == Cell(v) - n
      w == Store(Count(v, "-", 0, n), AsInt(x))
      under == opt.physical /\ x < physical_min(opt)
      y == IF under THEN x + AllOf(opt) ELSE x
  IN  CASE AsInt(x) # x     -> Limit([w EXCEPT !.underflows = @ + 1], "-")
        [] x < v.hard_min -> Store([w EXCEPT !.hard_min = y,
                                             !.underflows = @ + (IF under THEN 1 ELSE 0)], y)
        [] OTHER          -> w

\* '=' counts the turns of [-].
Cleared(v, opt) ==
  LET x == Cell(v)
      u == Count(v, "=", IF x < 0 THEN 3 ELSE IF x > 0 THEN 2 ELSE 1, 1)
      e == IF x < 0 THEN Count(u, "=", 0, 1) ELSE u
      n == Unsigned(UM(opt, x))
  IN  Store(IF n = 0 THEN Count(e, "[", 1, 1)
            ELSE Count(Count(Count(Count(e, "[", 2, 1), "-", 0, n), "]", 1, 1), "]", 2, n - 1),
            0)

ProfileRead(v, opt) ==
  LET w == CountTest(v, ",")
      r == IF opt.suppress_io THEN [c |-> EOF, v |-> w] ELSE GetChar(w)
      e == [r.v EXCEPT !.eofs = @ + 1]
  IN  CASE r.c # EOF          -> Next1(Store(r.v, r.c))
        [] e.eofs > MostEofs  -> Ends(e, "done")
        [] opt.on_eof # 1     -> Next1(Store(e, opt.on_eof))
        [] OTHER              -> Next1(e)

\* 'B': v is how often the loop would be run, and its body is run once.
MoveBegins(v, arg, opt) ==
  LET w == CountTest(Tested(v, "[", opt), "[") IN
  IF Cell(w) = 0 THEN Goto([w EXCEPT !.v = 1], arg + 1)
  ELSE Next1([w EXCEPT !.v = UM(opt, Cell(w))])

MoveEnds(v) == [Count(Count(v, "]", 1, 1), "]", 2, v.v - 1) EXCEPT !.v = 1]

\* 'M' and 'N'
WithinOnce(x, opt) ==
  IF opt.physical THEN ((x - physical_min(opt)) % AllOf(opt)) + physical_min(opt) ELSE x

MultAdded(v, arg, opt) ==
  LET x == Cell(v) + arg * v.v
      y == IF x > physical_max(opt) THEN WithinOnce(x, opt) ELSE x
      w == Count(v, "+", 0, arg * Unsigned(v.v))
      s == IF AsInt(x) # x THEN Store(Limit([w EXCEPT !.overflows = @ + 1], "+"), AsInt(x))
           ELSE Store([w EXCEPT !.overflows = @ + (x - y) \div AllOf(opt)], y)
  IN  [s EXCEPT !.hard_max = IF Cell(s) > @ THEN Cell(s) ELSE @]

MultTaken(v, arg, opt) ==
  LET x == Cell(v) - arg * v.v
      y == IF x < physical_min(opt) THEN WithinOnce(x, opt) ELSE x
      w == Count(v, "-", 0, arg * Unsigned(v.v))
      s == IF AsInt(x) # x THEN Store(Limit([w EXCEPT !.underflows = @ + 1], "-"), AsInt(x))
           ELSE Store([w EXCEPT !.underflows = @ + (y - x) \div AllOf(opt)], y)
  IN  [s EXCEPT !.hard_max = IF Cell(s) > @ THEN Cell(s) ELSE @]

\* Wrong on purpose: the ] that leaves the loop is counted twice.
RailTurnTwice(pgm, v, opt) ==
  LET e == pgm[v.n + 1]
      w == Tested(IF e.cmd = ">" THEN Up(v, e.arg) ELSE Down(v, e.arg), "]", opt)
      d == AbsOf(v.m0 - w.m)
  IN  IF Cell(w) # 0 \/ w.status # "run" THEN w
      ELSE Goto([Count(Count(Count(w, e.cmd, 0, d), "]", 1, 1), "]", 2, d \div e.arg)
                   EXCEPT !.m0 = NoRail], v.n + 3)

\* One turn of the loop of a rail; what was passed over is counted at its
\* end, from where the pointer was.
RailTurn(pgm, v, opt) ==
  LET e == pgm[v.n + 1]
      w == Tested(IF e.cmd = ">" THEN Up(v, e.arg) ELSE Down(v, e.arg), "]", opt)
      d == AbsOf(v.m0 - w.m)
  IN  IF Cell(w) # 0 \/ w.status # "run" THEN w
      ELSE Goto([Count(Count(Count(w, e.cmd, 0, d), "]", 1, 1), "]", 2, d \div e.arg - 1)
                   EXCEPT !.m0 = NoRail], v.n + 3)

RailBegins(v, arg, opt) ==
  LET w == CountTest(Tested(v, "[", opt), "[") IN
  IF Cell(w) = 0 THEN Goto(w, arg + 1) ELSE [w EXCEPT !.m0 = w.m]

LoopBegins(v, arg, opt) ==
  LET w == CountTest(Tested(v, "[", opt), "[") IN
  IF Cell(w) = 0 THEN Goto(w, arg + 1) ELSE Next1(w)

LoopEnds(v, arg, opt) ==
  LET w == CountTest(Tested(v, "]", opt), "]") IN
  IF Cell(w) # 0 THEN Goto(w, arg + 1) ELSE Next1(w)

ProfileDo(e, v, opt) ==
  CASE e.cmd = ">" -> Next1(Up(Count(v, ">", 0, e.arg), e.arg))
    [] e.cmd = "R" -> Next1(Up(Count(v, ">", 0, e.arg * Unsigned(v.v)), e.arg))
    [] e.cmd = "<" -> Next1(Down(Count(v, "<", 0, e.arg), e.arg))
    [] e.cmd = "L" -> Next1(Down(Count(v, "<", 0, e.arg * Unsigned(v.v)), e.arg))
    [] e.cmd = "+" -> Next1(Added(v, e.arg, opt))
    [] e.cmd = "-" -> Next1(Taken(v, e.arg, opt))
    [] e.cmd = "=" -> Next1(Cleared(v, opt))
    [] e.cmd = "[" -> LoopBegins(v, e.arg, opt)
    [] e.cmd = "]" -> LoopEnds(v, e.arg, opt)
    [] e.cmd = "." -> LET w == Count(v, ".", 0, 1)
                      IN  Next1(IF opt.suppress_io THEN w ELSE PutChar(w, Cell(w)))
    [] e.cmd = "," -> ProfileRead(v, opt)
    [] e.cmd = "#" -> Next1(Event(v, "dump", v.m - v.memshift))
    [] e.cmd = "B" -> MoveBegins(v, e.arg, opt)
    [] e.cmd = "E" -> Next1(MoveEnds(v))
    [] e.cmd = "M" -> Next1(MultAdded(v, e.arg, opt))
    [] e.cmd = "N" -> Next1(MultTaken(v, e.arg, opt))
    [] e.cmd = "{" -> RailBegins(v, e.arg, opt)
    [] OTHER       -> Next1(v)

ProfileStep(pgm, v, opt) ==
  CASE v.n > Len(pgm)  -> Ends(v, "done")
    [] v.m0 # NoRail   -> RailTurn(pgm, v, opt)
    [] OTHER           -> ProfileDo(pgm[v.n], v, opt)

\* total_count of print_summary: the fourth numbers, and those of =, are not
\* commands.
CountOf(v, c) == v.prof[c][0] + v.prof[c][1] + v.prof[c][2]

TotalCount(v) ==
  FoldSet(LAMBDA c, n : n + CountOf(v, c), 0, Counted \ {"="})
=============================================================================
