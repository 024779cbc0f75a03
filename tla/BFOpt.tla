-------------------------------- MODULE BFOpt --------------------------------
(***************************************************************************)
(* extras/bfopt.c: Brainfuck to shorter Brainfuck.  main counts runs and   *)
(* drops comment loops, outrun sees [-], and outopt keeps the cells a      *)
(* stretch without loops or output changes, to write each of them once     *)
(* when flush_tape must.  opt has the options: opt (off with -O0), initopt *)
(* and loopc (-O2), delay (-dc), fwd (-ff), rle (-R).                      *)
(***************************************************************************)
EXTENDS Machine

\* check_argv, for one option after the other.
OptOff == [opt |-> FALSE, initopt |-> FALSE, loopc |-> FALSE,
           delay |-> FALSE, fwd |-> FALSE, rle |-> FALSE]

WithArg(o, arg) ==
  CASE arg = "-O0" -> [o EXCEPT !.opt = FALSE, !.initopt = FALSE]
    [] arg = "-O1" -> [o EXCEPT !.initopt = FALSE]
    [] arg = "-O2" -> [o EXCEPT !.opt = TRUE, !.initopt = TRUE, !.loopc = TRUE]
    [] arg = "-nc" -> [o EXCEPT !.loopc = FALSE]
    [] arg = "-dc" -> [o EXCEPT !.delay = TRUE]
    [] arg = "-ff" -> [o EXCEPT !.fwd = TRUE]
    [] arg = "-R"  -> [o EXCEPT !.rle = TRUE]

Options(args) == FoldLeft(WithArg, [OptOff EXCEPT !.opt = TRUE], args)

(***************************************************************************)
(* The text being written: outcmd.                                         *)
(***************************************************************************)
Repeat(ch, n) == [i \in 1 .. n |-> ch]

OutCmd(w, ch, n) ==
  LET zero == <<"[", "-", "]">> IN
  [w EXCEPT !.out = @ \o
     CASE ch = "=" -> zero \o (IF n >= 0 THEN Repeat("+", n) ELSE Repeat("-", -n))
       [] ch \in {"!", "X", "~"} -> <<>>
       [] OTHER -> Repeat(ch, n)]

Signed(w, n, plus, minus) ==
  IF n > 0 THEN OutCmd(w, plus, n) ELSE OutCmd(w, minus, -n)

(***************************************************************************)
(* The cells: mem has those of the list tape is in, counted from tapezero; *)
(* tape is at curroff.                                                     *)
(***************************************************************************)
Unknown == [set |-> FALSE, v |-> 0, cleaned |-> FALSE, cval |-> 0]
Clean   == [set |-> TRUE, v |-> 0, cleaned |-> TRUE, cval |-> 0]

OptStart == [ mem |-> <<>>, curroff |-> 0, first |-> FALSE, deadloop |-> 0,
              out |-> <<>>, outoff |-> 0 ]

Tape(w) == w.mem[w.curroff]

SetTape(w, cell) == [w EXCEPT !.mem[w.curroff] = cell]

\* new_n and new_p
Made(w, a) ==
  IF a \in DOMAIN w.mem THEN w
  ELSE [w EXCEPT !.mem = (a :> IF w.first THEN Clean ELSE Unknown) @@ @]

MoveTape(w, d) ==
  LET to == w.curroff + d
      between == IF d > 0 THEN w.curroff .. to ELSE to .. w.curroff
  IN  [FoldSet(LAMBDA a, u : Made(u, a), w, between) EXCEPT !.curroff = to]

(***************************************************************************)
(* flush_tape goes over the cells three times: from tapezero to one end,   *)
(* to the other end, and back; flips is the flipcount it has then.         *)
(***************************************************************************)
Leg(a, b, flips) ==
  [i \in 1 .. (IF a < b THEN b - a ELSE a - b) + 1 |->
     [at |-> IF a < b THEN a + i - 1 ELSE a - i + 1, flips |-> flips]]

Visits(w) ==
  LET lo    == CHOOSE a \in DOMAIN w.mem : \A b \in DOMAIN w.mem : a <= b
      hi    == CHOOSE a \in DOMAIN w.mem : \A b \in DOMAIN w.mem : a >= b
      first == IF w.curroff > 0 THEN lo ELSE hi
      other == IF w.curroff > 0 THEN hi ELSE lo
  IN  Leg(0, first, 2) \o Leg(first, other, 1) \o Leg(other, first, 0)

Due(w, s, keep, opt) ==
  LET p == w.mem[s.at] IN
  /\ p.v # 0 \/ p.set
  /\ w.curroff # 0 \/ s.at # 0 \/ s.flips = 0 \/ opt.fwd
  /\ s.at # w.curroff \/ s.flips = 0 \/ w.curroff = 0
  /\ ~keep \/ s.at = w.curroff \/ ~opt.delay

AbsOf(x) == IF x < 0 THEN -x ELSE x

\* From what the cell holds, or from zero, whichever is shorter.
WriteCell(w, p) ==
  IF ~p.set THEN Signed(w, p.v, "+", "-")
  ELSE IF p.cleaned /\ AbsOf(p.v - p.cval) <= AbsOf(p.v) + 3
       THEN Signed(w, p.v - p.cval, "+", "-")
  ELSE OutCmd(w, "=", p.v)

FlushCell(w, at, keep) ==
  LET p == w.mem[at]
      u == WriteCell([Signed(w, at - w.outoff, ">", "<") EXCEPT !.outoff = at], p)
  IN  IF p.cleaned /\ p.cval = p.v /\ p.set
      THEN IF keep THEN w ELSE [w EXCEPT !.mem[at] = Unknown]
      ELSE [u EXCEPT !.mem[at] = IF keep /\ p.set THEN [p EXCEPT !.cleaned = TRUE, !.cval = p.v]
                                 ELSE Unknown]

\* What is left is counted from where tape is.
Rebased(w, keep) ==
  LET kept == IF keep THEN {a - w.curroff : a \in DOMAIN w.mem} ELSE {0} IN
  [w EXCEPT !.mem = [a \in kept |-> w.mem[a + w.curroff]],
            !.curroff = 0, !.outoff = 0, !.first = FALSE]

FlushTape(w, no_output, keep, opt) ==
  IF w.mem = <<>> THEN [w EXCEPT !.mem = 0 :> Unknown, !.first = FALSE]
  ELSE LET cleared == [w EXCEPT !.mem = [a \in DOMAIN @ |-> Unknown], !.outoff = w.curroff]
           visit(u, s) == IF Due(u, s, keep, opt) THEN FlushCell(u, s.at, keep) ELSE u
           u == IF no_output THEN cleared ELSE FoldLeft(visit, w, Visits(w))
       IN  Rebased(Signed(u, u.curroff - u.outoff, ">", "<"), keep)

(***************************************************************************)
(* outopt                                                                  *)
(***************************************************************************)
KnownDead(w, ch, opt) == ch = "[" /\ opt.loopc /\ Tape(w).set /\ Tape(w).v = 0

\* Wrong on purpose: what was known before the input is still believed.
AfterCmdStale(w, ch, opt) ==
  CASE ch = "!" -> [SetTape(w, [Tape(w) EXCEPT !.cleaned = opt.initopt, !.set = opt.initopt])
                      EXCEPT !.first = opt.initopt]
    [] ch = "]" -> SetTape(w, Clean)
    [] OTHER    -> w

\* What is known of the cell behind the command that is written.
AfterCmd(w, ch, opt) ==
  CASE ch = "!" -> [SetTape(w, [Tape(w) EXCEPT !.cleaned = opt.initopt, !.set = opt.initopt])
                      EXCEPT !.first = opt.initopt]
    [] ch = "]" -> SetTape(w, Clean)
    [] ch = "," -> SetTape(w, Unknown)
    [] OTHER    -> w

\* The commands at which the cells are written.
Flushing(w, ch, n, opt) ==
  LET unseen == ch = "!" \/ (ch = "~" /\ opt.initopt)
      keep   == ch \in {".", ","} /\ opt.loopc
  IN  AfterCmd(OutCmd(FlushTape(w, unseen, keep, opt), ch, n), ch, opt)

OutOpt(w, ch, n, opt) ==
  CASE w.deadloop > 0 /\ ch # "~" -> [w EXCEPT !.deadloop = @ + Nesting(ch)]
    [] KnownDead(w, ch, opt)      -> [w EXCEPT !.deadloop = @ + 1]
    [] ch = ">" -> MoveTape(w, n)
    [] ch = "<" -> MoveTape(w, -n)
    [] ch = "+" -> SetTape(w, [Tape(w) EXCEPT !.v = @ + n])
    [] ch = "-" -> SetTape(w, [Tape(w) EXCEPT !.v = @ - n])
    [] ch = "=" -> SetTape(w, [Tape(w) EXCEPT !.v = n, !.set = TRUE])
    [] OTHER    -> Flushing(w, ch, n, opt)

(***************************************************************************)
(* outrun waits for the end of [-] and what is added to it; z has how much *)
(* of it was seen, and the commands it passes on.                          *)
(***************************************************************************)
Cmd(ch, n) == [ch |-> ch, n |-> n]

RunStart == [zstate |-> 0, passed |-> <<>>]

ZeroBegun(zstate) ==
  CASE zstate = 1 -> << Cmd("[", 1) >>
    [] zstate = 2 -> << Cmd("[", 1), Cmd("-", 1) >>
    [] zstate = 3 -> << Cmd("=", 0) >>
    [] OTHER      -> <<>>

OutRun(z, c) ==
  LET waits(k)  == [z EXCEPT !.zstate = k]
      pass(seq) == [z EXCEPT !.zstate = 0, !.passed = @ \o seq]
      begins    == [pass(ZeroBegun(z.zstate)) EXCEPT !.zstate = 1]
  IN  CASE z.zstate = 1 /\ c = Cmd("-", 1)       -> waits(2)
        [] z.zstate = 2 /\ c = Cmd("]", 1)       -> waits(3)
        [] z.zstate = 3 /\ c.ch \in {"+", "-"}   ->
             pass(<< Cmd("=", IF c.ch = "+" THEN c.n ELSE -c.n) >>)
        [] c = Cmd("[", 1)                       -> begins
        [] OTHER                                 -> pass(Append(ZeroBegun(z.zstate), c))

(***************************************************************************)
(* main: l has its variables and what it gives to outrun.  The first       *)
(* lastch is no ], for the options are not yet read when it is set.        *)
(***************************************************************************)
LoadStart ==
  [ lastch |-> "", c |-> 0, b |-> 0, lc |-> 0, inp |-> FALSE, digits |-> FALSE,
    number |-> 0, qstring |-> 0, posted |-> << Cmd("!", 0) >> ]

Posts(l, cmds) == [l EXCEPT !.posted = @ \o cmds]

PostsRun(l) == IF l.c = 0 THEN l ELSE [Posts(l, << Cmd(l.lastch, l.c) >>) EXCEPT !.c = 0]

\* A character of a quoted string is set and printed.
Quoted(l, code) ==
  [Posts(l, << Cmd("=", code), Cmd(".", 1) >>) EXCEPT !.lastch = ".", !.c = 0, !.qstring = 1]

\* "[", "]", ".", ",", "#" and, with -R, the quote and "="
Single(l, ch) ==
  LET endless == IF l.lastch = "[" /\ ch = "]" THEN << Cmd("X", 1) >> ELSE <<>>
  IN  CASE ch = "quote" -> [l EXCEPT !.qstring = 1]
        [] ch = "=" -> [Posts(l, << Cmd("[", 1), Cmd("-", 1), Cmd("]", 1) >>)
                          EXCEPT !.lastch = "]"]
        [] ch = "]" /\ l.b = 0 -> l
        [] OTHER -> [Posts(l, Append(endless, Cmd(ch, 1)))
                       EXCEPT !.b = @ + Nesting(ch), !.lastch = ch, !.inp = @ \/ ch = ","]

Known(opt, debug) ==
  Runs \cup {"[", "]", ".", ","} \cup (IF debug THEN {"#"} ELSE {})
    \cup (IF opt.rle THEN {"quote", "="} ELSE {})

\* multi is the number in front of the character, with -R.
Unquoted(l, ch, opt, debug) ==
  LET multi == IF opt.rle /\ l.digits THEN l.number ELSE 1
      k     == [l EXCEPT !.digits = FALSE, !.number = 0, !.qstring = 0]
  IN  CASE ch \notin Known(opt, debug) -> k
        [] k.lc > 0 \/ (ch = "[" /\ k.lastch = "]" /\ opt.loopc)
                                         -> [k EXCEPT !.lc = @ + Nesting(ch)]
        [] ch \in Runs /\ ch = k.lastch  -> [k EXCEPT !.c = @ + multi]
        [] ch \in Runs                   -> [PostsRun(k) EXCEPT !.c = multi, !.lastch = ch]
        [] OTHER                         -> Single(PostsRun(k), ch)

Digits == [d \in {"0", "1", "2", "3"} |->
             CASE d = "0" -> 0 [] d = "1" -> 1 [] d = "2" -> 2 [] d = "3" -> 3]

\* Two quotes are one within a string; anything else behind a quote ends it.
OptTakes(l, ch, opt, debug, Code(_)) ==
  CASE l.qstring = 1 /\ ch = "quote"  -> [l EXCEPT !.qstring = 2]
    [] l.qstring = 1 \/ (l.qstring = 2 /\ ch = "quote") -> Quoted(l, Code(ch))
    [] ch \in DOMAIN Digits -> [l EXCEPT !.qstring = 0, !.digits = TRUE,
                                         !.number = @ * 10 + Digits[ch]]
    [] ch = " "             -> [l EXCEPT !.qstring = 0]
    [] OTHER                -> Unquoted(l, ch, opt, debug)

\* A loop left open stays open.
Posted(text, stdin, opt, debug, Code(_)) ==
  LET Stops(k, ch) == stdin /\ ch = "!" /\ k.b = 0 /\ k.inp /\ k.lc = 0 /\ k.qstring = 0
      Takes(k, ch) == OptTakes(k, ch, opt, debug, Code)
  IN  Posts(PostsRun(Loaded(LoadStart, text, Stops, Takes)), << Cmd("~", 0) >>).posted

\* Without optimisation nothing waits.
Rewritten(posted, opt) ==
  IF opt.opt
  THEN FoldLeft(LAMBDA w, c : OutOpt(w, c.ch, c.n, opt), OptStart,
                FoldLeft(OutRun, RunStart, posted).passed)
  ELSE FoldLeft(LAMBDA w, c : OutCmd(w, c.ch, c.n), OptStart, posted)

Optimised(text, stdin, opt, debug, Code(_)) ==
  Rewritten(Posted(text, stdin, opt, debug, Code), opt).out
=============================================================================
