------------------------------ MODULE BF2Loop ------------------------------
(***************************************************************************)
(* The two optimisers of the bf2any front end, the last of its stages.     *)
(*                                                                         *)
(* bf2const.c: constant folding over the stretch of program between two    *)
(* loops.  Commands are not passed on but noted on a tape of pending       *)
(* operations; flush_tape turns the tape into commands again, in the order *)
(* of the cells and not of the program.                                    *)
(*                                                                         *)
(* bf2loop.c, the stage before it, comes after it below: a loop that only  *)
(* adds to cells, or sets them, becomes multiplications.                   *)
(*                                                                         *)
(* The state of the front end is one record s.  Here it has                *)
(*   be       : be_interface, what the backend can do and what was asked;  *)
(*   cell     : the list of struct mem, a function from positions;         *)
(*   at, zero : the positions of tape and tapezero; curroff is between;    *)
(*   blank    : tape_is_all_blank, cells not met yet are known to be zero; *)
(*   str      : sav_str_str, constant output not passed on yet;            *)
(*   deadloop : the depth in a loop that is never entered;                 *)
(*   code     : the commands given to the backend's gen_code so far;       *)
(*   status   : "run", or "exit" once the front end gave up;               *)
(*   odd      : what the properties want to know of the past (history).    *)
(***************************************************************************)
EXTENDS Integers, SequencesExt, FiniteSetsExt

CONSTANTS
  ByteBits,    \* the width of a byte cell, and of a character
  IntMax,      \* INT_MAX of the compiler
  StrLimit     \* the most characters that wait in sav_str_str

ASSUME WidthAssumption == ByteBits \in Nat \ {0} /\ IntMax \in Nat
ASSUME StrAssumption   == StrLimit \in Nat \ {0}

Bytes == 2^ByteBits
ToByte(v) == v % Bytes

\* C's remainder keeps the sign.
Rem(a, n) == IF a >= 0 THEN a % n ELSE -((-a) % n)

\* The result of ov_iadd and its kin did not fit an int.
Overflows(v) == v > IntMax \/ v < -IntMax - 1

Tok(ch, n, str) == [cmd |-> ch, n |-> n, str |-> str]

\* outcmd: a command for the backend.
Outcmd(s, ch, n) == [s EXCEPT !.code = Append(@, Tok(ch, n, <<>>))]

Cleared == [v |-> 0, is_set |-> FALSE, cleaned |-> FALSE, cleaned_val |-> 0]

\* new_n and new_p.
NewCell(s) == [Cleared EXCEPT !.is_set = s.blank, !.cleaned = s.blank]

Tape(s)       == s.cell[s.at]
SetTape(s, c) == [s EXCEPT !.cell[s.at] = c]
Curroff(s)    == s.at - s.zero

KnownZero(s)  == Tape(s).is_set /\ Tape(s).v = 0

AddString(s, ch) == [s EXCEPT !.str = Append(@, ch)]

FlushString(s) ==
  IF s.str = <<>> THEN s
  ELSE [s EXCEPT !.code = Append(@, Tok("quote", 0, s.str)), !.str = <<>>]

(***************************************************************************)
(* flush_tape.  The walk starts at tapezero, away from the pointer's side, *)
(* and turns twice, so it meets every cell; a visit is <<offset, flips>>.  *)
(***************************************************************************)
Up(a, b)   == [i \in 1 .. b - a + 1 |-> a + i - 1]
Down(a, b) == Reverse(Up(b, a))

Visits(s) ==
  LET lo == Min(DOMAIN s.cell) - s.zero
      hi == Max(DOMAIN s.cell) - s.zero
      Leg(offs, flips) == [i \in DOMAIN offs |-> <<offs[i], flips>>]
  IN  IF Curroff(s) > 0
      THEN Leg(Down(0, lo), 2) \o Leg(Up(lo, hi), 1) \o Leg(Down(hi, lo), 0)
      ELSE Leg(Up(0, hi), 2) \o Leg(Down(hi, lo), 1) \o Leg(Up(lo, hi), 0)

\* w.s is the front end, w.out the offset at which the backend's pointer is.
MoveOut(w, to) ==
  [ s   |-> IF to > w.out THEN Outcmd(w.s, ">", to - w.out)
            ELSE IF to < w.out THEN Outcmd(w.s, "<", w.out - to)
            ELSE w.s,
    out |-> to ]

PutOut(s, c) ==
  IF c.is_set THEN Outcmd(s, "=", IF s.be.bytecell THEN ToByte(c.v) ELSE c.v)
  ELSE IF c.v > 0 THEN Outcmd(s, "+", c.v)
  ELSE IF c.v < 0 THEN Outcmd(s, "-", -c.v)
  ELSE s

\* The cell under the pointer comes last, when the pointer is back at zero.
Due(s, c, visit, keep) ==
  /\ c.v # 0 \/ c.is_set
  /\ Curroff(s) # 0 \/ visit[1] # 0 \/ visit[2] = 0
  /\ keep => s.zero + visit[1] = s.at

IsClean(c) == c.cleaned /\ c.cleaned_val = c.v /\ c.is_set

VisitCell(w, visit, no_output, keep) ==
  LET x  == w.s.zero + visit[1]
      c0 == IF no_output THEN Cleared ELSE w.s.cell[x]
      c  == IF w.s.be.bytecell THEN [c0 EXCEPT !.v = Rem(@, Bytes)] ELSE c0
      Leave(u, d) == [u EXCEPT !.s.cell[x] = d]
      m  == MoveOut(w, visit[1])
  IN  IF ~Due(w.s, c, visit, keep) THEN Leave(w, c)
      ELSE IF IsClean(c) THEN Leave(w, IF keep THEN c ELSE Cleared)
      ELSE Leave([m EXCEPT !.s = PutOut(m.s, c)],
                 IF keep /\ c.is_set
                 THEN [c EXCEPT !.cleaned = TRUE, !.cleaned_val = c.v]
                 ELSE Cleared)

Walked(s, no_output, keep) ==
  IF DOMAIN s.cell = {} THEN [s |-> s, out |-> 0]
  ELSE FoldLeft(LAMBDA w, visit : VisitCell(w, visit, no_output, keep),
                [s |-> s, out |-> 0], Visits(s))

\* Only the leftmost cell is kept; the others go to the free list.
ShortTape(cell) ==
  IF DOMAIN cell = {} THEN [x \in {0} |-> Cleared]
  ELSE [x \in {0} |-> cell[Min(DOMAIN cell)]]

\* Where the backend's pointer ends up: where the program's is.
Home(w, no_output) == IF no_output THEN w.s ELSE MoveOut(w, Curroff(w.s)).s

Settled(s, keep) ==
  IF keep THEN [s EXCEPT !.zero = s.at, !.blank = FALSE]
  ELSE [s EXCEPT !.cell = ShortTape(@), !.zero = 0, !.at = 0, !.blank = FALSE]

Announced(s, no_output) ==
  FlushString(IF s.blank THEN Outcmd(s, "!", IF no_output THEN 1 ELSE 0) ELSE s)

FlushTape(s, no_output, keep) ==
  Settled(Home(Walked(Announced(s, no_output), no_output, keep), no_output), keep)

(***************************************************************************)
(* outopt, one operator per kind of command.                               *)
(***************************************************************************)
\* be_codegen_failure, unless the backend knows every command.
NeedsBackend(s) == IF s.be.disable_be_optim THEN [s EXCEPT !.status = "exit"] ELSE s

BoundaryCmds == {"[", "]", "!", "~", "X", "#", "I", "E"}

\* At the start nothing is left over, at the end nobody will look at it.
Quiet(s, ch) == ch = "!" \/ (ch = "~" /\ s.be.enable_optim /\ ~s.be.disable_init_optim)

\* f is flushed.  After a ! the tape is known to be blank, if this is a
\* program; the ! itself waits.  Loops end with zero.
Boundary(f, ch, n) ==
  LET known == ~f.be.disable_init_optim
      bang  == [SetTape(f, [Tape(f) EXCEPT !.cleaned = known, !.is_set = known])
                  EXCEPT !.blank = known]
      zero  == [v |-> 0, is_set |-> TRUE, cleaned |-> TRUE, cleaned_val |-> 0]
  IN  CASE ch = "!" -> IF known THEN bang ELSE Outcmd(bang, ch, n)
        [] ch = "]" -> SetTape(Outcmd(f, ch, n), zero)
        [] OTHER    -> Outcmd(f, ch, n)

\* The character a '.' writes.
CharOut(s) == IF s.be.bytecell THEN ToByte(Tape(s).v) ELSE Tape(s).v

\* A '.' that is known to write an ASCII character waits in the string.
InString(s) ==
  /\ Tape(s).is_set
  /\ ~s.be.disable_be_optim \/ s.be.enable_chrtok
  /\ CharOut(s) > 0 /\ CharOut(s) < Bytes \div 2

Wander(s, d) ==
  LET x == s.at + d IN
  IF x \in DOMAIN s.cell THEN [s EXCEPT !.at = x]
  ELSE [s EXCEPT !.at = x,
                 !.cell = [y \in DOMAIN @ \cup {x} |-> IF y = x THEN NewCell(s) ELSE @[y]]]

Travel(s, d, n) == FoldLeft(LAMBDA w, i : Wander(w, d), s, [i \in 1 .. n |-> i])

Sum(s, ch, n) == Tape(s).v + (IF ch = "+" THEN n ELSE -n)

\* Whether the sum can be noted on the tape.
Foldable(s, ch, n) ==
  s.be.bytecell \/ s.be.cells_are_ints \/ ~Overflows(Sum(s, ch, n))

AddTo(s, ch, n) ==
  LET v == Sum(s, ch, n) IN
  SetTape(s, [Tape(s) EXCEPT !.v = IF s.be.bytecell THEN Rem(v, Bytes) ELSE v])

\* 'M' adds a multiple of the remembered value; to a zero it is assigned.
Factor(ch, n) == CASE ch = "N" -> -n [] ch = "S" -> 1 [] ch = "T" -> -1 [] OTHER -> n

AddNames == <<"S", "T", "N", "M">>
SetNames == <<"V", "W", "D", "C">>

MultiplyName(s, f) ==
  LET names == IF KnownZero(s) THEN SetNames ELSE AddNames
  IN  CASE f = 1 -> names[1] [] f = -1 -> names[2] [] f < -1 -> names[3] [] OTHER -> names[4]

\* The command as the backend gets it.
Renamed(s, ch, n) ==
  IF ch \notin {"M", "N", "S", "T"} THEN Tok(ch, n, <<>>)
  ELSE LET f == Factor(ch, n)
       IN  Tok(MultiplyName(s, f), IF f < 0 THEN -f ELSE f, <<>>)

\* Wrong on purpose: what was known of the cell is still believed after a ','.
ThroughStillKnown(s, ch, c) == Outcmd(FlushTape(s, FALSE, TRUE), c.cmd, c.n)

\* Commands that go through to the backend.  What is known of the cell goes
\* first and is forgotten, but for one that is assigned.
Through(s, ch, c) ==
  LET s1 == IF ch \in {"M", "N", "S", "T"} /\ KnownZero(s)
            THEN SetTape(s, [Tape(s) EXCEPT !.is_set = FALSE]) ELSE s
      f  == FlushTape(s1, FALSE, TRUE)
  IN  Outcmd(IF ch \in {".", "B"} THEN f ELSE SetTape(f, Cleared), c.cmd, c.n)

Full(s) == IF Len(s.str) >= StrLimit THEN FlushString(FlushTape(s, FALSE, TRUE)) ELSE s

OutOptLive(s, ch, n) ==
  CASE ch \in BoundaryCmds -> Boundary(FlushTape(s, Quiet(s, ch), FALSE), ch, n)
    [] ch = "." /\ InString(s) -> Full(AddString(s, CharOut(s)))
    [] ch = ">" -> Travel(s, 1, n)
    [] ch = "<" -> Travel(s, -1, n)
    [] ch \in {"+", "-"} /\ Foldable(s, ch, n) -> AddTo(s, ch, n)
    [] ch = "=" -> SetTape(s, [Tape(s) EXCEPT !.v = n, !.is_set = TRUE])
    [] ch \in {"B", "M", "N", "S", "T"} -> NeedsBackend(Through(s, ch, Renamed(s, ch, n)))
    [] OTHER -> Through(s, ch, Tok(ch, n, <<>>))

Nest(ch) == CASE ch = "[" -> 1 [] ch = "]" -> -1 [] OTHER -> 0

OutOpt(s, ch, n) ==
  IF s.status # "run" THEN s
  ELSE IF s.deadloop > 0 THEN [s EXCEPT !.deadloop = @ + Nest(ch)]
  ELSE IF ch = "[" /\ KnownZero(s) THEN [s EXCEPT !.deadloop = 1]
  ELSE OutOptLive(s, ch, n)

(***************************************************************************)
(* The front end before its first command.                                 *)
(***************************************************************************)
Fresh(be) ==
  [ be |-> be, cell |-> <<>>, at |-> 0, zero |-> 0, blank |-> FALSE,
    str |-> <<>>, deadloop |-> 0, q |-> <<>>, code |-> <<>>,
    status |-> "run", odd |-> {} ]

(***************************************************************************)
(* bf2loop.c: the loop optimiser of bf2any.  The commands of an innermost  *)
(* loop wait in the queue s.q until its end is seen; a loop that only adds *)
(* to cells, or sets them, becomes multiplications, and if the value of    *)
(* its counter is known, plain additions.  Everything else is passed on to *)
(* outopt as it came.                                                      *)
(***************************************************************************)
CONSTANTS
  QueueSize,   \* asize(qcmd)
  QueueSlack,  \* kept free for what process_loop writes
  MaddSize     \* asize(madd_offset)

ASSUME QueueAssumption ==
  /\ QueueSize \in Nat /\ QueueSlack \in 1 .. QueueSize /\ MaddSize \in Nat

Cmd(ch, rep) == [cmd |-> ch, rep |-> rep]

Push(s, ch, rep) == [s EXCEPT !.q = Append(@, Cmd(ch, rep))]

Opposite(ch) ==
  CASE ch = ">" -> "<" [] ch = "<" -> ">" [] ch = "+" -> "-" [] ch = "-" -> "+"
    [] OTHER -> ch

\* Make sure counts are positive and post onward.
Positive(c) ==
  IF c.rep < 0 /\ c.cmd \in {">", "<", "+", "-"} THEN Cmd(Opposite(c.cmd), -c.rep) ELSE c

Post(s, c) == OutOpt(s, c.cmd, c.rep)

\* outtxn(0, 0): for the queue ...
Sweep(s) ==
  FoldLeft(Post, [s EXCEPT !.q = <<>>], [i \in DOMAIN s.q |-> Positive(s.q[i])])

\* The queue is written anew; nothing looks whether there is room.
Requeue(s, q) ==
  [s EXCEPT !.q = q,
            !.odd = IF Len(q) > QueueSize THEN @ \cup {"overflow"} ELSE @]

(***************************************************************************)
(* process_loop, first half: what one turn of the loop does.               *)
(*   mov    : where it leaves the pointer, minmov how far left it goes;    *)
(*   inc    : what it adds to the counter, or sets it to if loopz;         *)
(*   madd   : what happens to the other cells, in the order they are met;  *)
(*   zmodes : has_zmode, how often one of them is set;                     *)
(*   ok     : FALSE once a command or a cell too many is met.              *)
(***************************************************************************)
NoTurn == [mov |-> 0, minmov |-> 0, inc |-> 0, loopz |-> FALSE,
           madd |-> <<>>, zmodes |-> 0, ok |-> TRUE]

Least(a, b) == IF a < b THEN a ELSE b

Signed1(c) == IF c.cmd = "-" THEN -c.rep ELSE c.rep

OnCounter(a, c) ==
  IF c.cmd = "=" THEN [a EXCEPT !.loopz = TRUE, !.inc = c.rep]
  ELSE [a EXCEPT !.inc = @ + Signed1(c)]

OnMadd(a, j, c) ==
  IF c.cmd = "="
  THEN [a EXCEPT !.madd[j].zmode = TRUE, !.madd[j].inc = c.rep, !.zmodes = @ + 1]
  ELSE [a EXCEPT !.madd[j].inc = @ + Signed1(c)]

OnCell(a, c) ==
  LET known == {j \in DOMAIN a.madd : a.madd[j].off = a.mov}
      new   == [off |-> a.mov, inc |-> 0, zmode |-> FALSE]
  IN  IF known # {} THEN OnMadd(a, Min(known), c)
      ELSE IF Len(a.madd) >= MaddSize THEN [a EXCEPT !.ok = FALSE]
      ELSE OnMadd([a EXCEPT !.madd = Append(@, new)], Len(a.madd) + 1, c)

Analyse(a, c) ==
  CASE ~a.ok -> a
    [] a.ok /\ c.cmd = ">" -> [a EXCEPT !.mov = @ + c.rep]
    [] a.ok /\ c.cmd = "<" -> [a EXCEPT !.mov = @ - c.rep,
                                        !.minmov = Least(@, a.mov - c.rep)]
    [] a.ok /\ c.cmd \in {"+", "-", "="} /\ a.mov = 0 -> OnCounter(a, c)
    [] a.ok /\ c.cmd \in {"+", "-", "="} /\ a.mov # 0 -> OnCell(a, c)
    [] OTHER -> [a EXCEPT !.ok = FALSE]

Turn(q) == FoldLeft(Analyse, NoTurn, SubSeq(q, 2, Len(q) - 1))

IsNop(m) == ~m.zmode /\ m.inc = 0

(***************************************************************************)
(* try_constant_loop: the counter is known, so is the number of turns.     *)
(***************************************************************************)
Magnitude(v) == IF v < 0 THEN -v ELSE v

\* The turns until a byte counter is zero; Bytes if it never is.
ByteTurns(v, inc) ==
  LET hits == {k \in 0 .. Bytes - 1 : ToByte(v + k * inc) = 0}
  IN  IF hits = {} THEN Bytes ELSE Min(hits)

\* The sequence of queue entries that does n turns at once.
Turns(a, n, be) ==
  LET live == SelectSeq(a.madd, LAMBDA m : ~IsNop(m))
      from(i) == IF i = 1 THEN 0 ELSE live[i - 1].off
      sum(m)  == IF be.bytecell THEN Rem(m.inc * n, Bytes) ELSE m.inc * n
      what(m) == IF m.zmode THEN Cmd("=", m.inc)
                 ELSE IF sum(m) < 0 THEN Cmd("-", -sum(m)) ELSE Cmd("+", sum(m))
      at(i)   == (IF live[i].off = from(i) THEN <<>>
                  ELSE << Cmd(">", live[i].off - from(i)) >>) \o << what(live[i]) >>
      last    == from(Len(live) + 1)
  IN  << Cmd("=", 0) >> \o FlattenSeq([i \in DOMAIN live |-> at(i)])
      \o (IF last = 0 THEN <<>> ELSE << Cmd(">", -last) >>)

\* The number of turns, or -1 if it cannot be told.
KnownTurns(s, a) ==
  LET v0   == Tape(s).v
      v    == IF ~a.loopz THEN v0
              ELSE IF (IF s.be.bytecell THEN Rem(v0, Bytes) ELSE v0) # 0 THEN 1 ELSE 0
      inc  == IF a.loopz THEN -1 ELSE a.inc
      even == (inc > 0) = (v < 0) /\ Magnitude(v) % Magnitude(inc) = 0
  IN  CASE inc = -1 -> [known |-> TRUE, n |-> v]
        [] inc # -1 /\ even -> [known |-> TRUE, n |-> Magnitude(v) \div Magnitude(inc)]
        [] inc # -1 /\ ~even /\ s.be.bytecell /\ ByteTurns(v0, inc) < Bytes ->
             [known |-> TRUE, n |-> ByteTurns(v0, inc)]
        [] OTHER -> [known |-> FALSE, n |-> 0]

\* An unoptimised backend may have byte cells although nobody said so.
WrapUnsure(s, a) ==
  /\ s.be.disable_be_optim /\ ~s.be.bytecell
  /\ a.loopz \/ a.zmodes > 0
  /\ Tape(s).v # 0 /\ Rem(Tape(s).v, Bytes) = 0

CanDoTurns(s, a) ==
  LET k == KnownTurns(s, a) IN
  /\ Tape(s).is_set
  /\ ~WrapUnsure(s, a)
  /\ k.known
  /\ s.be.cells_are_ints \/ \A j \in DOMAIN a.madd :
       a.madd[j].zmode \/ ~Overflows(a.madd[j].inc * k.n)

(***************************************************************************)
(* try_constant_slider: a loop that only moves, over cells that are known. *)
(* Beyond the end of the list cells are zero as long as the tape is blank. *)
(***************************************************************************)
SlideStop(s, d) ==
  LET Met(k)   == s.at + k * d \in DOMAIN s.cell
      Value(k) == s.cell[s.at + k * d]
      Known(k) == IF Met(k) THEN Value(k).is_set ELSE s.blank
      Zero(k)  == IF Met(k) THEN Value(k).v = 0 ELSE TRUE
      far      == Cardinality(DOMAIN s.cell)
      stops    == {k \in 0 .. far : Zero(k) /\ \A j \in 0 .. k : Known(j)}
  IN  IF stops = {} THEN -1 ELSE Min(stops)

Slide(s) ==
  LET c    == s.q[2]
      d    == IF c.cmd = "<" THEN -c.rep ELSE c.rep
      k    == SlideStop(s, d)
  IN  IF c.rep >= 1 /\ k >= 0 THEN Requeue(s, << Cmd(c.cmd, k * c.rep) >>) ELSE s

(***************************************************************************)
(* process_loop, second half: the counter is not known.  The loop becomes  *)
(*   I ... E   "if the cell is not zero", around what must not happen then *)
(*   B         remember the counter                                        *)
(*   M         add a multiple of it                                        *)
(***************************************************************************)
\* One cell's entries; w is [q, mov, doneif] and the entries done are left out.
Entry(w, m, a, second, inc) ==
  LET home == second = w.doneif /\ w.mov # 0
      opn  == second = w.doneif /\ ~second /\ ~w.doneif
      mov  == IF second = w.doneif THEN 0 ELSE w.mov
      what == CASE m.zmode -> Cmd("=", m.inc)
                [] ~m.zmode /\ a.loopz -> Cmd("+", -(m.inc * inc))
                [] OTHER -> Cmd("M", -(m.inc * inc))
  IN  [ q |-> w.q \o (IF home THEN << Cmd(">", -w.mov) >> ELSE <<>>)
                  \o (IF opn THEN << Cmd("I", 0) >> ELSE <<>>)
                  \o (IF mov # m.off THEN << Cmd(">", m.off - mov) >> ELSE <<>>)
                  \o << what >>,
        mov    |-> m.off,
        doneif |-> w.doneif \/ opn ]

\* The cells of the first pass (use_v_var = 0); the second takes the others.
InFirst(m, a, tapeinit) ==
  \/ a.loopz
  \/ Len(a.madd) >= 2 /\ (m.zmode \/ m.off < -tapeinit)

Multiplied(a, tapeinit) ==
  LET guard  == (a.minmov < -tapeinit \/ a.zmodes > 0) /\ ~a.loopz
      inc    == IF a.loopz THEN -1 ELSE a.inc
      head   == CASE guard -> << Cmd("I", 0) >>
                               \o (IF Len(a.madd) > a.zmodes THEN << Cmd("B", 1) >> ELSE <<>>)
                  [] a.loopz -> << Cmd("I", 0), Cmd("=", 0) >>
                  [] OTHER   -> << Cmd("B", 1) >>
      live   == SelectSeq(a.madd, LAMBDA m : ~IsNop(m))
      first  == SelectSeq(live, LAMBDA m : InFirst(m, a, tapeinit))
      rest   == SelectSeq(live, LAMBDA m : ~InFirst(m, a, tapeinit))
      w1     == FoldLeft(LAMBDA w, m : Entry(w, m, a, FALSE, inc),
                         [q |-> head, mov |-> 0, doneif |-> guard \/ a.loopz], first)
      w2     == FoldLeft(LAMBDA w, m : Entry(w, m, a, TRUE, inc), w1, rest)
  IN  w2.q \o (IF w2.mov # 0 THEN << Cmd(">", -w2.mov) >> ELSE <<>>)
           \o (IF w2.doneif THEN << Cmd("E", 0) >> ELSE <<>>)
           \o (IF a.loopz THEN <<>> ELSE << Cmd("=", 0) >>)

\* History: the remembered value is needed and was not remembered.
Forgotten(a, tapeinit) ==
  /\ (a.minmov < -tapeinit \/ a.zmodes > 0) /\ ~a.loopz
  /\ Len(a.madd) <= a.zmodes
  /\ \E j \in DOMAIN a.madd : ~a.madd[j].zmode /\ a.madd[j].inc # 0

\* The trivial infinite loop: the backend is told to stop before its end.
Endless(q) == Front(q) \o << Cmd("X", Last(q).rep), Last(q) >>

\* process_loop: what it leaves in the queue, which is then always swept.
ProcessLoop(s) ==
  LET a == Turn(s.q)
      m == Multiplied(a, s.be.tapeinit)
  IN  IF ~a.ok THEN s
      ELSE IF a.mov # 0
      THEN IF Len(s.q) = 3 /\ s.q[2].cmd \in {"<", ">"} THEN Slide(s) ELSE s
      ELSE IF a.loopz = (a.inc # 0) THEN Requeue(s, Endless(s.q))
      ELSE IF CanDoTurns(s, a)
      THEN Requeue(s, Turns(a, KnownTurns(s, a).n, s.be))
      ELSE IF s.be.disable_be_optim \/ (~a.loopz /\ a.inc \notin {1, -1}) THEN s
      ELSE Requeue(IF Forgotten(a, s.be.tapeinit)
                   THEN [s EXCEPT !.odd = @ \cup {"forgotten"}] ELSE s, m)

(***************************************************************************)
(* outtxn for one command.                                                 *)
(***************************************************************************)
\* "Paranoia!", then a loop that is never entered is passed on to outopt.
OpenLoop(s, rep) ==
  LET s1 == IF s.be.bytecell /\ s.at \in DOMAIN s.cell
            THEN SetTape(s, [Tape(s) EXCEPT !.v = Rem(@, Bytes)]) ELSE s
      s2 == Push(s1, "[", rep)
  IN  IF KnownZero(s1) THEN Sweep(s2) ELSE s2

Waits(s, ch) ==
  /\ ch \in {">", "<", "+", "-", "=", "]"}
  /\ s.q # <<>>
  /\ Len(s.q) < QueueSize - QueueSlack

OutTxn(s, ch, rep) ==
  IF ch = "[" THEN OpenLoop(Sweep(s), rep)
  ELSE IF Waits(s, ch) /\ ch # "]" THEN Push(s, ch, rep)
  ELSE Sweep(IF Waits(s, ch) THEN ProcessLoop(Push(s, ch, rep)) ELSE Push(s, ch, rep))
=============================================================================
