-------------------------------- MODULE Beef --------------------------------
(***************************************************************************)
(* The deadbeef array: extras/deadbeef.c, and the same loader in           *)
(* extras/trixy.c with options to switch its optimisations off and with    *)
(* five things to do with what it makes.  An entry [mov, cmd, arg] moves   *)
(* the pointer and then does cmd: = + > [ ] . , #, the rail ? that is a    *)
(* loop [>], and the stop ! that is a loop [].                             *)
(***************************************************************************)
EXTENDS Machine

CONSTANTS
  TapeSize,    \* the cells an unsigned short can address
  MINALLOC,    \* by how much the tape of -longbf grows
  Digit        \* the largest number one character 0-9 can give

\* The flags of db_disable that each option sets.
Disable(option) ==
  CASE option = "-no-rail" -> {"rail"}
    [] option = "-no-mov"  -> {"rail", "mov"}
    [] option = "-no-set"  -> {"set"}
    [] option = "-no-rle"  -> {"rail", "mov", "rle"}
    [] option = "-rle"     -> {"rail", "mov", "set"}
    [] OTHER               -> {}

BeefStart == [pgm |-> <<>>, jmp |-> 0, inp |-> FALSE]

IsLast(l, cmd) == l.pgm # <<>> /\ Last(l.pgm).cmd = cmd

\* The entry joins a movement before it, or is put behind the last one.
BeefAppend(l, cmd, arg, disable) ==
  IF IsLast(l, ">") /\ disable \cap {"mov", "rle"} = {}
  THEN [l EXCEPT !.pgm[Len(l.pgm)] = [mov |-> @.arg, cmd |-> cmd, arg |-> arg]]
  ELSE [l EXCEPT !.pgm = Append(@, [mov |-> 0, cmd |-> cmd, arg |-> arg])]

\* What was just closed is [-] with an odd step, [] or [>].
BeefLoop(l, disable) ==
  LET cp == Len(l.pgm)
      e(k) == l.pgm[cp - k]
      becomes(k, cmd, arg) ==
        [l EXCEPT !.pgm = Append(SubSeq(@, 1, cp - k - 1),
                                 [mov |-> e(k).mov, cmd |-> cmd, arg |-> arg])]
  IN  CASE /\ e(0).mov = 0 /\ e(1).mov = 0 /\ e(1).cmd = "+" /\ e(1).arg % 2 = 1
           /\ e(2).cmd = "[" /\ "set" \notin disable   -> becomes(2, "=", 0)
        [] e(1).cmd = "[" /\ e(0).mov = 0              -> becomes(1, "!", 0)
        [] e(1).cmd = "[" /\ "rail" \notin disable     -> becomes(1, "?", e(0).mov)
        [] OTHER -> l

BeefClose(l, disable) ==
  LET w    == BeefAppend(l, "]", l.jmp, disable)
      open == l.pgm[l.jmp].arg
  IN  BeefLoop([w EXCEPT !.jmp = open, !.pgm[l.jmp].arg = Len(w.pgm)], disable)

\* addbeefctrl for one character; without flags it is addbeef, and what
\* deadbeef.c does.
BeefTakes(l, ch, disable) ==
  LET r    == IF ch \in {">", "+"} THEN 1 ELSE IF ch \in {"<", "-"} THEN -1 ELSE 0
      cmd  == CASE ch = "<" -> ">" [] ch = "-" -> "+" [] OTHER -> ch
      adds == IsLast(l, cmd) \/ (IsLast(l, "=") /\ cmd = "+")
      w    == [l EXCEPT !.inp = @ \/ ch = ","]
  IN  CASE r # 0 /\ adds /\ "rle" \notin disable ->
             [w EXCEPT !.pgm[Len(l.pgm)].arg = @ + r]
        [] r # 0 \/ ch \in {".", ",", "#"} -> BeefAppend(w, cmd, r, disable)
        [] ch = "["            -> LET a == BeefAppend(w, "[", l.jmp, disable)
                                  IN  [a EXCEPT !.jmp = Len(a.pgm)]
        [] ch = "]" /\ l.jmp # 0 -> BeefClose(w, disable)
        [] OTHER -> w

OpenLoops(l) ==
  LET open[j \in 0 .. Len(l.pgm)] == IF j = 0 THEN {} ELSE {j} \cup open[l.pgm[j].arg]
  IN  IF l.jmp = 0 THEN {} ELSE open[l.jmp]

\* deadbeef.c: a loop left open is a command that does nothing.
DeadbeefLoad(text, stdin) ==
  LET Stops(k, ch) == stdin /\ ch = "!" /\ k.jmp = 0 /\ k.inp
      Takes(k, ch) == BeefTakes(k, ch, {})
      l    == Loaded(BeefStart, text, Stops, Takes)
      open == OpenLoops(l)
  IN  [l EXCEPT !.pgm = [i \in DOMAIN @ |-> IF i \in open THEN [@[i] EXCEPT !.cmd = " "]
                                            ELSE @[i]]]

\* trixy.c: it jumps to itself.
TrixyLoad(text, stdin, option) ==
  LET Stops(k, ch) == stdin /\ ch = "!" /\ k.jmp = 0 /\ k.inp
      Takes(k, ch) == BeefTakes(k, ch, Disable(option))
      l    == Loaded(BeefStart, text, Stops, Takes)
      open == OpenLoops(l)
  IN  [l EXCEPT !.pgm = [i \in DOMAIN @ |-> IF i \in open THEN [@[i] EXCEPT !.arg = i]
                                            ELSE @[i]]]

(***************************************************************************)
(* run of deadbeef.c, and deadbeef of trixy.c.  rail tells that the loop   *)
(* of a ? is going on; one turn of it is a step.                           *)
(***************************************************************************)
BeefMachine(stdin) == Start(stdin) @@ [rail |-> FALSE]

Wrapped(v, d) == [v EXCEPT !.m = (@ + d) % TapeSize]

\* 2 ends the program at the end of the input.
BeefRead(v, on_eof) ==
  IF on_eof = 2 /\ v.stdin = <<>> THEN Ends(Event(v, "eof", 0), "done")
  ELSE ReadOr(v, on_eof, Byte)

BeefRail(v, arg) ==
  IF Cell(v) # 0 THEN [Wrapped(v, arg) EXCEPT !.rail = TRUE]
  ELSE Next1([v EXCEPT !.rail = FALSE])

\* A loop of the do-while language is entered whatever the cell is.
BeefDo(e, v, on_eof, dowhile) ==
  CASE e.cmd = "=" -> Next1(Store(v, Byte(e.arg)))
    [] e.cmd = "+" -> Next1(Store(v, Byte(Cell(v) + e.arg)))
    [] e.cmd = "[" -> Next1(IF Cell(v) = 0 /\ ~dowhile THEN Goto(v, e.arg) ELSE v)
    [] e.cmd = "]" -> Next1(IF Cell(v) # 0 THEN Goto(v, e.arg) ELSE v)
    [] e.cmd = "?" -> IF dowhile THEN [Wrapped(v, e.arg) EXCEPT !.rail = TRUE]
                      ELSE BeefRail(v, e.arg)
    [] e.cmd = ">" -> Next1(Wrapped(v, e.arg))
    [] e.cmd = "." -> Next1(IF dowhile /\ Cell(v) = 0 THEN v ELSE PutChar(v, Cell(v)))
    [] e.cmd = "," -> Next1(BeefRead(v, on_eof))
    [] e.cmd = "!" -> IF Cell(v) # 0 THEN Ends(v, "stop") ELSE Next1(v)
    [] e.cmd = "#" -> Next1(Event(v, "dump", v.m))
    [] OTHER -> Next1(v)

BeefTurn(pgm, v, on_eof, dowhile) ==
  IF v.n > Len(pgm) THEN Ends(v, "done")
  ELSE IF v.rail THEN BeefRail(v, pgm[v.n].arg)
  ELSE BeefDo(pgm[v.n], Wrapped(v, pgm[v.n].mov), on_eof, dowhile)

BeefStep(pgm, v, on_eof) == BeefTurn(pgm, v, on_eof, FALSE)

DowhileStep(pgm, v, on_eof) == BeefTurn(pgm, v, on_eof, TRUE)

(***************************************************************************)
(* zc_deadbeef: the cells that are used before they are cleared are        *)
(* noted, each once.                                                       *)
(***************************************************************************)
NotingMachine(stdin) == BeefMachine(stdin) @@ [z |-> {}, noted |-> <<>>]

Noted(v) ==
  IF v.m \in v.z THEN v ELSE [v EXCEPT !.z = @ \cup {v.m}, !.noted = Append(@, v.m)]

NotingStep(pgm, v, on_eof) ==
  IF v.n > Len(pgm) THEN Ends(v, "done")
  ELSE LET e == pgm[v.n]
           u == IF v.rail THEN v ELSE Wrapped(v, e.mov)
           w == CASE e.cmd = "=" -> [u EXCEPT !.z = @ \cup {u.m}]
                  [] e.cmd \in {"+", "[", "]", ".", ",", "!", "?"} -> Noted(u)
                  [] OTHER -> u
       IN  IF v.rail THEN BeefRail(w, e.arg) ELSE BeefDo(e, w, on_eof, FALSE)

(***************************************************************************)
(* longbeef: a tape that grows at its end and has ms cells to spare on     *)
(* both sides, the longest step of a rail.  A cell that is not there can   *)
(* be anything: the machine is then wild.                                  *)
(***************************************************************************)
RECURSIVE LongestStep(_)
LongestStep(pgm) ==
  IF pgm = <<>> THEN 0
  ELSE LET ms == LongestStep(Tail(pgm))
           a  == IF Head(pgm).arg < 0 THEN -Head(pgm).arg ELSE Head(pgm).arg
       IN  IF Head(pgm).cmd = "?" /\ a > ms THEN a ELSE ms

\* The size of the tape after alloc_tape for the cell a.
Allocated(te, a) ==
  IF a < te THEN te ELSE te + ((a - te) \div MINALLOC + 1) * MINALLOC

LongMachine(pgm, stdin) ==
  [BeefMachine(stdin) EXCEPT !.m = LongestStep(pgm)]
    @@ [te |-> Allocated(0, 0), ms |-> LongestStep(pgm)]

OnTape(v) == v.m \in 0 .. v.te - 1

LongRead(v, on_eof) == ReadOr(v, on_eof, Byte)

LongRail(v, arg) ==
  CASE ~OnTape(v)   -> Ends(v, "wild")
    [] Cell(v) # 0  -> [Move(v, arg) EXCEPT !.rail = TRUE]
    [] OTHER        -> Next1([v EXCEPT !.rail = FALSE])

LongDo(e, v, on_eof) ==
  CASE e.cmd = ">" -> Next1(Move(v, e.arg))
    [] e.cmd = "?" -> LongRail(v, e.arg)
    [] e.cmd = "," -> Next1(LongRead(v, on_eof))
    [] OTHER       -> BeefDo(e, v, on_eof, FALSE)

\* It is looked where the pointer is before each command.
LongStep(pgm, v, on_eof) ==
  IF v.rail THEN LongRail(v, pgm[v.n].arg)
  ELSE LET e == IF v.n > Len(pgm) THEN [mov |-> 0, cmd |-> "", arg |-> 0] ELSE pgm[v.n]
           w == Move(v, e.mov)
           g == [w EXCEPT !.te = Allocated(@, w.m + w.ms)]
       IN  CASE w.m - w.ms < 0 -> Ends(w, "range")
             [] e.cmd = ""     -> Ends(g, "done")
             [] OTHER          -> LongDo(e, g, on_eof)

(***************************************************************************)
(* The entries as commands for a backend of bf2any: be_outcmd of           *)
(* trixy_if.c, and the loop of main that calls it.                         *)
(***************************************************************************)
BackendCommands(e) ==
  LET c(cmd, n) == [cmd |-> cmd, n |-> n]
      mov == CASE e.mov > 0 -> << c(">", e.mov) >>
               [] e.mov < 0 -> << c("<", -e.mov) >>
               [] OTHER     -> <<>>
  IN  mov \o CASE e.cmd \in {"[", "]", ".", ","} -> << c(e.cmd, 0) >>
               [] e.cmd = "!" -> << c("[", 0), c("X", 1), c("]", 0) >>
               [] e.cmd = "+" /\ e.arg < 0 -> << c("-", -e.arg) >>
               [] e.cmd = ">" /\ e.arg < 0 -> << c("<", -e.arg) >>
               [] OTHER -> << c(e.cmd, e.arg) >>

BackendProgram(pgm, on_eof) ==
  << [cmd |-> "!", n |-> 0] >>
  \o FlattenSeq([i \in DOMAIN pgm |->
       IF pgm[i].cmd = "," /\ on_eof <= 0
       THEN BackendCommands([pgm[i] EXCEPT !.cmd = "=", !.arg = on_eof])
            \o BackendCommands([pgm[i] EXCEPT !.mov = 0])
       ELSE BackendCommands(pgm[i])])
  \o << [cmd |-> "~", n |-> 0] >>

(***************************************************************************)
(* The output of trixy: putch does not write a character but the commands  *)
(* of a small language that prints it, most of them relative to what that  *)
(* language's memory holds after the characters before.  Beside it, what   *)
(* those languages do with the commands.  Half a character is a nibble.    *)
(***************************************************************************)
Values == 0 .. 2^ByteBits - 1
Nibble == 2^(ByteBits \div 2)

BitAt(x, b) == (x \div 2^b) % 2

\* putch's static variables; outbit is the number of the bit.
PutStart == [outbit |-> 0, outch |-> 0, curcell |-> 0, curval |-> [c \in Values |-> 0],
             text |-> <<>>]

Pc(w, s)    == [w EXCEPT !.text = @ \o s]
Times(n, c) == [i \in 1 .. n |-> c]

\* "while(outch < v) ...; while(outch > v) ..."
UpDown(w, v, up, down) ==
  [Pc(w, Times(v - w.outch, up) \o Times(w.outch - v, down)) EXCEPT !.outch = v]

\* Wrong on purpose: the memory is reset and not what is remembered of it.
FromZeroStale(w, v, reset, cost) ==
  UpDown(IF v < w.outch /\ v + cost < w.outch - v THEN Pc(w, reset) ELSE w, v, "+", "-")

\* As before, but from zero if that is shorter by more than cost.
FromZero(w, v, reset, cost) ==
  UpDown(IF v < w.outch /\ v + cost < w.outch - v THEN [Pc(w, reset) EXCEPT !.outch = 0] ELSE w,
         v, "+", "-")

\* EXCON: a bit that has been passed can only be reached again after a reset.
ExconFlip(w, b) ==
  [Pc(w, Times(b - w.outbit, "<") \o <<"^">>) EXCEPT
     !.outbit = b,
     !.outch = @ + (IF BitAt(@, b) = 0 THEN 1 ELSE -1) * 2^b]

RECURSIVE ExconFrom(_, _, _)
ExconFrom(w, v, b) ==
  IF b = ByteBits THEN w
  ELSE LET wrong(u, c) == BitAt(u.outch, c) # BitAt(v, c)
           back == wrong(w, b) /\ b < w.outbit
           u    == IF back THEN [Pc(w, <<":">>) EXCEPT !.outbit = 0, !.outch = 0] ELSE w
           c    == IF back THEN 0 ELSE b
       IN  ExconFrom(IF wrong(u, c) THEN ExconFlip(u, c) ELSE u, v, c + 1)

\* Tick: the first cell with the fewest steps up to v.
Best(w, v) ==
  LET d(c) == (v - w.curval[c]) % 2^ByteBits IN
  CHOOSE c \in Values : \A e \in Values : d(c) < d(e) \/ (d(c) = d(e) /\ c <= e)

TickTo(w, v) ==
  LET c == Best(w, v) IN
  [Pc(w, Times(c - w.curcell, ">") \o Times(w.curcell - c, "<")
         \o Times((v - w.curval[c]) % 2^ByteBits, "+")) EXCEPT
     !.curcell = c, !.curval[c] = v]

Figures == <<"1", "2", "3", "4", "5", "6", "7", "8", "9">>

\* BCDFuck: a nibble is reached by adding one digit, or two.
BcdNibble(w, n) ==
  LET d    == (n - w.outch) % Nibble
      half == IF d > Digit - 1 THEN d \div 2 ELSE 0
      adds == (IF half > 0 THEN <<Figures[half], "A">> ELSE <<>>)
              \o (IF d - half > 0 THEN <<Figures[d - half], "A">> ELSE <<>>)
  IN  [Pc(w, adds \o <<"E">>) EXCEPT !.outch = n]

PutCh(format, w, v) ==
  CASE format = "excon"   -> Pc(ExconFrom(w, v, 0), <<"!">>)
    [] format = "abcd"    -> Pc(UpDown(w, v, "A", "B"), <<"D">>)
    [] format = "minimal" -> Pc(UpDown(w, v, "+", "-"), <<".">>)
    [] format = "dead"    -> Pc(FromZero(w, v, <<"_">>, 1), <<"S">>)
    [] format = "tick"    -> Pc(TickTo(w, v), <<"*">>)
    [] format = "msf"     -> [Pc(w, Times((v - w.outch) % 2^ByteBits, "+") \o <<".">>)
                                EXCEPT !.outch = v]
    [] format = "bcd"     -> BcdNibble(BcdNibble(w, v \div Nibble), v % Nibble)
    [] format = "bftxt3"  -> Pc(TickTo(w, v), <<".">>)
    [] format = "bftxt4"  -> Pc(FromZero(w, v, <<"[", "-", "]">>, 3), <<".">>)
    [] format = "bftxt5"  -> Pc(FromZero(w, v, <<">">>, 1), <<".">>)

Formats == {"excon", "abcd", "minimal", "dead", "tick", "msf", "bcd",
            "bftxt3", "bftxt4", "bftxt5"}

(***************************************************************************)
(* The languages: r is a cell, its tape, a bit and what was printed.  BCD  *)
(* prints a nibble at a time; digit is the number that was written last.   *)
(***************************************************************************)
ReadStart == [cell |-> 0, tape |-> [c \in Values |-> 0], bit |-> 0, digit |-> 0, out |-> <<>>]

Held(r)   == r.tape[r.cell]
Add(r, n) == [r EXCEPT !.tape[r.cell] = (@ + n) % 2^ByteBits]

\* A loop is only ever [-].
Obeys(format, r, c) ==
  CASE c \in {"+", "A"} /\ format # "bcd" -> Add(r, 1)
    [] c \in {"-", "B"}                   -> Add(r, -1)
    [] c \in {".", "*", "S", "D", "!"}    -> [r EXCEPT !.out = Append(@, Held(r))]
    [] c = "<" /\ format = "excon"        -> [r EXCEPT !.bit = @ + 1]
    [] c = "^" -> Add(r, (IF BitAt(Held(r), r.bit) = 0 THEN 1 ELSE -1) * 2^r.bit)
    [] c = ":" -> [Add(r, -Held(r)) EXCEPT !.bit = 0]
    [] c \in {"_", "]"} -> Add(r, -Held(r))
    [] c = ">" -> [r EXCEPT !.cell = (@ + 1) % 2^ByteBits]
    [] c = "<" -> [r EXCEPT !.cell = (@ - 1) % 2^ByteBits]
    [] c = "A" -> [r EXCEPT !.tape[r.cell] = (@ + r.digit) % Nibble]
    [] c = "E" -> [r EXCEPT !.out = Append(@, Held(r))]
    [] c = "[" -> r
    [] OTHER   -> [r EXCEPT !.digit = CHOOSE n \in DOMAIN Figures : Figures[n] = c]

Printed(format, text) ==
  LET out == FoldLeft(LAMBDA r, c : Obeys(format, r, c), ReadStart, text).out IN
  IF format # "bcd" THEN out
  ELSE [i \in 1 .. Len(out) \div 2 |-> out[2 * i - 1] * Nibble + out[2 * i]]
=============================================================================
