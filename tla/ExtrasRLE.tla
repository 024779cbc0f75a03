------------------------------ MODULE ExtrasRLE ------------------------------
(***************************************************************************)
(* Three programs of extras/ with the same loop in main: it counts runs,   *)
(* skips comment loops, closes what is left open and posts the rest, one   *)
(* command at a time.  proton.c makes words of them and interprets these,  *)
(* lightning.c machine code with GNU lightning, cdowhile.c a program in C, *)
(* of the language in which a loop is always entered unless -bf is given.  *)
(***************************************************************************)
EXTENDS Machine

CONSTANTS
  IntBits      \* the width of an int cell

(***************************************************************************)
(* main.  by says which program it is; comments whether ][ begins a        *)
(* comment loop, debug whether # is a command.                             *)
(***************************************************************************)
RleStart == [posted |-> <<>>, lastch |-> "]", c |-> 0, b |-> 0, lc |-> 0, cf |-> FALSE]

Post(l, cmd, n) == [l EXCEPT !.posted = Append(@, [cmd |-> cmd, n |-> n])]

PostRun(l) == IF l.c = 0 THEN l ELSE Post(l, l.lastch, l.c)

\* "Non RLE tokens here"; [] is known not to end.
PostOther(l, ch) ==
  LET w == IF l.lastch = "[" /\ ch = "]" THEN Post(l, "X", 1) ELSE l
  IN  [Post(w, ch, 1) EXCEPT !.b = @ + Nesting(ch), !.c = 0, !.lastch = ch]

\* A ] too many: only proton forgets the run it has posted.
PassClose(l, by) == IF by = "proton" THEN [l EXCEPT !.c = 0] ELSE l

RleTakes(l, ch, by, comments, debug) ==
  LET f == [l EXCEPT !.cf = TRUE] IN
  CASE ch \notin Runs \cup {"[", "]", ".", ","} \cup (IF debug THEN {"#"} ELSE {}) -> l
    [] l.lc > 0 \/ (comments /\ ch = "[" /\ l.lastch = "]")
                                -> [l EXCEPT !.lc = @ + Nesting(ch)]
    [] ch \in Runs /\ ch = l.lastch -> [f EXCEPT !.c = @ + 1]
    [] ch \in Runs              -> [PostRun(f) EXCEPT !.c = 1, !.lastch = ch]
    [] ch = "]" /\ l.b = 0      -> PassClose(PostRun(f), by)
    [] OTHER                    -> PostOther(PostRun(f), ch)

\* Where the ! ends a program that comes from stdin.
RleStops(l, by) ==
  \/ by = "proton"
  \/ l.lc = 0 /\ l.b = 0 /\ (l.c # 0 \/ l.cf)

RleLoad(text, stdin, by, comments, debug) ==
  LET Stops(k, ch) == stdin /\ ch = "!" /\ RleStops(k, by)
      Takes(k, ch) == RleTakes(k, ch, by, comments, debug)
      l == PostRun(Loaded(RleStart, text, Stops, Takes))
      dumps == debug /\ (by = "proton" \/ l.lastch # "#")
      last  == [i \in 1 .. l.b |-> [cmd |-> "]", n |-> 1]]
               \o (IF dumps THEN << [cmd |-> "#", n |-> 0] >> ELSE <<>>)
               \o << [cmd |-> IF by = "proton" THEN "X" ELSE "~", n |-> 0] >>
  IN  [l EXCEPT !.posted = @ \o last]

(***************************************************************************)
(* proton.c: outcmd puts a movement in front of every word; sp is where    *)
(* the distances of the open loops go.                                     *)
(***************************************************************************)
ProtonStart == [mem |-> <<>>, imov |-> 0, sp |-> <<>>]

ProtonWords(w, words) == [w EXCEPT !.mem = @ \o <<w.imov>> \o words, !.imov = 0]

ProtonClose(w) ==
  LET u == ProtonWords(w, <<"END">>)
      d == Len(u.mem) + 1 - Last(w.sp)
  IN  IF w.sp = <<>> THEN [u EXCEPT !.mem = Append(@, 0)]
      ELSE [u EXCEPT !.mem = Append([@ EXCEPT ![Last(w.sp)] = d], -d), !.sp = Front(@)]

ProtonCmd(w, e) ==
  CASE e.cmd = ">" -> [w EXCEPT !.imov = @ + e.n]
    [] e.cmd = "<" -> [w EXCEPT !.imov = @ - e.n]
    [] e.cmd = "+" -> ProtonWords(w, <<"ADD", e.n>>)
    [] e.cmd = "-" -> ProtonWords(w, <<"ADD", -e.n>>)
    [] e.cmd = "X" -> ProtonWords(w, <<"STOP">>)
    [] e.cmd = "," -> ProtonWords(w, <<"INP">>)
    [] e.cmd = "." -> ProtonWords(w, <<"PRT">>)
    [] e.cmd = "#" -> ProtonWords(w, <<"DUMP">>)
    [] e.cmd = "[" -> LET u == ProtonWords(w, <<"WHL", 0>>)
                      IN  [u EXCEPT !.sp = Append(@, Len(u.mem))]
    [] e.cmd = "]" -> ProtonClose(w)

ProtonMem(posted) == FoldLeft(ProtonCmd, ProtonStart, posted).mem

\* runprog: n is p.
ProtonStep(mem, v, on_eof) ==
  LET u   == Move(v, mem[v.n])
      cmd == mem[v.n + 1]
      on(w, d) == Goto(w, v.n + d)
  IN  CASE cmd = "STOP" -> Ends(u, "stop")
        [] u.m < 0      -> Ends(u, "range")
        [] cmd = "ADD"  -> on(Store(u, Byte(Cell(u) + mem[v.n + 2])), 3)
        [] cmd = "END"  -> on(u, 3 + (IF Cell(u) # 0 THEN mem[v.n + 2] ELSE 0))
        [] cmd = "WHL"  -> on(u, 3 + (IF Cell(u) = 0 THEN mem[v.n + 2] ELSE 0))
        [] cmd = "DUMP" -> on(Event(u, "dump", u.m), 2)
        [] cmd = "PRT"  -> on(PutChar(u, Cell(u)), 2)
        [] cmd = "INP"  -> on(ReadOr(u, on_eof, Byte), 2)

(***************************************************************************)
(* lightning.c: outrun makes instructions with the pointer in REG_P and a  *)
(* cell in REG_ACC; a cell of ints takes tape_step bytes.  loopstack holds *)
(* the branch of each open loop, and the label behind it.                  *)
(***************************************************************************)
TapeStep(use_int) == IF use_int THEN 2 ELSE 1

JitStart == [code |-> <<>>, loopstack |-> <<>>]

Op(op, x) == [op |-> op, x |-> x]

Emit(w, ops) == [w EXCEPT !.code = @ \o ops]

JitClose(w) ==
  LET loop == Last(w.loopstack)
      u    == Emit(w, << Op("ldr", 0), Op("bnei", loop.label) >>)
  IN  [u EXCEPT !.loopstack = Front(@), !.code[loop.ref].x = Len(u.code) + 1]

JitCmd(w, e, use_int) ==
  CASE e.cmd = ">" -> Emit(w, << Op("addp", e.n * TapeStep(use_int)) >>)
    [] e.cmd = "<" -> Emit(w, << Op("addp", -e.n * TapeStep(use_int)) >>)
    [] e.cmd = "+" -> Emit(w, << Op("ldr", 0), Op("addi", e.n), Op("str", 0) >>)
    [] e.cmd = "-" -> Emit(w, << Op("ldr", 0), Op("addi", -e.n), Op("str", 0) >>)
    [] e.cmd = "[" -> LET u == Emit(w, << Op("ldr", 0), Op("beqi", 0) >>)
                          n == Len(u.code)
                      IN  [u EXCEPT !.loopstack = Append(@, [ref |-> n, label |-> n + 1])]
    [] e.cmd = "]" -> JitClose(w)
    [] e.cmd = "." -> Emit(w, << Op("ldr", 0), Op("putchar", 0) >>)
    [] e.cmd = "," -> LET n == Len(w.code) IN
                      Emit(w, << Op("getchar", 0), Op("beof", n + 4), Op("str", 0) >>)
    [] e.cmd = "~" -> Emit(w, << Op("ret", 0) >>)
    [] OTHER -> w

JitCode(posted, use_int) ==
  FoldLeft(LAMBDA w, e : JitCmd(w, e, use_int), JitStart, posted).code

\* What the instructions do; a byte or an int is stored.
JitMachine(stdin) == Start(stdin) @@ [acc |-> 0]

JitOp(op, v, cell) ==
  CASE op.op = "addp"    -> Move(v, op.x)
    [] op.op = "addi"    -> [v EXCEPT !.acc = @ + op.x]
    [] op.op = "putchar" -> PutChar(v, v.acc)
    [] op.op = "getchar" -> LET r == GetChar(v) IN [r.v EXCEPT !.acc = r.c]
    [] op.op = "ret"     -> Ends(v, "done")
    [] v.m < 0           -> Ends(v, "range")
    [] op.op = "ldr"     -> [v EXCEPT !.acc = Cell(v)]
    [] op.op = "str"     -> Store(v, v.acc % cell)

JitStep(code, v, use_int) ==
  LET op == code[v.n]
      jumps == \/ op.op = "beqi" /\ v.acc = 0
               \/ op.op = "bnei" /\ v.acc # 0
               \/ op.op = "beof" /\ v.acc = EOF
  IN  CASE jumps                             -> Goto(v, op.x)
        [] op.op \in {"beqi", "bnei", "beof"} -> Next1(v)
        [] OTHER -> Next1(JitOp(op, v, 2^(IF use_int THEN IntBits ELSE ByteBits)))

(***************************************************************************)
(* cdowhile.c: the statements outcmd writes, and what they do.  opt has    *)
(* use_int (-w), unix (-unix) and bf (-bf).                                *)
(***************************************************************************)
CStatement(e, opt) ==
  LET s(op, x) == [op |-> op, x |-> x] IN
  CASE e.cmd \in {"+", ">"} -> s(IF e.cmd = "+" THEN "*m +=" ELSE "m +=", e.n)
    [] e.cmd \in {"-", "<"} -> s(IF e.cmd = "-" THEN "*m -=" ELSE "m -=", e.n)
    [] e.cmd = "." -> s("PUTC", 0)
    [] e.cmd = "," -> s("GETC", 0)
    [] e.cmd = "X" -> s("return", 1)
    [] e.cmd = "[" -> s(IF opt.bf THEN "if(*m) do" ELSE "do", 0)
    [] e.cmd = "]" -> s("while", 0)
    [] e.cmd = "~" -> s("return", 0)
    [] OTHER -> s(";", 0)

CProgram(posted, opt) == [i \in DOMAIN posted |-> CStatement(posted[i], opt)]

\* The other end of a statement do.
Opens(s) == s.op \in {"if(*m) do", "do"}

OtherEnd(pgm, n) ==
  LET turn(s) == IF Opens(s) THEN 1 ELSE IF s.op = "while" THEN -1 ELSE 0
      d[i \in 0 .. Len(pgm)] == IF i = 0 THEN 0 ELSE d[i - 1] + turn(pgm[i])
      ends == IF Opens(pgm[n]) THEN {i \in n .. Len(pgm) : d[i] = d[n - 1]}
              ELSE {i \in 1 .. n : d[i - 1] = d[n]}
  IN  IF Opens(pgm[n]) THEN CHOOSE i \in ends : \A j \in ends : i <= j
      ELSE CHOOSE i \in ends : \A j \in ends : i >= j

\* PUTC prints no NUL: an int is looked at as a whole, a char is not.
PutNoNul(v, opt) ==
  LET x == IF opt.unix THEN Byte(Cell(v)) ELSE Cell(v) IN
  IF x = 0 THEN v ELSE PutChar(v, x)

\* read(2) changes one byte of the cell.
GetInto(v, opt) ==
  LET r == GetChar(v)
      keeps == IF opt.unix THEN Cell(v) - Byte(Cell(v)) ELSE 0
  IN  IF r.c = EOF THEN r.v ELSE Store(r.v, keeps + r.c)

CDo(s, v, opt) ==
  LET cell == 2^(IF opt.use_int THEN IntBits ELSE ByteBits) IN
  CASE s.op = "m +=" -> Move(v, s.x)
    [] s.op = "m -=" -> Move(v, -s.x)
    [] s.op = "return" -> Ends(v, IF s.x = 0 THEN "done" ELSE "stop")
    [] s.op \in {"do", ";"} -> v
    [] v.m < 0       -> Ends(v, "range")
    [] s.op = "*m +=" -> Store(v, (Cell(v) + s.x) % cell)
    [] s.op = "*m -=" -> Store(v, (Cell(v) - s.x) % cell)
    [] s.op = "PUTC" -> PutNoNul(v, opt)
    [] s.op = "GETC" -> GetInto(v, opt)
    [] OTHER         -> v

CStep(pgm, v, opt) ==
  LET s == pgm[v.n]
      jumps == \/ s.op = "if(*m) do" /\ Cell(v) = 0
               \/ s.op = "while" /\ Cell(v) # 0
  IN  Next1(CDo(s, IF jumps THEN Goto(v, OtherEnd(pgm, v.n)) ELSE v, opt))
=============================================================================
