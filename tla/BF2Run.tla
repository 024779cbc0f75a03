------------------------------- MODULE BF2Run -------------------------------
(***************************************************************************)
(* bf2run.c: a backend of bf2any that runs the program itself.  gen_code   *)
(* stores each command as two or three ints in mem, and writes over them   *)
(* when a ']' ends one of three kinds of loop; runprog executes mem.       *)
(*                                                                         *)
(* g is the state of gen_code: mem, imov, prevtk (its last two tokens) and *)
(* sp, the stack of loops.  mptr is the end of mem.                        *)
(***************************************************************************)
EXTENDS Integers, SequencesExt

CONSTANTS
  TapeLen      \* tapelen, the cells from the start of the tape on

\* TOKEN_LIST, numbered as the enum is.
T == [ STOP |-> 0, ADD |-> 1, PRT |-> 2, INP |-> 3, WHL |-> 4, END |-> 5, SET |-> 6,
       BEG |-> 7, MUL |-> 8, MUL1 |-> 9, SETNV |-> 10, MULV |-> 11, DIVV |-> 12,
       MODV |-> 13, SETV |-> 14, ZFIND |-> 15, RAILC |-> 16, RAILZ |-> 17, CHR |-> 18,
       DUMP |-> 19, NOP |-> 20 ]

GenStart == [mem |-> <<>>, imov |-> 0, prevtk |-> <<0, 0>>, sp |-> <<>>]

\* mptr[-k]
Back(g, k) == g.mem[Len(g.mem) - k + 1]

Emit(g, seq) == [g EXCEPT !.mem = @ \o seq]

Remember(g, t, specials) ==
  IF specials THEN [g EXCEPT !.prevtk = <<@[2], t>>] ELSE g

\* The commands that become one token, with what follows it.
Simple(c) ==
  CASE c.cmd = "=" -> <<T.SET, c.n>>    [] c.cmd = "B" -> <<T.BEG>>
    [] c.cmd = "M" -> <<T.MUL, c.n>>    [] c.cmd = "N" -> <<T.MUL, -c.n>>
    [] c.cmd = "S" -> <<T.MUL1>>        [] c.cmd = "T" -> <<T.MUL, -1>>
    [] c.cmd = "*" -> <<T.MULV>>        [] c.cmd = "/" -> <<T.DIVV>>
    [] c.cmd = "%" -> <<T.MODV>>
    [] c.cmd = "C" -> <<T.SETNV, c.n>>  [] c.cmd = "D" -> <<T.SETNV, -c.n>>
    [] c.cmd = "V" -> <<T.SETV>>        [] c.cmd = "W" -> <<T.SETNV, -1>>
    [] c.cmd = "+" -> <<T.ADD, c.n>>    [] c.cmd = "-" -> <<T.ADD, -c.n>>
    [] c.cmd = "X" -> <<T.STOP>>        [] c.cmd = "," -> <<T.INP>>
    [] c.cmd = "." -> <<T.PRT>>         [] c.cmd = "#" -> <<T.DUMP>>
    [] c.cmd = "~" -> <<T.STOP>>
    [] OTHER -> <<>>

\* *mptr++ = imov; imov = 0;
Moved(g) == [Emit(g, <<g.imov>>) EXCEPT !.imov = 0]

\* A loop or an if: the place of its jump is remembered.
Enter(g, specials) ==
  LET w == Emit(Moved(g), <<T.WHL, 0>>) IN
  Remember([w EXCEPT !.sp = Append(@, Len(w.mem))], T.WHL, specials)

Pop(g) == [g EXCEPT !.sp = Front(@)]

\* 'E': without a move before it the NOP is dropped again.
EndIf(g) ==
  LET kept == g.imov # 0
      w    == Emit(Moved(g), <<T.NOP>>)
      id   == Last(w.sp)
      end  == IF kept THEN Len(w.mem) ELSE Len(w.mem) - 2
      j    == [w EXCEPT !.mem[id] = end - id]
  IN  Pop(IF kept THEN j ELSE [j EXCEPT !.mem = SubSeq(@, 1, Len(@) - 2)])

\* mptr -= k, after storing op and arg k+2 and k+1 ints from the end.
Overwrite(g, k, op, arg) ==
  [g EXCEPT !.mem = SubSeq(@, 1, Len(@) - k - 2) \o <<op, arg>>]

\* Wrong on purpose: any addition before the move is taken for a decrement.
SpecialisedAnyAdd(g) ==
  IF g.prevtk = <<T.WHL, T.ADD>> /\ Back(g, 6) = 0 /\ Back(g, 3) # 0
  THEN Overwrite(g, 6, T.RAILC, Back(g, 3))
  ELSE g

\* The loops [<<<], [-<<<] and [[-]<<<] become a token of their own.
Specialised(g) ==
  LET moves == Back(g, 3) # 0 IN
  IF g.prevtk[2] = T.WHL /\ moves
  THEN Overwrite(g, 3, T.ZFIND, Back(g, 3))
  ELSE IF g.prevtk = <<T.WHL, T.ADD>> /\ Back(g, 4) = -1 /\ Back(g, 6) = 0 /\ moves
  THEN Overwrite(g, 6, T.RAILC, Back(g, 3))
  ELSE IF g.prevtk = <<T.WHL, T.SET>> /\ Back(g, 4) = 0 /\ Back(g, 6) = 0 /\ moves
  THEN Overwrite(g, 6, T.RAILZ, Back(g, 3))
  ELSE g

\* ']': both ends of the loop get their jumps.
EndLoop(g, specials) ==
  LET w  == Emit(Moved(g), <<T.END>>)
      id == Last(w.sp)
      d  == Len(w.mem) + 1 - id
      j  == Pop(Emit([w EXCEPT !.mem[id] = d], <<-d>>))
  IN  Remember(Specialised(j), T.END, specials)

Characters(str) == FlattenSeq([i \in DOMAIN str |-> <<0, T.CHR, str[i]>>])

(***************************************************************************)
(* gen_code for one command; specials is enable_optim, without which the   *)
(* tokens are not remembered.                                              *)
(***************************************************************************)
GenCode(g, c, specials) ==
  CASE c.cmd = ">" -> [g EXCEPT !.imov = @ + c.n]
    [] c.cmd = "<" -> [g EXCEPT !.imov = @ - c.n]
    [] c.cmd = "quote" -> Emit(g, Characters(c.str))
    [] c.cmd \in {"[", "I"} -> Enter(g, specials)
    [] c.cmd = "]" -> EndLoop(g, specials)
    [] c.cmd = "E" -> EndIf(g)
    [] Simple(c) # <<>> -> Remember(Emit(Moved(g), Simple(c)), Simple(c)[1], specials)
    [] OTHER -> g

Generated(code, specials) ==
  FoldLeft(LAMBDA g, c : GenCode(g, c, specials), GenStart, code).mem

(***************************************************************************)
(* debugprog, which is runprog with a check that the pointer stays on the  *)
(* tape.  bits is the width of a cell, margin is tapeinit.                 *)
(***************************************************************************)
Start(stdin) ==
  [ p |-> 0, mp |-> 0, tape |-> <<>>, a |-> 1, stdin |-> stdin, io |-> <<>>,
    status |-> "run" ]

Cell(v)       == IF v.mp \in DOMAIN v.tape THEN v.tape[v.mp] ELSE 0
Put(v, x, bits) ==
  [v EXCEPT !.tape = [y \in DOMAIN @ \cup {v.mp} |->
                        IF y = v.mp THEN x % 2^bits ELSE @[y]]]
Event(v, ev, x) == [v EXCEPT !.io = Append(@, [ev |-> ev, val |-> x])]

\* A remembered zero allows the pointer to stand left of the tape.
OffTape(v, margin) == v.mp >= TapeLen \/ (v.mp < 0 /\ (v.a # 0 \/ v.mp < -margin))

\* A search for a zero cell; step is what is done to the cells on the way.
RECURSIVE Sliding(_, _, _, _, _)
Sliding(v, d, how, bits, fuel) ==
  LET w == CASE how = T.ZFIND -> v
             [] how = T.RAILC -> Put(v, Cell(v) - 1, bits)
             [] how = T.RAILZ -> Put(v, 0, bits)
  IN  IF Cell(v) = 0 \/ fuel = 0 THEN v
      ELSE Sliding([w EXCEPT !.mp = @ + d], d, how, bits, fuel - 1)

Input(v, bits) ==
  IF v.stdin = <<>> THEN Event(v, "eof", 0)
  ELSE Put(Event([v EXCEPT !.stdin = Tail(@)], "in", Head(v.stdin)),
           Head(v.stdin), bits)

\* dumpmem: the pointer and the cells that are not zero.
Shown(v) == [at |-> v.mp, cells |-> {<<x, v.tape[x]>> : x \in {y \in DOMAIN v.tape :
                                        y >= 0 /\ v.tape[y] # 0}}]

\* The switch; bytes is the width of what putchar writes.
Exec(mem, v, bits, bytes) ==
  LET op      == mem[v.p + 2]
      arg     == mem[v.p + 3]
      c       == Cell(v)
      skip(n, w) == [w EXCEPT !.p = @ + n]
      jump    == skip(arg + 3, v)
  IN CASE op = T.ADD   -> skip(3, Put(v, c + arg, bits))
       [] op = T.SET   -> skip(3, Put(v, arg, bits))
       [] op = T.END   -> IF c # 0 THEN jump ELSE skip(3, v)
       [] op = T.WHL   -> IF c = 0 THEN jump ELSE skip(3, v)
       [] op = T.BEG   -> skip(2, [v EXCEPT !.a = c])
       [] op = T.MUL1  -> skip(2, Put(v, c + v.a, bits))
       [] op = T.MULV  -> skip(2, Put(v, c * v.a, bits))
       [] op = T.SETV  -> skip(2, Put(v, v.a, bits))
       [] op = T.DIVV /\ v.a # 0 -> skip(2, Put(v, c \div v.a, bits))
       [] op = T.MODV /\ v.a # 0 -> skip(2, Put(v, c % v.a, bits))
       [] op = T.MUL   -> skip(3, Put(v, c + arg * v.a, bits))
       [] op = T.SETNV -> skip(3, Put(v, arg * v.a, bits))
       [] op \in {T.ZFIND, T.RAILC, T.RAILZ} -> skip(3, Sliding(v, arg, op, bits, 2 * TapeLen))
       [] op = T.PRT   -> skip(2, Event(v, "out", c % 2^bytes))
       [] op = T.CHR   -> skip(3, Event(v, "out", arg % 2^bytes))
       [] op = T.INP   -> skip(2, Input(v, bits))
       [] op = T.DUMP  -> skip(2, Event(v, "dump", Shown(v)))
       [] op = T.NOP   -> skip(2, v)
       \* The last STOP is the end of the program; others are infinite loops.
       [] op = T.STOP  -> [v EXCEPT !.status = IF v.p + 2 = Len(mem) THEN "done" ELSE "stop"]
       [] OTHER        -> [v EXCEPT !.status = "bad"]

RunStep(mem, v, bits, bytes, margin) ==
  LET w == [v EXCEPT !.mp = @ + mem[v.p + 1]] IN
  IF v.p + 2 > Len(mem) THEN [v EXCEPT !.status = "bad"]
  ELSE IF OffTape(w, margin) THEN [v EXCEPT !.status = "exit"]
  ELSE Exec(mem, w, bits, bytes)

RECURSIVE RunFor(_, _, _, _, _, _)
RunFor(mem, v, bits, bytes, margin, fuel) ==
  IF fuel = 0 \/ v.status # "run" THEN v
  ELSE RunFor(mem, RunStep(mem, v, bits, bytes, margin), bits, bytes, margin, fuel - 1)
=============================================================================
