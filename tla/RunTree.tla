------------------------------ MODULE RunTree ------------------------------
(***************************************************************************)
(* run_tree (tritium/bfi.c): the tree interpreter, with getch, getint,     *)
(* putch and putint.  It runs the tree of any stage of the optimiser, and  *)
(* so gives every tree its meaning.  Profiling and tracing are left out.   *)
(*                                                                         *)
(* The tape (map_hugeram) is unbounded: a function from the cells touched  *)
(* so far.  Cells hold ints that are cut to CellBits when they are looked  *)
(* at.  All that can be observed of a run is the sequence io of its reads  *)
(* and writes.                                                             *)
(***************************************************************************)
EXTENDS BFTree

\* Carriage return, which ASCII and UTF-8 input drop.
CR == 13

\* stdin and the -I string are sequences of characters; string.on is
\* input_string != 0.
Machine(t, tape, string, stdin) ==
  [ n |-> t.next[Null], p |-> 0, tape |-> tape,
    string |-> string, stdin |-> stdin, io |-> <<>>,
    status |-> IF t.next[Null] = Null THEN "done" ELSE "run" ]

NoString == [on |-> FALSE, left |-> <<>>]

Cell(tape, a) == IF a \in DOMAIN tape THEN tape[a] ELSE 0

Store(tape, a, v) ==
  [x \in DOMAIN tape \cup {a} |-> IF x = a THEN v ELSE tape[x]]

Fetch(vm, off)    == Cell(vm.tape, vm.p + off)
Put(vm, off, v)   == [vm EXCEPT !.tape = Store(@, vm.p + off, v)]
Event(vm, ev, v)  == [vm EXCEPT !.io = Append(@, [ev |-> ev, val |-> v])]
Halted(vm, how)   == [vm EXCEPT !.status = how, !.n = Null]
NodeOf(t, vm)     == t.node[vm.n]

\* n = n->next at the end of the loop; off the end the run is done.
Onward(t, vm) ==
  IF vm.status # "run" THEN vm
  ELSE IF t.next[vm.n] = Null THEN Halted(vm, "done")
  ELSE [vm EXCEPT !.n = t.next[vm.n]]

(***************************************************************************)
(* Input.  A string given with -I is read first; meeting its end is an end *)
(* of file, and clears input_string.                                       *)
(***************************************************************************)
AtEof(vm, old, off) ==
  CASE eofcell \in {2, 4} -> Put(vm, off, -1)
    [] eofcell = 3        -> Put(vm, off, 0)
    [] eofcell = 7        -> Halted(vm, "exit")
    [] OTHER              -> Put(vm, off, old)

\* What is left of the input when the characters in front that are dropped have
\* been read.
WithoutCR(s) ==
  LET kept == {i \in DOMAIN s : iostyle \in {1, 2} => s[i] # CR} IN
  IF kept = {} THEN <<>>
  ELSE SubSeq(s, CHOOSE i \in kept : \A j \in kept : i <= j, Len(s))

Getch(vm, off) ==
  LET old == Fetch(vm, off)
      s   == WithoutCR(vm.stdin)
  IN  IF vm.string.on
      THEN IF vm.string.left = <<>>
           THEN AtEof(Event([vm EXCEPT !.string.on = FALSE], "eof", 0), old, off)
           ELSE Put(Event([vm EXCEPT !.string.left = Tail(@)],
                          "in", Head(vm.string.left)), off, Head(vm.string.left))
      ELSE IF s = <<>>
           THEN AtEof(Event([vm EXCEPT !.stdin = s], "eof", 0), old, off)
           ELSE Put(Event([vm EXCEPT !.stdin = Tail(s)], "in", Head(s)), off, Head(s))

Getint(vm, off) ==
  IF vm.stdin = <<>>
  THEN Event(vm, "eof", 0)
  ELSE Put(Event([vm EXCEPT !.stdin = Tail(@)], "in", Head(vm.stdin)),
           off, UM(Head(vm.stdin)))

\* putch: the code point in UTF-8 mode, a byte otherwise.
Char(ch)      == IF iostyle = 1 THEN UM(ch) ELSE UM(ch) % 256
Putch(vm, ch) == Event(vm, "out", Char(ch))

Putint(vm, v) == Event(vm, "int", UM(v))

(***************************************************************************)
(* One operator per case of the switch; n->next is taken by Step.          *)
(***************************************************************************)
Exec(t, vm) ==
  LET nd  == NodeOf(t, vm)
      off == nd.offset
      B   == Fetch(vm, nd.offset2)
      C   == Fetch(vm, nd.offset3)
  IN CASE nd.type = "MOV"      -> [vm EXCEPT !.p = @ + nd.count]
       [] nd.type = "ADD"      -> Put(vm, off, Fetch(vm, off) + nd.count)
       [] nd.type = "SET"      -> Put(vm, off, nd.count)
       [] nd.type = "CALC"     -> Put(vm, off, nd.count + nd.count2 * B + nd.count3 * C)
       [] nd.type = "CALCMULT" -> Put(vm, off, nd.count + nd.count2 * B * nd.count3 * C)
       [] nd.type = "LT"       -> Put(vm, off, Fetch(vm, off) + (IF UM(B) < UM(C) THEN 1 ELSE 0))
       [] nd.type = "DIV"      ->
            LET a == UM(Fetch(vm, off))
                b == UM(Fetch(vm, off + 1))
                ab == Put(Put(vm, off, a), off + 1, b)
            IN  IF b # 0 THEN Put(Put(ab, off + 2, a % b), off + 3, a \div b)
                         ELSE Put(Put(ab, off + 2, a), off + 3, 0)
       [] nd.type \in Openers  ->
            IF UM(Fetch(vm, off)) = 0 THEN [vm EXCEPT !.n = nd.jmp] ELSE vm
       [] nd.type = "END"      ->
            IF UM(Fetch(vm, off)) # 0 THEN [vm EXCEPT !.n = nd.jmp] ELSE vm
       [] nd.type = "CHR"      -> Putch(vm, nd.count)
       [] nd.type = "PRT"      -> Putch(vm, Fetch(vm, off))
       [] nd.type = "INP"      -> Getch(vm, off)
       [] nd.type = "PRTI"     -> Putint(vm, Fetch(vm, off))
       [] nd.type = "INPI"     -> Getint(vm, off)
       [] nd.type = "STOP"     -> Halted(vm, "stop")
       [] nd.type = "DUMP"     -> Event(vm, "dump", vm.p + off)
       [] nd.type \in {"ENDIF", "NOP"} -> vm
       [] OTHER                -> Halted(vm, "bad")

\* Wrong on purpose: the end of a loop goes back without a test.
StepBackAlways(t, vm) ==
  IF NodeOf(t, vm).type = "END"
  THEN Onward(t, [vm EXCEPT !.n = NodeOf(t, vm).jmp])
  ELSE Onward(t, Exec(t, vm))

Step(t, vm) == Onward(t, Exec(t, vm))

\* The machine after k turns of the loop, or when it has stopped.
Turn(t, vm) == IF vm.status = "run" THEN Step(t, vm) ELSE vm

Turns(t, start, k) ==
  LET vm[i \in 0 .. k] == IF i = 0 THEN start ELSE Turn(t, vm[i - 1])
  IN  vm[k]

\* Movements neither read nor write.  The machine past those it stands before:
\* there are no more than there are nodes.
AtRest(t, vm) == vm.status = "run" => NodeOf(t, vm).type # "MOV"

Movement(t, vm) == IF AtRest(t, vm) THEN vm ELSE Step(t, vm)

Moved(t, start) ==
  LET vm[i \in 0 .. MaxNode] == IF i = 0 THEN start ELSE Movement(t, vm[i - 1])
  IN  IF AtRest(t, start) THEN start ELSE vm[MaxNode]

\* The machine before its next command, k commands on.
Commands(t, start, k) ==
  LET vm[i \in 0 .. k] ==
        IF i = 0 THEN Moved(t, start) ELSE Moved(t, Turn(t, vm[i - 1]))
  IN  vm[k]
=============================================================================
