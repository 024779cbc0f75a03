------------------------------ MODULE Meaning ------------------------------
(***************************************************************************)
(* What a tree means: the reads and writes of its run under the tree       *)
(* interpreter, and when two trees mean the same.  A run is cut off after  *)
(* a number of steps, so that a program which does not end has a meaning   *)
(* too.                                                                    *)
(***************************************************************************)
EXTENDS BFTree, SequencesExt

LOCAL R == INSTANCE RunTree

\* Halving keeps the recursion shallow.
RECURSIVE RunFor(_, _, _)
RunFor(t, vm, fuel) ==
  IF vm.status # "run" \/ fuel = 0 THEN vm
  ELSE IF fuel = 1 THEN R!Step(t, vm)
  ELSE RunFor(t, RunFor(t, vm, fuel \div 2), fuel - fuel \div 2)

Run(t, tape, stdin, fuel) ==
  RunFor(t, R!Machine(t, tape, R!NoString, stdin), fuel)

\* r.vm runs on; r.met are the states in which it has come to node m.
RECURSIVE Meeting(_, _, _, _)
Meeting(t, m, r, fuel) ==
  IF r.vm.status # "run" \/ fuel = 0 THEN r
  ELSE IF fuel = 1
  THEN [ vm  |-> R!Step(t, r.vm),
         met |-> IF r.vm.n = m THEN r.met \cup {r.vm} ELSE r.met ]
  ELSE Meeting(t, m, Meeting(t, m, r, fuel \div 2), fuel - fuel \div 2)

\* The states in which a run comes to node m.
Passing(t, m, tape, stdin, fuel) ==
  Meeting(t, m, [vm |-> R!Machine(t, tape, R!NoString, stdin), met |-> {}], fuel).met

\* The cell off away from the pointer has the value v.
Holds(vm, off, v) == UM(R!Cell(vm.tape, vm.p + off)) = UM(v)

\* The final tapes agree cell by cell.
SameCells(a, b) ==
  \A x \in DOMAIN a.tape \cup DOMAIN b.tape :
    UM(R!Cell(a.tape, x)) = UM(R!Cell(b.tape, x))

(***************************************************************************)
(* The run new stands for the run old.  If old ended, new ended in the     *)
(* same way after the same reads and writes; for a fragment (whole) the    *)
(* tape and the pointer it leaves are the same as well.  If old was cut    *)
(* off, new has not ended normally and has not gone another way.           *)
(***************************************************************************)
Agrees(old, new, whole) ==
  IF old.status = "run"
  THEN /\ new.status \in {"run", "stop"}
       /\ IsPrefix(old.io, new.io) \/ IsPrefix(new.io, old.io)
  ELSE /\ new.status = old.status
       /\ new.io = old.io
       /\ whole /\ old.status = "done" => new.p = old.p /\ SameCells(old, new)

(***************************************************************************)
(* Trees written as sequences of nodes; brackets find their partners.      *)
(***************************************************************************)

\* The depth after each position; -1 once a bracket closes nothing.
Depths(s) ==
  LET d[i \in 0 .. Len(s)] ==
        IF i = 0 THEN 0
        ELSE LET e == d[i - 1] IN
             IF e < 0 THEN -1
             ELSE e + (CASE s[i].type \in Openers -> 1
                         [] s[i].type \in Closers -> -1
                         [] OTHER -> 0)
  IN  [i \in 0 .. Len(s) |-> d[i]]

IsBalanced(s) == LET d == Depths(s) IN d[Len(s)] = 0 /\ \A i \in DOMAIN s : d[i] >= 0

PartnerOf(s, i) ==
  LET d == Depths(s)
      After  == {j \in i + 1 .. Len(s) : d[j] = d[i] - 1}
      Before == {j \in 1 .. i - 1 : d[j - 1] = d[i]}
  IN  CASE s[i].type \in Openers -> CHOOSE j \in After  : \A k \in After  : j <= k
        [] s[i].type \in Closers -> CHOOSE j \in Before : \A k \in Before : j >= k
        [] OTHER -> Null

TreeOf(s) ==
  [ next |-> [x \in Link   |-> IF x < Len(s) THEN x + 1 ELSE Null],
    prev |-> [x \in NodeId |-> IF x <= Len(s) THEN x - 1 ELSE Null],
    node |-> [x \in NodeId |-> IF x <= Len(s)
                               THEN [s[x] EXCEPT !.jmp = PartnerOf(s, x)]
                               ELSE FreeNode],
    num  |-> Len(s) ]
=============================================================================
