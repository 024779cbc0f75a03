----------------------------- MODULE OptRunner -----------------------------
(***************************************************************************)
(* -Orun (tritium/opt_runner.c): the program is run while it is compiled,  *)
(* up to the first loop that reads and is entered, and what has been run   *)
(* is replaced by its output and by code that sets up its tape.            *)
(*                                                                         *)
(* A T_SUSP node in the list marks how far to run.  The list that is to    *)
(* replace the prefix grows beside the program, from opt_run.start, in the *)
(* same pool of nodes.  A T_STR is the sequence of T_CHR it stands for.    *)
(***************************************************************************)
EXTENDS BFTree, FiniteSetsExt

CONSTANTS
  opt_no_litprt,   \* -fno-litprt: characters are set in a cell to be printed
  OptTrees         \* the trees the pass may be given

\* T_DIV writes three cells of which the trial run does not take note: programs
\* that have one are left out.  The list is whole, as every pass before this one
\* leaves it, and what has not been allocated is linked to nothing.
ASSUME OptAssumption ==
  /\ opt_no_litprt \in BOOLEAN
  /\ \A t \in OptTrees :
       /\ t \in Tree
       /\ WellFormed(t) /\ Complete(t) /\ Nested(t)
       /\ \A x \in NodeId : t.node[x].type # "DIV" /\ (x > t.num => t.next[x] = Null)

VARIABLES
  tree,
  vm,        \* the trial run; nothing is read or written in it
  opt_run,   \* the ends of the list that replaces the prefix
  profile,   \* the lowest and the highest cell touched
  phase      \* "try" before the run, then "run", "over"; "error" for exit(1)

vars == <<tree, vm, opt_run, profile, phase>>

\* orgtype is T_WHL or T_END for every kind of bracket.
R == INSTANCE RunTree

UCSMAX == 1114111

SM(v)    == LET u == UM(v) IN IF u < 2^(CellBits - 1) THEN u ELSE u - 2^CellBits
SChar(v) == ((v + 128) % 256) - 128

(***************************************************************************)
(* Where T_SUSP goes: behind the last node outside of the loops, of those  *)
(* from x on that come before the first one of a type in stops.  lp is the *)
(* depth in front of x.                                                    *)
(***************************************************************************)
LastOutside(t, x, lp, stops) ==
  LET w         == Walk(t)
      from      == CHOOSE i \in DOMAIN w : w[i] = x
      type(i)   == t.node[w[i]].type
      stopped   == {i \in from .. Len(w) : type(i) \in stops}
      to        == IF stopped = {} THEN Len(w) ELSE Min(stopped) - 1
      opened(i) == {k \in from .. i - 1 : type(k) \in Openers}
      closed(i) == {k \in from .. i : type(k) \in Closers}
      outside   == {i \in from .. to : /\ type(i) \notin Openers
                                       /\ lp + Cardinality(opened(i)) = Cardinality(closed(i))}
  IN  IF x = Null \/ outside = {} THEN Null ELSE w[Max(outside)]

Suspended(t, x) == AddNodeAfter(t, x, Blank("SUSP"))

NoRun == [start |-> Null, end |-> Null]

Init ==
  /\ tree \in OptTrees
  /\ vm = R!Machine(tree, <<>>, R!NoString, <<>>)
  /\ opt_run = NoRun
  /\ profile = [min |-> 0, max |-> 0]
  /\ phase = "try"

\* try_opt_runner.  The new list begins with a T_NOP to append to.
TryOptRunner ==
  /\ phase = "try"
  /\ LET x == LastOutside(tree, tree.next[Null], 0, {"INP", "INPI", "PRTI"})
         t == Suspended(tree, x)
         s == t.num + 1
     IN  IF x = Null
         THEN phase' = "over" /\ UNCHANGED <<tree, opt_run>>
         ELSE /\ HasRoomFor(tree, 2)
              /\ tree' = [t EXCEPT !.num = s, !.node[s] = Blank("NOP")]
              /\ opt_run' = [start |-> s, end |-> s]
              /\ phase' = "run"
  /\ UNCHANGED <<vm, profile>>

(***************************************************************************)
(* run_tree_noinp.                                                         *)
(***************************************************************************)
nd == tree.node[vm.n]

Running(types) == phase = "run" /\ vm.n \in NodeId /\ nd.type \in types

Widened(pr, a) ==
  [min |-> IF a < pr.min THEN a ELSE pr.min, max |-> IF a > pr.max THEN a ELSE pr.max]

\* Wrong on purpose: the pointer is taken to stay where it was at first.
TouchedAtOffset(x) == IF x.type = "MOV" THEN profile ELSE Widened(profile, x.offset)

\* Every instruction but a movement touches the cell at its offset.
Touched(x) == IF x.type = "MOV" THEN profile ELSE Widened(profile, vm.p + x.offset)

\* The operands of the calculations are taken into account when they count.
TouchedOperands(x) ==
  LET a == Touched(x)
      b == IF x.count2 # 0 THEN Widened(a, vm.p + x.offset2) ELSE a
  IN  IF x.count3 # 0 THEN Widened(b, vm.p + x.offset3) ELSE b

RunCell ==
  /\ Running({"MOV", "ADD", "SET", "DIV", "NOP"} \cup Bracket)
  /\ vm' = R!Step(tree, vm)
  /\ profile' = Touched(nd)
  /\ UNCHANGED <<tree, opt_run, phase>>

RunCalc ==
  /\ Running({"CALC", "CALCMULT", "LT"})
  /\ vm' = R!Step(tree, vm)
  /\ profile' = TouchedOperands(nd)
  /\ UNCHANGED <<tree, opt_run, phase>>

\* A dump is dropped.
RunDump ==
  /\ Running({"DUMP"})
  /\ vm' = R!Onward(tree, vm)
  /\ profile' = Touched(nd)
  /\ UNCHANGED <<tree, opt_run, phase>>

\* t with the nodes of s linked behind x, the last one of its list, one by one.
Chained(t, x, s) ==
  LET last == t.num + Len(s)
      new  == t.num + 1 .. last
  IN  IF s = <<>> THEN t
      ELSE [ next |-> [y \in Link   |-> IF y = x THEN t.num + 1
                                       ELSE IF y \in new \ {last} THEN y + 1 ELSE t.next[y]],
             prev |-> [y \in NodeId |-> IF y \in new THEN (IF y = t.num + 1 THEN x ELSE y - 1)
                                       ELSE t.prev[y]],
             node |-> [y \in NodeId |-> IF y \in new THEN s[y - t.num] ELSE t.node[y]],
             num  |-> last ]

LastOf(t, x, s) == IF s = <<>> THEN x ELSE t.num + Len(s)

\* What printing c becomes: a character, or a cell that is set and printed.
Recorded(c) ==
  IF opt_no_litprt THEN <<At("SET", c, 0), Blank("PRT")>>
  ELSE IF iostyle = 1 /\ c \in 128 .. UCSMAX THEN <<At("CHR", c, 0)>>
  ELSE <<At("CHR", SChar(c), 0)>>

RunOutput ==
  /\ Running({"PRT", "CHR"})
  /\ LET c == IF nd.type = "PRT" THEN UM(R!Fetch(vm, nd.offset)) ELSE nd.count
         s == Recorded(c)
     IN  /\ HasRoomFor(tree, Len(s))
         /\ tree' = Chained(tree, opt_run.end, s)
         /\ opt_run' = [opt_run EXCEPT !.end = LastOf(tree, opt_run.end, s)]
  /\ vm' = R!Onward(tree, vm)
  /\ profile' = Touched(nd)
  /\ UNCHANGED phase

\* "Trial run execution error": there is no case for T_PRTI, which a T_SUSP
\* that has been moved leaves in the part to be run.
RunBadNode ==
  /\ Running({"PRTI", "INP", "INPI"})
  /\ phase' = "error"
  /\ profile' = Touched(nd)
  /\ UNCHANGED <<tree, vm, opt_run>>

(***************************************************************************)
(* update_opt_runner, at T_SUSP for the node x behind it and at T_STOP.    *)
(***************************************************************************)
\* Wrong on purpose: the mark is never moved.
DeadNever(x) == FALSE

Dead(x) ==
  /\ x # Null
  /\ tree.node[x].type \in Openers
  /\ UM(R!Fetch(vm, tree.node[x].offset)) = 0

\* Wrong on purpose: the run goes on at the T_SUSP it has met.
SuspensionMetAgain(x) ==
  /\ HasRoomFor(tree, 1)
  /\ tree' = Suspended(tree, LastOutside(tree, tree.node[x].jmp, 1, {"INP", "INPI", "STOP"}))
  /\ UNCHANGED <<vm, opt_run, phase>>

\* The loop is not entered: T_SUSP is moved on, and the run goes on.
MoveSuspension(x) ==
  /\ HasRoomFor(tree, 1)
  /\ tree' = Suspended(tree, LastOutside(tree, tree.node[x].jmp, 1, {"INP", "INPI", "STOP"}))
  /\ vm' = [vm EXCEPT !.n = x]
  /\ UNCHANGED <<opt_run, phase>>

\* The nodes in front of x are freed; the prev of x is left as it is.
WithoutPrefix(t, x) ==
  LET w    == Walk(t)
      gone == {w[i] : i \in {j \in DOMAIN w : \A k \in 1 .. j : w[k] # x}}
  IN  Edit(t, [y \in Link   |-> IF y = Null THEN x ELSE IF y \in gone THEN Null ELSE t.next[y]],
              [y \in NodeId |-> IF y \in gone THEN Null ELSE t.prev[y]],
              [y \in NodeId |-> IF y \in gone THEN FreeNode ELSE t.node[y]])

\* Code for the cells that are not blank among those given, from the lowest up.
CellsAsCode(among) ==
  LET cells  == {a \in among : UM(R!Cell(vm.tape, a)) # 0}
      nth(i) == CHOOSE a \in cells : Cardinality({b \in cells : b <= a}) = i
      set(a) == LET v == R!Cell(vm.tape, a) IN At("SET", IF CellBits = 8 THEN UM(v) ELSE SM(v), a)
  IN  [i \in 1 .. Cardinality(cells) |-> set(nth(i))]

\* Wrong on purpose: the cells below the starting point are forgotten.
TapeFromZero(pr) == CellsAsCode(0 .. pr.max)

TapeAsCode(pr) == CellsAsCode(pr.min .. pr.max)

PointerAsCode == IF vm.p = 0 THEN <<>> ELSE <<At("MOV", vm.p, 0)>>

\* Wrong on purpose: the rest of the program does not point back to the list.
JoinedOneWay(t, start, end) ==
  IF start = Null THEN t
  ELSE [t EXCEPT !.next = [t.next EXCEPT ![end] = t.next[Null], ![Null] = start]]

\* The list that begins at start takes its place in front of the program.
Joined(t, start, end) ==
  LET rest == t.next[Null] IN
  IF start = Null THEN t
  ELSE Edit(t, [t.next EXCEPT ![end] = rest, ![Null] = start],
               SetPrev(t.prev, rest, end), t.node)

\* The first node of the new list, a T_NOP, is dropped.
WithoutNop(t, x) ==
  LET y == t.next[x] IN Freed(Edit(t, t.next, SetPrev(t.prev, y, Null), t.node), x)

ReplacePrefix(x, pr) ==
  LET stop  == x # Null /\ tree.node[x].type = "STOP"
      rest  == IF stop THEN Null ELSE x
      code  == IF stop THEN <<Blank("STOP")>>
               ELSE IF rest = Null THEN <<>>
               ELSE TapeAsCode(pr) \o PointerAsCode
      empty == tree.next[opt_run.start] = Null /\ code = <<>>
      clear == IF opt_no_litprt /\ rest # Null /\ ~empty THEN <<Blank("SET")>> ELSE <<>>
      full  == Chained(WithoutPrefix(tree, rest), opt_run.end, code \o clear)
      start == full.next[opt_run.start]
      end   == LastOf(tree, opt_run.end, code \o clear)
  IN  /\ HasRoomFor(tree, Len(code \o clear))
      /\ tree' = Joined(WithoutNop(full, opt_run.start), start, end)
      /\ opt_run' = [start |-> start, end |-> end]
      /\ phase' = "over"
      /\ UNCHANGED vm

UpdateOptRunner ==
  /\ Running({"SUSP", "STOP"})
  /\ LET x  == IF nd.type = "SUSP" THEN tree.next[vm.n] ELSE vm.n
         pr == Touched(nd)
     IN  /\ profile' = pr
         /\ IF Dead(x) THEN MoveSuspension(x) ELSE ReplacePrefix(x, pr)

Step ==
  \/ TryOptRunner
  \/ RunCell \/ RunCalc \/ RunDump \/ RunOutput \/ RunBadNode
  \/ UpdateOptRunner

Next == Step \/ (phase \in {"over", "error"} /\ UNCHANGED vars)

Spec == Init /\ [][Next]_vars

(***************************************************************************)
(* Properties.                                                             *)
(***************************************************************************)

\* The cells the run has written lie between the lowest and the highest one
\* that were noted, so that no cell is left out of the code for the tape.
ProfileCovers ==
  phase = "run" =>
    \A a \in DOMAIN vm.tape : UM(vm.tape[a]) # 0 => a \in profile.min .. profile.max

\* Once the pass is over the list is whole: nothing of the prefix is left in
\* it, no node is lost, and every link back is right.  (When the prefix leaves
\* nothing behind, the head of what remains still points back to a freed node.)
ListSound ==
  phase = "over" =>
    LET t == [tree EXCEPT !.prev = SetPrev(tree.prev, tree.next[Null], Null)] IN
    DoublyLinked(t) /\ BracketsPaired(t) /\ Complete(t) /\ Nested(t)

\* The first node of the program that is left, behind the list that replaces
\* its prefix.
FirstLeft == tree.next[IF opt_run.start = Null THEN Null ELSE opt_run.end]

\* A T_PRTI and a T_STOP stop the trial run as a read does.
Stopper(x) == tree.node[x].type \in {"INP", "INPI", "PRTI", "STOP"}

\* A loop with a node in it that stops the trial run.
HoldsStopper(x) ==
  LET w == Walk(tree) IN
  /\ tree.node[x].type \in Openers
  /\ \E i, j, k \in DOMAIN w :
       i < j /\ j < k /\ w[i] = x /\ Stopper(w[j]) /\ w[k] = tree.node[x].jmp

\* "runs the optimised tree until it finds a loop containing an input
\* instruction" (opt_runner.c:22): what is left begins with a read, or with a
\* loop that holds one and, if the program has been run up to there, is entered.
NothingLeftToRun ==
  phase = "over" =>
    LET x == FirstLeft IN
    x # Null =>
      \/ Stopper(x)
      \/ HoldsStopper(x) /\ (opt_run # NoRun => UM(R!Fetch(vm, tree.node[x].offset)) # 0)
=============================================================================
