---------------------------- MODULE PointerRegen ---------------------------
(***************************************************************************)
(* pointer_regen (tritium/bfi.c): the inverse of pointer_scan, for code    *)
(* generators that want loops to test the cell under the pointer.  It      *)
(* walks the list once, keeping the distance current_shift by which the    *)
(* regenerated movements are ahead of the offsets, and moves the pointer   *)
(* in front of every bracket whose offset differs.                         *)
(***************************************************************************)
EXTENDS RunTree

CONSTANTS
  opt_regen_mov,   \* -fno-loop-offset is 1, the default -1
  ShortMin,        \* offsets from ShortMin to ShortMax are never worth it:
  ShortMax,        \*   -128 and 1023
  RegenTrees,      \* the trees the pass may be given
  Tapes,           \* the tapes a program may start with, its input and the
  Stdin,           \*   number of turns it is run for: only the properties
  Fuel             \*   speak of them

ASSUME RegenAssumption ==
  /\ opt_regen_mov \in {-1, 1} /\ ShortMin \in Int /\ ShortMax \in Int
  /\ \A t \in RegenTrees :
       t \in Tree /\ WellFormed(t) /\ Complete(t) /\ Factors(t)

ASSUME InputAssumption ==
  /\ \A tape \in Tapes : \A a \in DOMAIN tape : tape[a] \in Int
  /\ Stdin \in Seq(Int) /\ Fuel \in Nat

VARIABLES
  tree, n,
  current_shift,
  pass,           \* "stats" before the statistics are taken, then "walk" and
                  \*   "over", or "skipped"
  given           \* the tree before the pass, for the properties

vars == <<tree, n, current_shift, pass, given>>

Init ==
  /\ tree \in RegenTrees
  /\ given = tree
  /\ n = Null
  /\ current_shift = 0
  /\ pass = "stats"

\* calculate_stats: what is needed of it.
Moves(t)    == {x \in NodeId : t.node[x].type = "MOV"}
Offsets(t)  == {0} \cup {t.node[x].offset : x \in {y \in NodeId : Live(t, y)} \ Moves(t)}
                   \cup {t.node[x].offset + 3 : x \in {y \in NodeId : t.node[y].type = "DIV"}}

WorthIt(t) ==
  \/ opt_regen_mov = 1
  \/ /\ Moves(t) # {}
     /\ \E o \in Offsets(t) : o < ShortMin \/ o > ShortMax

TakeStats ==
  /\ pass = "stats"
  /\ n' = IF WorthIt(tree) THEN tree.next[Null] ELSE Null
  /\ pass' = IF ~WorthIt(tree) THEN "skipped"
             ELSE IF tree.next[Null] = Null THEN "over" ELSE "walk"
  /\ UNCHANGED <<tree, current_shift>>

Walking(types) == pass = "walk" /\ tree.node[n].type \in types

\* n = n->next
GoesOn(t) ==
  /\ n' = t.next[n]
  /\ pass' = IF t.next[n] = Null THEN "over" ELSE pass

\* Wrong on purpose: the movement in front is replaced, not lengthened.
MovedUpAnew(t, x, d) ==
  LET v == t.prev[x] IN
  IF v # Null /\ t.node[v].type = "MOV"
  THEN [t EXCEPT !.node[v].count = d]
  ELSE AddNodeAfter(t, v, At("MOV", d, 0))

\* The pointer must be where the loop tests: lengthen the movement in front
\* of it or insert one.
MovedUpTo(t, x, d) ==
  LET v == t.prev[x] IN
  IF v # Null /\ t.node[v].type = "MOV"
  THEN [t EXCEPT !.node[v].count = @ + d]
  ELSE AddNodeAfter(t, v, At("MOV", d, 0))

\* Wrong on purpose: a bracket keeps what the pointer was moved up by.
RegenBracketLate ==
  /\ Walking(Bracket \cup {"DUMP", "STOP"})
  /\ LET off == tree.node[n].offset
         t == IF off = current_shift THEN tree
              ELSE MovedUpTo(tree, n, off - current_shift)
     IN  /\ off # current_shift => HasRoomFor(tree, 1)
         /\ current_shift' = off
         /\ tree' = [t EXCEPT !.node[n].offset = off - current_shift]
         /\ GoesOn(t)

RegenBracket ==
  /\ Walking(Bracket \cup {"DUMP", "STOP"})
  /\ LET off == tree.node[n].offset
         t == IF off = current_shift THEN tree
              ELSE MovedUpTo(tree, n, off - current_shift)
     IN  /\ off # current_shift => HasRoomFor(tree, 1)
         /\ current_shift' = off
         /\ tree' = [t EXCEPT !.node[n].offset = 0]
         /\ GoesOn(t)

RegenCommand ==
  /\ Walking(Simple \ {"DUMP", "STOP"})
  /\ tree' = [tree EXCEPT !.node[n].offset = @ - current_shift]
  /\ GoesOn(tree)
  /\ UNCHANGED current_shift

RegenCalc ==
  LET nd == tree.node[n] IN
  /\ Walking(Calc)
  /\ tree' = [tree EXCEPT !.node[n] =
       [nd EXCEPT !.offset  = nd.offset - current_shift,
                  !.offset2 = nd.offset2 - IF nd.count2 # 0 THEN current_shift ELSE 0,
                  !.offset3 = nd.offset3 - IF nd.count3 # 0 THEN current_shift ELSE 0]]
  /\ GoesOn(tree)
  /\ UNCHANGED current_shift

\* Wrong on purpose: the shift a movement has taken up is kept.
RegenMovKeepsShift ==
  /\ Walking({"MOV"})
  /\ tree' = [tree EXCEPT !.node[n].count = @ - current_shift]
  /\ GoesOn(tree)
  /\ UNCHANGED current_shift

RegenMov ==
  /\ Walking({"MOV"})
  /\ tree' = [tree EXCEPT !.node[n].count = @ - current_shift]
  /\ current_shift' = 0
  /\ GoesOn(tree)

RegenStep ==
  TakeStats \/ RegenBracket \/ RegenCommand \/ RegenCalc \/ RegenMov

Next ==
  /\ RegenStep \/ (pass \in {"over", "skipped"} /\ UNCHANGED <<tree, n, current_shift, pass>>)
  /\ UNCHANGED given

Spec == Init /\ [][Next]_vars

(***************************************************************************)
(* Properties.                                                             *)
(***************************************************************************)

\* "Regenerate pointer move tokens to remove offsets to loops" (bfi.c, help of
\* -fno-loop-offset): once the pass is over no loop tests a cell away from the
\* pointer, whatever movements it has inserted since it passed the loop.
OffsetsRemoved ==
  pass = "over" =>
    \A x \in NodeId : tree.node[x].type \in Bracket => tree.node[x].offset = 0

Ran(t, tape, turns) == Turns(t, Machine(t, tape, NoString, Stdin), turns)

AsBefore(old, new) ==
  /\ new.status = old.status /\ new.io = old.io
  /\ new.tape = old.tape /\ new.stdin = old.stdin

\* The head is not a node in front of which a movement would be inserted.
HeadStays(t) ==
  LET head == t.next[Null] IN
  head # Null /\ t.node[head].type \in Bracket \cup {"DUMP", "STOP"} =>
    t.node[head].offset = 0

\* With the movements regenerated the program reads, writes and dumps what it
\* did before and comes through the same states of the tape, some turns later:
\* at most one movement is new in front of each node.
RegenKeepsMeaning ==
  pass \in {"over", "skipped"} /\ HeadStays(given) =>
    \A tape \in Tapes : \E turns \in Fuel .. 2 * Fuel :
      AsBefore(Ran(given, tape, Fuel), Ran(tree, tape, turns))

\* Where the walk ended with a shift, the program ends with the pointer moved
\* by just this shift, and with the same tape: no other shift is forgotten.
PointerAccounted ==
  pass \in {"over", "skipped"} /\ HeadStays(given) =>
    \A tape \in Tapes :
      LET old == Ran(given, tape, Fuel)
          new == Ran(tree, tape, 2 * Fuel)
      IN  old.status = "done" =>
            /\ new.status = "done" /\ new.tape = old.tape
            /\ new.p = old.p + current_shift
=============================================================================
