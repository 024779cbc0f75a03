---------------------------- MODULE PointerScan ----------------------------
(***************************************************************************)
(* pointer_scan (tritium/bfi.c): the first pass of the optimiser.  A       *)
(* cursor n walks the list; each pointer movement it meets is exchanged    *)
(* with the command behind it, whose offset takes over the distance, and   *)
(* pushed round whole loops, until it merges with another movement, meets  *)
(* the end of the loop it is in, or falls off the end of the program.      *)
(* One action is one iteration of the C loop, except that the loop which   *)
(* trims the end of the program is taken one node at a time.               *)
(***************************************************************************)
EXTENDS RunTree

CONSTANTS
  StartTrees,   \* the trees the pass may be given
  Tapes,        \* the tapes a program may start with, its input and the number
  Stdin,        \*   of commands it is run for: only MeaningKept speaks of them
  Fuel

ASSUME StartTreesAssumption ==
  \A t \in StartTrees :
    t \in Tree /\ WellFormed(t) /\ Complete(t) /\ Nested(t) /\ Factors(t)

ASSUME InputAssumption ==
  /\ \A tape \in Tapes : \A a \in DOMAIN tape : tape[a] \in Int
  /\ Stdin \in Seq(Int) /\ Fuel \in Nat

VARIABLES
  tree,         \* the program
  n,            \* the cursor
  trimming,     \* inside the loop that trims the end of the program
  fragment,     \* -H, both ways at once: stands for the constant noheader here
  given         \* the tree before the pass, for MeaningKept

vars == <<tree, n, trimming, fragment, given>>

Init ==
  /\ tree \in StartTrees
  /\ given = tree
  /\ n = tree.next[Null]
  /\ trimming = FALSE
  /\ fragment \in BOOLEAN

Follower == tree.next[n]

\* if (n->type == T_MOV && n->next) switch(n->next->type) { case types: ...
MovBefore(types) ==
  /\ ~trimming /\ n # Null
  /\ tree.node[n].type = "MOV"
  /\ Follower # Null
  /\ tree.node[Follower].type \in types

(***************************************************************************)
(* case T_MOV.  The movement behind n is added to it; if they cancel, n    *)
(* goes too and the cursor steps back.                                     *)
(***************************************************************************)
Absorb(t, m) ==
  LET gone == t.next[m]
      rest == t.next[gone]
  IN  Freed(Edit(t, [t.next EXCEPT ![m] = rest],
                    SetPrev(t.prev, rest, m),
                    [t.node EXCEPT ![m].count = @ + t.node[gone].count]), gone)

MergeMovements ==
  /\ MovBefore({"MOV"})
  /\ LET merged == Absorb(tree, n) IN
     IF merged.node[n].count = 0 /\ tree.prev[n] # Null
     THEN tree' = Unlinked(merged, n) /\ n' = tree.prev[n]
     ELSE tree' = merged /\ UNCHANGED n
  /\ UNCHANGED trimming

\* Wrong on purpose: the prev of the node behind the two is left alone.
SwappedOneWay(t, m, nd2) ==
  LET n2 == t.next[m]
      n3 == t.prev[m]
  IN  Edit(t, [t.next EXCEPT ![n3] = n2, ![n2] = m, ![m] = t.next[n2]],
              [t.prev EXCEPT ![n2] = n3, ![m] = n2],
              [t.node EXCEPT ![n2] = nd2])

(***************************************************************************)
(* The commands that a movement is pushed past.                            *)
(***************************************************************************)
Swapped(t, m, nd2) ==
  LET n2 == t.next[m]
      n3 == t.prev[m]
      n4 == t.next[n2]
  IN  Edit(t, [t.next EXCEPT ![n3] = n2, ![n2] = m, ![m] = n4],
              SetPrev([t.prev EXCEPT ![n2] = n3, ![m] = n2], n4, m),
              [t.node EXCEPT ![n2] = nd2])

PushPastCommand ==
  /\ MovBefore(Simple)
  /\ tree' = Swapped(tree, n, [tree.node[Follower] EXCEPT !.offset = @ + tree.node[n].count])
  /\ UNCHANGED <<n, trimming>>

\* Wrong on purpose: the operands stay behind.
ShiftedAlone(nd, c) == [nd EXCEPT !.offset = @ + c]

\* An operand whose factor is zero is not used, and not moved.
Shifted(nd, c) ==
  [nd EXCEPT !.offset  = @ + c,
             !.offset2 = IF nd.count2 # 0 THEN @ + c ELSE @,
             !.offset3 = IF nd.count3 # 0 THEN @ + c ELSE @]

PushPastCalc ==
  /\ MovBefore(Calc)
  /\ tree' = Swapped(tree, n, Shifted(tree.node[Follower], tree.node[n].count))
  /\ UNCHANGED <<n, trimming>>

(***************************************************************************)
(* case T_WHL etc.  The movement goes behind the whole loop; inside, a     *)
(* movement at its start and the opposite one at its end balance it.  The  *)
(* cursor goes on at the first node of the body.                           *)
(***************************************************************************)
ShiftedAt(node, x, c) == [node EXCEPT ![x].offset = @ + c]

Balanced(t, w, c) ==
  LET shifted == Edit(t, t.next, t.prev, ShiftedAt(t.node, w, c))
      opened  == AddNodeAfter(shifted, w, At("MOV", c, 0))
  IN  AddNodeAfter(opened, opened.prev[t.node[w].jmp], At("MOV", -c, 0))

\* Wrong on purpose: the closing bracket goes on testing the old cell.
MovedBehindOnly(t, m, e) ==
  LET n1 == t.next[m]
      n2 == t.prev[m]
      n3 == t.next[e]
  IN  Edit(t, [t.next EXCEPT ![n2] = n1, ![e] = m, ![m] = n3],
              SetPrev([t.prev EXCEPT ![n1] = n2, ![m] = e], n3, m), t.node)

\* Wrong on purpose: what follows the loop is lost.
MovedBehindLast(t, m, e) ==
  LET n1 == t.next[m]
      n2 == t.prev[m]
  IN  Edit(t, [t.next EXCEPT ![n2] = n1, ![e] = m, ![m] = Null],
              [t.prev EXCEPT ![n1] = n2, ![m] = e],
              ShiftedAt(t.node, e, t.node[m].count))

MovedBehind(t, m, e) ==
  LET n1 == t.next[m]
      n2 == t.prev[m]
      n3 == t.next[e]
  IN  Edit(t, [t.next EXCEPT ![n2] = n1, ![e] = m, ![m] = n3],
              SetPrev([t.prev EXCEPT ![n1] = n2, ![m] = e], n3, m),
              ShiftedAt(t.node, e, t.node[m].count))

\* Wrong on purpose: the cursor goes on behind the loop, past its body.
SkipLoop ==
  /\ MovBefore(Openers)
  /\ LET c == tree.node[n].count
         w == Follower
         t == IF c # 0 THEN Balanced(tree, w, c) ELSE tree
     IN  /\ c # 0 => HasRoomFor(tree, 2)
         /\ tree' = MovedBehind(t, n, tree.node[w].jmp)
         /\ UNCHANGED n
  /\ UNCHANGED trimming

PushRoundLoop ==
  /\ MovBefore(Openers)
  /\ LET c == tree.node[n].count
         w == Follower
         t == IF c # 0 THEN Balanced(tree, w, c) ELSE tree
     IN  /\ c # 0 => HasRoomFor(tree, 2)
         /\ tree' = MovedBehind(t, n, tree.node[w].jmp)
         /\ n' = tree'.next[w]
  /\ UNCHANGED trimming

\* Wrong on purpose: the default forgets n = n->next.
StuckForever == MovBefore(Closers \cup {"NOP"}) /\ UNCHANGED vars

\* case T_END, T_ENDIF and the default: the movement stays where it is.
StuckBeforeEnd ==
  /\ MovBefore(Closers \cup {"NOP"})
  /\ n' = Follower
  /\ UNCHANGED <<tree, trimming>>

(***************************************************************************)
(* The movement has reached the end of the program.  Unless a fragment is  *)
(* compiled, it and the additions before it have no effect.                *)
(***************************************************************************)
AtEnd == /\ ~trimming /\ n # Null
         /\ tree.node[n].type = "MOV" /\ Follower = Null

PushedOffTheEnd ==
  /\ AtEnd /\ tree.prev[n] # Null /\ ~fragment
  /\ trimming' = TRUE
  /\ UNCHANGED <<tree, n>>

Trimmable == n # Null /\ tree.node[n].type \in {"MOV", "ADD"}

Trimmed(t, x) ==
  Freed(Edit(t, [t.next EXCEPT ![t.prev[x]] = Null], t.prev, t.node), x)

TrimLast ==
  /\ trimming /\ Trimmable
  /\ n' = tree.prev[n]
  /\ tree' = Trimmed(tree, n)
  /\ UNCHANGED trimming

TrimDone ==
  /\ trimming /\ ~Trimmable
  /\ trimming' = FALSE
  /\ UNCHANGED <<tree, n>>

\* Everything else is passed over: n = n->next.
PassOver ==
  /\ ~trimming /\ n # Null
  /\ \/ tree.node[n].type # "MOV"
     \/ AtEnd /\ (tree.prev[n] = Null \/ fragment)
  /\ n' = Follower
  /\ UNCHANGED <<tree, trimming>>

Over == n = Null /\ ~trimming

ScanStep ==
  \/ MergeMovements \/ PushPastCommand \/ PushPastCalc \/ PushRoundLoop
  \/ StuckBeforeEnd \/ PushedOffTheEnd \/ TrimLast \/ TrimDone \/ PassOver

\* A pass that is over stays so.
Next == (ScanStep /\ UNCHANGED <<fragment, given>>) \/ (Over /\ UNCHANGED vars)

Spec == Init /\ [][Next]_vars

(***************************************************************************)
(* Properties.                                                             *)
(***************************************************************************)

\* Every variable has its type.
TypeOK ==
  /\ tree \in Tree
  /\ n \in Link
  /\ trimming \in BOOLEAN
  /\ fragment \in BOOLEAN

\* The links stay sound whatever nodes are inserted, moved and freed: no
\* pointer, the cursor included, reaches a freed node, and prev undoes next.
\* The pass cuts and joins the list by hand in every case of its switch.
LinksSound ==
  /\ DoublyLinked(tree)
  /\ n # Null => Live(tree, n)

\* A loop's two brackets test the same cell after every step, although the
\* code shifts them separately and only when it passes the opening one; the
\* array interpreter and pointer_regen both rely on it.
PairedOffsets == BracketsPaired(tree) /\ OffsetsPaired(tree)

\* The list stays whole: it ends, no live node is lost, and loops nest.
ListWhole == Complete(tree) /\ Nested(tree)

\* When the pass is over no movement is left where another command could
\* still take it over: each stands before the end of a loop, or is the last
\* node of a fragment, or is the whole program.
NothingLeftToPush ==
  Over => \A x \in NodeId : tree.node[x].type = "MOV" =>
    IF tree.next[x] # Null
    THEN tree.node[tree.next[x]].type \in Closers \cup {"NOP"}
    ELSE fragment \/ tree.prev[x] = Null

Ran(t, tape, commands) == Commands(t, Machine(t, tape, NoString, Stdin), commands)

AsBefore(old, new) ==
  /\ new.status = old.status /\ new.io = old.io
  /\ new.tape = old.tape /\ new.stdin = old.stdin

\* Whatever the pass has done so far, the program does command by command what
\* it did before: it reads and writes the same and has the same tape, and a
\* fragment ends with the pointer where it was.  A whole program may end sooner,
\* when all that was left to do was to add to cells.
MeaningKept ==
  \A tape \in Tapes :
    LET old  == Ran(given, tape, Fuel)
        new  == Ran(tree, tape, Fuel)
        late == Ran(given, tape, Fuel + MaxNode)
    IN  \/ /\ AsBefore(old, new)
           /\ fragment /\ old.status = "done" => new.p = old.p
        \/ /\ ~fragment /\ new.status = "done" /\ late.status = "done"
           /\ new.io = old.io /\ late.io = old.io

\* The pass comes to an end, although every iteration that pushes a movement
\* leaves the cursor where it is or even steps it back.
Terminates == <>Over
=============================================================================
