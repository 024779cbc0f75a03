------------------------- MODULE PointerRegenProofs -------------------------
(***************************************************************************)
(* Once pointer_regen is over no loop tests a cell away from the pointer,  *)
(* and the program does what it did: on every list of every length, with   *)
(* every option, tape and input.                                           *)
(*                                                                         *)
(* That no offset is left.  What the walk has done can only be told from   *)
(* what it has yet to do: the invariant is about the set S of the nodes it *)
(* will still come to, in the order of their positions r.  All brackets    *)
(* outside S have been dealt with; the movements that the pass inserts are *)
(* put behind the walk, so that S only shrinks; and S is empty when next   *)
(* ends.  Where a movement is inserted in front of the head, bfprog does   *)
(* not reach it, and the theorem holds there too.                          *)
(*                                                                         *)
(* That the program does what it did.  The list is compared with the list  *)
(* given: every node behind the walk has its shift sh, the distance by     *)
(* which the regenerated pointer is ahead there.  The node does from its   *)
(* shift what it did, and leads to the node it led to at that node's       *)
(* shift, by at most one new movement.  From this the run of the new       *)
(* program is built turn by turn: one turn for one, or two where a new     *)
(* movement comes.  A jump keeps the shift, as both brackets of a loop     *)
(* were tested at the same offset.                                         *)
(***************************************************************************)
EXTENDS PointerRegen, RunTreeProofs

USE Ids

\* The walk stands on x and will come to the nodes of S, ordered by r.
Ahead(t, x, S, r) ==
  /\ S \in SUBSET NodeId /\ x \in S /\ r \in [NodeId -> Int]
  /\ t.next[t.prev[x]] = x
  /\ \A y \in S :
       /\ y <= t.num
       /\ r[x] <= r[y]
       /\ t.next[y] # Null =>
            t.next[y] \in S /\ t.prev[t.next[y]] = y /\ r[t.next[y]] = r[y] + 1
       /\ \A z \in S :
            /\ r[y] = r[z] => y = z
            /\ t.next[y] = Null => r[z] <= r[y]

Settled(t, y) == t.node[y].type \in Bracket => t.node[y].offset = 0

AtWork(t, x) ==
  \E S, r : Ahead(t, x, S, r) /\ \A y \in NodeId \ S : Settled(t, y)

IInv ==
  /\ tree \in Tree
  /\ current_shift \in Int
  /\ pass \in {"stats", "walk", "over", "skipped"}
  /\ pass = "stats" => tree \in RegenTrees /\ current_shift = 0
  /\ pass = "walk"  => AtWork(tree, n)
  /\ pass = "over"  => \A y \in NodeId : Settled(tree, y)

\* The walk starts on the head, with the whole list before it.
LEMMA StartsAtWork ==
  ASSUME NEW t \in Tree, WellFormed(t), Complete(t), t.next[Null] # Null
  PROVE  AtWork(t, t.next[Null])
  <1> DEFINE x == t.next[Null]
             S == {y \in NodeId : Live(t, y)}
  <1>1. PICK r : Places(t, r)
    BY CompletePlaces
  <1>2. DoublyLinked(t) /\ Unallocated(t) /\ t.num \in Nat
    BY DEF WellFormed, Tree
  <1>3. Live(t, x) /\ x \in NodeId /\ t.prev[x] = Null
    BY <1>2 DEF DoublyLinked, Live
  <1>4. ASSUME NEW y \in S
        PROVE  /\ y <= t.num
               /\ r[x] <= r[y]
               /\ t.next[y] # Null =>
                    t.next[y] \in S /\ t.prev[t.next[y]] = y /\ r[t.next[y]] = r[y] + 1
               /\ \A z \in S :
                    /\ r[y] = r[z] => y = z
                    /\ t.next[y] = Null => r[z] <= r[y]
    <2>1. y \in NodeId /\ Live(t, y)
      OBVIOUS
    <2>2. y <= t.num
      BY <2>1, <1>2 DEF Unallocated, Live, FreeNode, Blank
    <2>3. t.next[y] # Null => Live(t, t.next[y]) /\ t.prev[t.next[y]] = y
      BY <2>1, <1>2 DEF DoublyLinked
    <2>4. QED BY <2>1, <2>2, <2>3, <1>1 DEF Places, Live
  <1>5. Ahead(t, x, S, r)
    BY <1>1, <1>3, <1>4 DEF Ahead, Places
  <1>6. \A y \in NodeId \ S : Settled(t, y)
    BY DEF Settled, Live, Bracket, Openers, Closers
  <1>7. QED BY <1>5, <1>6 DEF AtWork

\* What the walk has behind it is not what it has before it.
LEMMA BehindIsPassed ==
  ASSUME NEW t \in Tree, NEW x, NEW S, NEW r, Ahead(t, x, S, r)
  PROVE  t.prev[x] \in Link /\ t.prev[x] \notin S
  <1>1. x \in NodeId /\ t.prev[x] \in Link
    BY DEF Ahead, Tree
  <1>2. CASE t.prev[x] \in S
    <2>1. r[x] = r[t.prev[x]] + 1 /\ r[x] <= r[t.prev[x]]
      BY <1>1, <1>2 DEF Ahead
    <2>2. r[t.prev[x]] \in Int
      BY <1>2 DEF Ahead
    <2>3. QED BY <2>1, <2>2
  <1>3. QED BY <1>1, <1>2

\* The pointer is moved up: a movement comes or grows behind the walk.
LEMMA MovesBehind ==
  ASSUME NEW t \in Tree, NEW x, AtWork(t, x), NEW d \in Int, HasRoomFor(t, 1)
  PROVE  LET u == MovedUpTo(t, x, d) IN
         /\ u \in Tree /\ AtWork(u, x)
         /\ u.node[x] = t.node[x]
  <1> DEFINE u == MovedUpTo(t, x, d)
             v == t.prev[x]
             id == t.num + 1
             q == t.next[v]
  <1>1. PICK S, r : Ahead(t, x, S, r) /\ \A y \in NodeId \ S : Settled(t, y)
    BY DEF AtWork
  <1>2. x \in NodeId /\ x \in S /\ S \subseteq NodeId /\ v \in Link /\ v \notin S /\ q = x
    BY <1>1, BehindIsPassed DEF Ahead
  <1>3. id \in NodeId /\ id \notin S /\ t.num \in Nat
    BY <1>1 DEF HasRoomFor, Tree, Ahead
  <1>4. /\ t.next \in [Link -> Link] /\ t.prev \in [NodeId -> Link]
        /\ t.node \in [NodeId -> Node]
    BY DEF Tree
  <1>5. CASE v # Null /\ t.node[v].type = "MOV"
    <2> DEFINE nd == [t.node[v] EXCEPT !.count = @ + d]
    <2>1. v \in NodeId /\ t.node[v] \in Node
      BY <1>2, <1>4, <1>5
    <2>2. nd \in Node /\ nd.type = "MOV"
      BY <2>1, <1>5 DEF Node
    <2>3. /\ u = [t EXCEPT !.node = [t.node EXCEPT ![v] = nd]]
      BY <1>5 DEF MovedUpTo
    <2> HIDE DEF nd
    <2>4. /\ u \in Tree /\ u.next = t.next /\ u.prev = t.prev /\ u.num = t.num
          /\ u.node = [t.node EXCEPT ![v] = nd]
      BY <2>1, <2>2, <2>3, <1>4 DEF Tree
    <2> HIDE DEF u, v, q, id
    <2>5. Ahead(u, x, S, r)
      BY <1>1, <2>4 DEF Ahead
    <2>6. \A y \in NodeId \ S : Settled(u, y)
      BY <1>1, <1>4, <2>1, <2>2, <2>4 DEF Settled, Bracket, Openers, Closers
    <2>7. u.node[x] = t.node[x]
      BY <1>2, <1>4, <2>4
    <2>8. QED BY <2>4, <2>5, <2>6, <2>7 DEF AtWork, u
  <1>6. CASE ~(v # Null /\ t.node[v].type = "MOV")
    <2> DEFINE nd == At("MOV", d, 0)
    <2>1. nd \in Node /\ nd.type = "MOV"
      BY AtType DEF Token
    <2>2. u = AddNodeAfter(t, v, nd)
      BY <1>6 DEF MovedUpTo
    <2> HIDE DEF nd
    <2>3. /\ u = [ next |-> u.next, prev |-> u.prev, node |-> u.node, num |-> u.num ]
          /\ u.next = IF v = Null /\ q # Null THEN [t.next EXCEPT ![id] = q]
                      ELSE [t.next EXCEPT ![id] = q, ![v] = id]
          /\ u.prev = [t.prev EXCEPT ![id] = v, ![x] = id]
          /\ u.node = [t.node EXCEPT ![id] = nd]
          /\ u.num = id
      BY <1>2, <2>2 DEF AddNodeAfter, SetPrev
    <2> HIDE DEF u, v, q, id
    <2>4. /\ u.next \in [Link -> Link] /\ u.next[id] = x
          /\ \A y \in S : u.next[y] = t.next[y]
      BY <1>2, <1>3, <1>4, <2>3
    <2>5. /\ u.prev \in [NodeId -> Link] /\ u.prev[x] = id
          /\ \A y \in NodeId : y # id /\ y # x => u.prev[y] = t.prev[y]
      BY <1>2, <1>3, <1>4, <2>3
    <2>6. /\ u.node \in [NodeId -> Node] /\ u.node[id] = nd
          /\ \A y \in NodeId : y # id => u.node[y] = t.node[y]
      BY <1>3, <1>4, <2>1, <2>3
    <2>7. u.num \in 0 .. MaxNode /\ t.num <= u.num
      BY <1>3, <2>3 DEF id
    <2>8. u \in Tree
      BY <2>3, <2>4, <2>5, <2>6, <2>7 DEF Tree
    <2>9. Ahead(u, x, S, r)
      <3>1. u.next[u.prev[x]] = x
        BY <2>4, <2>5
      <3>2. ASSUME NEW y \in S
            PROVE  /\ y <= u.num
                   /\ u.next[y] # Null => u.next[y] \in S /\ u.prev[u.next[y]] = y
                                          /\ r[u.next[y]] = r[y] + 1
        <4>1. u.next[y] = t.next[y] /\ y \in NodeId /\ y <= t.num /\ t.num \in Int
              /\ r[x] <= r[y] /\ r[x] \in Int /\ r[y] \in Int
          BY <1>1, <1>2, <1>3, <2>4 DEF Ahead
        <4>2. CASE t.next[y] # Null
          <5>1. t.next[y] \in S /\ t.prev[t.next[y]] = y /\ r[t.next[y]] = r[y] + 1
            BY <1>1, <4>2 DEF Ahead
          <5>2. t.next[y] # x
            BY <4>1, <5>1
          <5>3. u.prev[t.next[y]] = y
            BY <1>2, <1>3, <2>5, <5>1, <5>2
          <5>4. QED BY <2>7, <4>1, <5>1, <5>3
        <4>3. QED BY <2>7, <4>1, <4>2
      <3>3. QED BY <1>1, <2>4, <3>1, <3>2 DEF Ahead
    <2>10. \A y \in NodeId \ S : Settled(u, y)
      BY <1>1, <2>1, <2>6 DEF Settled, Bracket, Openers, Closers
    <2>11. u.node[x] = t.node[x]
      BY <1>2, <1>3, <2>6
    <2>12. QED BY <2>8, <2>9, <2>10, <2>11 DEF AtWork, u
  <1>7. QED BY <1>5, <1>6

\* The contents of the node that the walk stands on are replaced.
Replaced(t, x, nd) == [t EXCEPT !.node = [t.node EXCEPT ![x] = nd]]

\* The walk goes on from a node that it leaves settled.
LEMMA WalksOn ==
  ASSUME NEW t \in Tree, NEW x, AtWork(t, x), NEW nd \in Node,
         nd.type \in Bracket => nd.offset = 0
  PROVE  LET u == Replaced(t, x, nd) IN
         /\ u \in Tree
         /\ IF t.next[x] = Null THEN \A y \in NodeId : Settled(u, y)
                                ELSE AtWork(u, t.next[x])
  <1> DEFINE u == Replaced(t, x, nd)
  <1>1. PICK S, r : Ahead(t, x, S, r) /\ \A y \in NodeId \ S : Settled(t, y)
    BY DEF AtWork
  <1>2. x \in S /\ S \subseteq NodeId /\ r \in [NodeId -> Int]
    BY <1>1 DEF Ahead
  <1>3. /\ u \in Tree /\ u.next = t.next /\ u.prev = t.prev /\ u.num = t.num
        /\ u.node = [t.node EXCEPT ![x] = nd]
    BY <1>2 DEF Replaced, Tree
  <1> HIDE DEF u
  <1>4. t.node \in [NodeId -> Node]
    BY DEF Tree
  <1>5. \A y \in NodeId : y \notin S \ {x} => Settled(u, y)
    <2>1. SUFFICES ASSUME NEW y \in NodeId, y \notin S \ {x} PROVE Settled(u, y)
      OBVIOUS
    <2>2. CASE y = x
      BY <1>2, <1>3, <1>4, <2>2 DEF Settled
    <2>3. CASE y # x
      <3>1. u.node[y] = t.node[y] /\ Settled(t, y)
        BY <1>1, <1>2, <1>3, <1>4, <2>1, <2>3
      <3>2. QED BY <3>1 DEF Settled
    <2>4. QED BY <2>2, <2>3
  <1>6. CASE t.next[x] = Null
    <2>1. \A y \in S : y = x
      <3>1. SUFFICES ASSUME NEW y \in S PROVE y = x
        OBVIOUS
      <3>2. r[x] <= r[y] /\ r[y] <= r[x] /\ (r[y] = r[x] => y = x)
        BY <1>1, <1>2, <1>6 DEF Ahead
      <3>3. r[x] \in Int /\ r[y] \in Int
        BY <1>2
      <3>4. QED BY <3>2, <3>3
    <2>2. QED BY <1>3, <1>5, <1>6, <2>1 DEF u
  <1>7. CASE t.next[x] # Null
    <2> DEFINE y == t.next[x]
    <2>1. y \in S /\ t.prev[y] = x /\ r[y] = r[x] + 1 /\ r[x] \in Int
      BY <1>1, <1>2, <1>7 DEF Ahead
    <2> HIDE DEF y
    <2>2. y # x
      BY <2>1
    <2>3. t.next[t.prev[y]] = y
      BY <2>1 DEF y
    <2>4. ASSUME NEW z \in S \ {x}
          PROVE  /\ z <= t.num
                 /\ r[y] <= r[z]
                 /\ t.next[z] # Null =>
                      t.next[z] \in S \ {x} /\ t.prev[t.next[z]] = z /\ r[t.next[z]] = r[z] + 1
                 /\ \A zz \in S \ {x} :
                      /\ r[z] = r[zz] => z = zz
                      /\ t.next[z] = Null => r[zz] <= r[z]
      <3>1. r[x] <= r[z] /\ r[x] # r[z] /\ r[z] \in Int
        BY <1>1, <1>2, <2>4 DEF Ahead
      <3>2. t.next[z] # Null =>
              t.next[z] \in S /\ t.prev[t.next[z]] = z /\ r[t.next[z]] = r[z] + 1
        BY <1>1, <2>4 DEF Ahead
      <3>3. t.next[z] # Null => t.next[z] # x
        BY <2>1, <3>1, <3>2
      <3>4. z <= t.num /\ \A zz \in S : /\ r[z] = r[zz] => z = zz
                                        /\ t.next[z] = Null => r[zz] <= r[z]
        BY <1>1, <2>4 DEF Ahead
      <3>5. QED BY <2>1, <3>1, <3>2, <3>3, <3>4
    <2>5. Ahead(u, y, S \ {x}, r)
      BY <1>2, <1>3, <2>1, <2>2, <2>3, <2>4 DEF Ahead
    <2>6. AtWork(u, y)
      BY <1>5, <2>5 DEF AtWork
    <2>7. QED BY <1>3, <1>7, <2>6 DEF y, u
  <1>8. QED BY <1>6, <1>7

\* At first no bracket has been passed.
LEMMA InitIInv == Init => IInv
  <1>1. SUFFICES ASSUME Init PROVE IInv
    OBVIOUS
  <1>2. tree \in Tree
    BY <1>1, RegenAssumption DEF Init
  <1>3. QED BY <1>1, <1>2 DEF Init, IInv

\* A step that replaces the node it stands on and goes on keeps the invariant.
LEMMA StepKeepsIInv ==
  ASSUME NEW t \in Tree, AtWork(t, n), NEW nd \in Node,
         nd.type \in Bracket => nd.offset = 0,
         tree' = Replaced(t, n, nd), pass = "walk",
         n' = t.next[n], pass' = IF t.next[n] = Null THEN "over" ELSE pass,
         current_shift' \in Int
  PROVE  IInv'
  <1>1. /\ tree' \in Tree
        /\ IF t.next[n] = Null THEN \A y \in NodeId : Settled(tree', y)
                               ELSE AtWork(tree', t.next[n])
    BY WalksOn
  <1>2. CASE t.next[n] = Null
    <2>1. pass' = "over" /\ \A y \in NodeId : Settled(tree', y)
      BY <1>1, <1>2
    <2>2. QED BY <1>1, <2>1 DEF IInv, Settled
  <1>3. CASE t.next[n] # Null
    <2>1. pass' = "walk" /\ AtWork(tree', n')
      BY <1>1, <1>3
    <2>2. AtWork(tree, n)'
      BY <2>1 DEF AtWork, Ahead, Settled
    <2>3. QED BY <1>1, <2>1, <2>2 DEF IInv
  <1>4. QED BY <1>2, <1>3

\* Every turn of the walk keeps the invariant.
LEMMA NextIInv == IInv /\ [Next]_vars => IInv'
  <1> SUFFICES ASSUME IInv, [Next]_vars PROVE IInv'
    OBVIOUS
  <1>1. tree \in Tree /\ current_shift \in Int
    BY DEF IInv
  <1>2. CASE TakeStats
    <2>1. tree' = tree /\ current_shift' = current_shift /\ pass = "stats"
          /\ tree \in RegenTrees
      BY <1>2 DEF TakeStats, IInv
    <2>2. WellFormed(tree) /\ Complete(tree)
      BY <2>1, RegenAssumption
    <2>3. CASE ~WorthIt(tree)
      BY <1>1, <1>2, <2>1, <2>3 DEF TakeStats, IInv
    <2>4. CASE WorthIt(tree) /\ tree.next[Null] = Null
      <3>1. pass' = "over"
        BY <1>2, <2>4 DEF TakeStats
      <3>2. PICK r : Places(tree, r)
        BY <1>1, <2>2, CompletePlaces
      <3>3. \A y \in NodeId : ~Live(tree, y)
        BY <2>4, <3>2 DEF Places
      <3>4. \A y \in NodeId : Settled(tree, y)
        BY <3>3 DEF Settled, Live, Bracket, Openers, Closers
      <3>5. QED BY <1>1, <2>1, <3>1, <3>4 DEF IInv, Settled
    <2>5. CASE WorthIt(tree) /\ tree.next[Null] # Null
      <3>1. pass' = "walk" /\ n' = tree.next[Null]
        BY <1>2, <2>5 DEF TakeStats
      <3>2. AtWork(tree, tree.next[Null])
        BY <1>1, <2>2, <2>5, StartsAtWork
      <3>3. AtWork(tree, n)'
        BY <2>1, <3>1, <3>2 DEF AtWork, Ahead, Settled
      <3>4. QED BY <1>1, <2>1, <3>1, <3>3 DEF IInv
    <2>6. QED BY <2>3, <2>4, <2>5
  <1>3. CASE RegenBracket
    <2> DEFINE off == tree.node[n].offset
               t == IF off = current_shift THEN tree
                    ELSE MovedUpTo(tree, n, off - current_shift)
               nd == [t.node[n] EXCEPT !.offset = 0]
    <2>1. pass = "walk" /\ AtWork(tree, n)
      BY <1>3 DEF RegenBracket, Walking, IInv
    <2>2. n \in NodeId /\ off \in Int
      BY <1>1, <2>1 DEF AtWork, Ahead, Tree, Node
    <2>3. t \in Tree /\ AtWork(t, n)
      <3>1. CASE off = current_shift
        BY <1>1, <2>1, <3>1
      <3>2. CASE off # current_shift
        <4>1. HasRoomFor(tree, 1) /\ off - current_shift \in Int
          BY <1>1, <1>3, <2>2, <3>2 DEF RegenBracket
        <4>2. QED BY <1>1, <2>1, <3>2, <4>1, MovesBehind
      <3>3. QED BY <3>1, <3>2
    <2>4. /\ tree' = [t EXCEPT !.node[n].offset = 0] /\ current_shift' = off
          /\ n' = t.next[n] /\ pass' = IF t.next[n] = Null THEN "over" ELSE pass
      BY <1>3 DEF RegenBracket, GoesOn
    <2> HIDE DEF t, off
    <2>5. t.node[n] \in Node
      BY <2>2, <2>3 DEF Tree
    <2>6. nd \in Node /\ nd.offset = 0
      BY <2>5 DEF Node
    <2>7. tree' = Replaced(t, n, nd)
      BY <2>4 DEF Replaced
    <2> HIDE DEF nd
    <2>8. QED BY <2>1, <2>2, <2>3, <2>4, <2>6, <2>7, StepKeepsIInv
  <1>4. CASE RegenCommand
    <2> DEFINE nd == [tree.node[n] EXCEPT !.offset = @ - current_shift]
    <2>1. pass = "walk" /\ AtWork(tree, n) /\ tree.node[n].type \in Simple
      BY <1>4 DEF RegenCommand, Walking, IInv
    <2>2. tree.node[n] \in Node
      BY <1>1, <2>1 DEF AtWork, Ahead, Tree
    <2>3. nd \in Node /\ nd.type = tree.node[n].type
      BY <1>1, <2>2 DEF Node
    <2>4. nd.type \notin Bracket
      BY <2>1, <2>3 DEF Simple, Bracket, Openers, Closers
    <2>5. tree' = Replaced(tree, n, nd)
      BY <1>4 DEF RegenCommand, Replaced
    <2>6. /\ n' = tree.next[n] /\ pass' = IF tree.next[n] = Null THEN "over" ELSE pass
          /\ current_shift' \in Int
      BY <1>1, <1>4 DEF RegenCommand, GoesOn
    <2> HIDE DEF nd
    <2>7. QED BY <1>1, <2>1, <2>3, <2>4, <2>5, <2>6, StepKeepsIInv
  <1>5. CASE RegenCalc
    <2> DEFINE m  == tree.node[n]
               i2 == IF m.count2 # 0 THEN current_shift ELSE 0
               i3 == IF m.count3 # 0 THEN current_shift ELSE 0
               nd == [m EXCEPT !.offset  = m.offset - current_shift,
                               !.offset2 = m.offset2 - i2,
                               !.offset3 = m.offset3 - i3]
    <2>1. pass = "walk" /\ AtWork(tree, n) /\ m.type \in Calc
      BY <1>5 DEF RegenCalc, Walking, IInv
    <2>2. m \in Node /\ i2 \in Int /\ i3 \in Int
      BY <1>1, <2>1 DEF AtWork, Ahead, Tree
    <2>3. tree' = Replaced(tree, n, nd)
      BY <1>5 DEF RegenCalc, Replaced
    <2> HIDE DEF m, i2, i3
    <2>4. nd \in Node /\ nd.type = m.type
      <3> DEFINE o1 == m.offset - current_shift
                 o2 == m.offset2 - i2
                 o3 == m.offset3 - i3
      <3>1. o1 \in Int /\ o2 \in Int /\ o3 \in Int
        BY <1>1, <2>2 DEF Node
      <3>2. nd = [m EXCEPT !.offset = o1, !.offset2 = o2, !.offset3 = o3]
        OBVIOUS
      <3> HIDE DEF o1, o2, o3, nd
      <3>3. QED BY <2>2, <3>1, <3>2 DEF Node
    <2>5. nd.type \notin Bracket
      BY <2>1, <2>4 DEF Calc, Bracket, Openers, Closers
    <2>6. /\ n' = tree.next[n] /\ pass' = IF tree.next[n] = Null THEN "over" ELSE pass
          /\ current_shift' \in Int
      BY <1>1, <1>5 DEF RegenCalc, GoesOn
    <2> HIDE DEF nd
    <2>7. QED BY <1>1, <2>1, <2>3, <2>4, <2>5, <2>6, StepKeepsIInv
  <1>6. CASE RegenMov
    <2> DEFINE nd == [tree.node[n] EXCEPT !.count = @ - current_shift]
    <2>1. pass = "walk" /\ AtWork(tree, n) /\ tree.node[n].type = "MOV"
      BY <1>6 DEF RegenMov, Walking, IInv
    <2>2. tree.node[n] \in Node
      BY <1>1, <2>1 DEF AtWork, Ahead, Tree
    <2>3. nd \in Node /\ nd.type = "MOV"
      BY <1>1, <2>1, <2>2 DEF Node
    <2>4. nd.type \notin Bracket
      BY <2>3 DEF Bracket, Openers, Closers
    <2>5. tree' = Replaced(tree, n, nd)
      BY <1>6 DEF RegenMov, Replaced
    <2>6. /\ n' = tree.next[n] /\ pass' = IF tree.next[n] = Null THEN "over" ELSE pass
          /\ current_shift' \in Int
      BY <1>6 DEF RegenMov, GoesOn
    <2> HIDE DEF nd
    <2>7. QED BY <1>1, <2>1, <2>3, <2>4, <2>5, <2>6, StepKeepsIInv
  <1>7. CASE UNCHANGED <<tree, n, current_shift, pass>>
    BY <1>7 DEF IInv, AtWork, Ahead, Settled
  <1>8. QED BY <1>2, <1>3, <1>4, <1>5, <1>6, <1>7 DEF Next, RegenStep, vars

\* In every state of every walk of pointer_regen the invariant holds.
THEOREM Regenerating == Spec => []IInv
  <1>1. Init => IInv
    BY InitIInv
  <1>2. IInv /\ [Next]_vars => IInv'
    BY NextIInv
  <1>3. QED BY <1>1, <1>2, PTL DEF Spec

\* Once the pass is over no loop tests a cell away from the pointer: no bracket
\* is left out and no offset comes back, whatever movements are inserted.
THEOREM OffsetsGone == Spec => []OffsetsRemoved
  <1>1. IInv => OffsetsRemoved
    BY DEF IInv, OffsetsRemoved, Settled
  <1>2. QED BY <1>1, Regenerating, PTL

(***************************************************************************)
(* What the walk makes of the list.  g is the list before, u what has      *)
(* become of it and sh[x] the shift at node x: by how much the pointer is  *)
(* ahead when the new program comes to x.                                  *)
(***************************************************************************)

\* The shift behind a node.
Behind(g, u, sh, x) ==
  IF x = Null THEN 0
  ELSE IF g.node[x].type = "MOV" THEN sh[x] + u.node[x].count - g.node[x].count
  ELSE sh[x]

\* z is a new movement by d in front of y.
Inserted(g, u, z, d, y) ==
  /\ z \in NodeId /\ g.num < z /\ z <= u.num
  /\ u.node[z].type = "MOV" /\ u.node[z].count = d
  /\ u.next[z] = y

\* Behind x the list goes on with y, where the shift is s.
ComesTo(g, u, sh, x, y, s) ==
  \/ u.next[x] = y /\ Behind(g, u, sh, x) = s
  \/ x # Null /\ Inserted(g, u, u.next[x], s - Behind(g, u, sh, x), y)

\* And to a bracket the pointer has been moved up.
Shifted(a, b, s) == Same(a, b, s) /\ (a.type \in Bracket => a.offset = s)

Passed(g, r, x) == {y \in NodeId : Live(g, y) /\ r[y] < r[x]}

Untouched(g, u, r, x) ==
  \A y \in NodeId : Live(g, y) /\ r[x] <= r[y] =>
    /\ u.node[y] = g.node[y] /\ u.next[y] = g.next[y]
    /\ y # x => u.prev[y] = g.prev[y]

NodesDone(g, u, sh, P) == \A y \in P : Shifted(g.node[y], u.node[y], sh[y])

LinksDone(g, u, sh, P, v) ==
  \A y \in P \cup {Null} : y # v => ComesTo(g, u, sh, y, g.next[y], sh[g.next[y]])

\* The nodes in front of x are done, and x is come to with the shift s.
Coming(g, u, x, s, sh, r) ==
  /\ x \in NodeId /\ Live(g, x) /\ s \in Int /\ sh \in [NodeId -> Int] /\ g.num <= u.num
  /\ Untouched(g, u, r, x)
  /\ NodesDone(g, u, sh, Passed(g, r, x))
  /\ LinksDone(g, u, sh, Passed(g, r, x), g.prev[x])
  /\ ComesTo(g, u, sh, g.prev[x], x, s)

\* The walk stands on x with current_shift c.
Working(g, u, x, c, sh, r) ==
  /\ Coming(g, u, x, c, sh, r)
  /\ u.prev[x] = g.prev[x] /\ u.next[g.prev[x]] = x
  /\ Behind(g, u, sh, g.prev[x]) = c

\* All nodes are done; behind the last one the shift is c.
GoesToNext(g, u, c, sh, y) ==
  IF g.next[y] = Null THEN u.next[y] = Null /\ Behind(g, u, sh, y) = c
  ELSE ComesTo(g, u, sh, y, g.next[y], sh[g.next[y]])

Regained(g, u, c, sh) ==
  /\ sh \in [NodeId -> Int] /\ c \in Int
  /\ \A y \in NodeId : Live(g, y) =>
       Shifted(g.node[y], u.node[y], sh[y]) /\ GoesToNext(g, u, c, sh, y)
  /\ GoesToNext(g, u, c, sh, Null)

\* Where the nodes that have been passed lie.
Before(g, x, P) ==
  /\ P \in SUBSET NodeId /\ x \in NodeId /\ x \notin P
  /\ g.prev[x] \in P \cup {Null} /\ g.next[g.prev[x]] = x
  /\ \A y \in P : Live(g, y)
  /\ \A y \in P \cup {Null} : y # g.prev[x] => g.next[y] \in P

\* The passed nodes are the list in front of x.
LEMMA PassedLie ==
  ASSUME NEW g \in Tree, WellFormed(g), NEW r, Places(g, r), NEW x \in NodeId, Live(g, x)
  PROVE  Before(g, x, Passed(g, r, x))
  <1> DEFINE P == Passed(g, r, x)
             v == g.prev[x]
  <1>1. DoublyLinked(g)
    BY DEF WellFormed
  <1>2. v \in Link /\ g.next[v] = x /\ (v # Null => Live(g, v) /\ v \in NodeId)
    BY <1>1 DEF DoublyLinked, Tree
  <1>3. v # Null => r[x] = r[v] + 1 /\ r[v] \in Int
    BY <1>2 DEF Places
  <1>4. v \in P \cup {Null}
    BY <1>2, <1>3 DEF Passed
  <1>5. P \in SUBSET NodeId /\ x \notin P /\ \A y \in P : Live(g, y)
    BY DEF Passed, Places
  <1>6. ASSUME NEW y \in P \cup {Null}, y # v PROVE g.next[y] \in P
    <2>1. g.next[y] # Null
      <3>1. CASE y = Null
        BY <3>1 DEF Places
      <3>2. CASE y # Null
        <4>1. y \in NodeId /\ Live(g, y) /\ r[y] < r[x] /\ r[y] \in Int /\ r[x] \in Int
          BY <3>2, <1>6 DEF Passed, Places
        <4>2. QED BY <4>1 DEF Places
      <3>3. QED BY <3>1, <3>2
    <2>2. Live(g, g.next[y]) /\ g.next[y] \in NodeId /\ g.prev[g.next[y]] = y
      BY <1>1, <1>5, <2>1 DEF DoublyLinked, Live
    <2>3. g.next[y] # x
      BY <1>6, <2>2
    <2>4. r[g.next[y]] <= r[x]
      <3>1. CASE y = Null
        BY <3>1 DEF Places
      <3>2. CASE y # Null
        <4>1. y \in NodeId /\ Live(g, y) /\ r[y] < r[x] /\ r[y] \in Int /\ r[x] \in Int
          BY <3>2, <1>6 DEF Passed, Places
        <4>2. r[g.next[y]] = r[y] + 1
          BY <2>1, <4>1 DEF Places
        <4>3. QED BY <4>1, <4>2
      <3>3. QED BY <3>1, <3>2
    <2>5. r[g.next[y]] # r[x] /\ r[g.next[y]] \in Int /\ r[x] \in Int
      BY <2>2, <2>3 DEF Places
    <2>6. QED BY <2>2, <2>4, <2>5 DEF Passed
  <1> HIDE DEF P, v
  <1>7. QED BY <1>2, <1>4, <1>5, <1>6 DEF Before, P, v

\* The next step passes one node more, the last one the last.
LEMMA OneMorePassed ==
  ASSUME NEW g \in Tree, WellFormed(g), NEW r, Places(g, r), NEW x \in NodeId, Live(g, x)
  PROVE  /\ g.next[x] # Null => /\ g.next[x] \in NodeId /\ Live(g, g.next[x])
                                /\ g.prev[g.next[x]] = x /\ r[g.next[x]] = r[x] + 1
                                /\ Passed(g, r, g.next[x]) = Passed(g, r, x) \cup {x}
         /\ g.next[x] = Null => \A y \in NodeId : Live(g, y) => y \in Passed(g, r, x) \cup {x}
  <1>1. r[x] \in Int /\ \A y \in NodeId : r[y] \in Int
    BY DEF Places
  <1>2. CASE g.next[x] # Null
    <2>1. Live(g, g.next[x]) /\ r[g.next[x]] = r[x] + 1 /\ g.prev[g.next[x]] = x
          /\ g.next[x] \in NodeId
      BY <1>2 DEF Places, WellFormed, DoublyLinked, Live
    <2>2. ASSUME NEW y \in NodeId, Live(g, y)
          PROVE  r[y] < r[g.next[x]] <=> r[y] < r[x] \/ y = x
      <3>1. r[y] = r[x] => y = x
        BY <2>2 DEF Places
      <3>2. QED BY <1>1, <2>1, <3>1
    <2>3. QED BY <1>2, <2>1, <2>2 DEF Passed
  <1>3. CASE g.next[x] = Null
    <2>1. ASSUME NEW y \in NodeId, Live(g, y) PROVE y \in Passed(g, r, x) \cup {x}
      <3>1. r[y] <= r[x] /\ (r[y] = r[x] => y = x)
        BY <1>3, <2>1 DEF Places
      <3>2. QED BY <1>1, <2>1, <3>1 DEF Passed
    <2>2. QED BY <1>3, <2>1
  <1>4. QED BY <1>2, <1>3

\* Nodes that have been handed out are those that were, and more.
LEMMA LiveSmall ==
  ASSUME NEW g \in Tree, WellFormed(g), NEW x \in NodeId, Live(g, x)
  PROVE  x <= g.num
  <1>1. ~(x > g.num)
    BY DEF WellFormed, Unallocated, Live, FreeNode, Blank
  <1>2. QED BY <1>1 DEF Tree

\* u2 has what u has behind y, and the movements that are new in u.
SameBehind(g, u, u2, y) ==
  /\ u2.next[y] = u.next[y] /\ u.num <= u2.num
  /\ y # Null => u2.node[y].count = u.node[y].count
  /\ \A z \in NodeId : g.num < z /\ z <= u.num =>
       u2.node[z] = u.node[z] /\ u2.next[z] = u.next[z]

\* A node that is not touched leads where it did.
LEMMA ComesToKept ==
  ASSUME NEW g \in Tree, NEW u \in Tree, NEW u2 \in Tree, NEW sh, NEW y, NEW sh2,
         SameBehind(g, u, u2, y), y # Null => sh2[y] = sh[y], NEW w, NEW s
  PROVE  /\ Behind(g, u2, sh2, y) = Behind(g, u, sh, y)
         /\ ComesTo(g, u, sh, y, w, s) => ComesTo(g, u2, sh2, y, w, s)
  <1>1. Behind(g, u2, sh2, y) = Behind(g, u, sh, y)
    BY DEF Behind, SameBehind
  <1>2. u.num \in Nat /\ u2.num \in Nat /\ g.num \in Nat
    BY DEF Tree
  <1>3. ASSUME NEW d, Inserted(g, u, u.next[y], d, w)
        PROVE  Inserted(g, u2, u2.next[y], d, w)
    BY <1>2, <1>3 DEF Inserted, SameBehind
  <1>4. QED BY <1>1, <1>3 DEF ComesTo, SameBehind

\* A movement is lengthened, or put in front of x.
LEMMA MovesUp ==
  ASSUME NEW g \in Tree, WellFormed(g), NEW u \in Tree, NEW r, Places(g, r), NEW sh, NEW c \in Int,
         NEW x, Working(g, u, x, c, sh, r), g.prev[x] # Null,
         NEW d \in Int, HasRoomFor(u, 1)
  PROVE  Coming(g, MovedUpTo(u, x, d), x, c + d, sh, r) /\ MovedUpTo(u, x, d) \in Tree
  <1> DEFINE v == g.prev[x]
             P == Passed(g, r, x)
             w == MovedUpTo(u, x, d)
             id == u.num + 1
  <1>1. Coming(g, u, x, c, sh, r) /\ u.prev[x] = v /\ u.next[v] = x /\ Behind(g, u, sh, v) = c
    BY DEF Working
  <1>2. /\ x \in NodeId /\ Live(g, x) /\ sh \in [NodeId -> Int] /\ g.num <= u.num
        /\ Untouched(g, u, r, x) /\ NodesDone(g, u, sh, P) /\ LinksDone(g, u, sh, P, v)
    BY <1>1 DEF Coming
  <1>3. Before(g, x, P)
    BY <1>2, PassedLie
  <1>4. v \in P /\ v \in NodeId /\ Live(g, v) /\ Shifted(g.node[v], u.node[v], sh[v])
    BY <1>2, <1>3 DEF Before, NodesDone
  <1>5. /\ u.next \in [Link -> Link] /\ u.prev \in [NodeId -> Link]
        /\ u.node \in [NodeId -> Node] /\ g.node \in [NodeId -> Node]
        /\ u.num \in Nat /\ g.num \in Nat /\ u.num <= MaxNode
    BY DEF Tree
  <1>6. \A y \in NodeId : Live(g, y) => y <= g.num
    BY LiveSmall
  <1>7. v \notin {y \in NodeId : Live(g, y) /\ r[x] <= r[y]}
    BY <1>2, <1>4 DEF Passed, Places
  <1>8. x # v
    BY <1>3, <1>4 DEF Before
  <1> HIDE DEF P
  <1>9. CASE v # Null /\ u.node[v].type = "MOV"
    <2> DEFINE nd == [u.node[v] EXCEPT !.count = @ + d]
    <2>1. u.node[v] \in Node
      BY <1>4, <1>5
    <2>2. nd \in Node /\ nd.type = "MOV" /\ nd.count = u.node[v].count + d
      BY <2>1, <1>9 DEF Node
    <2>3. w = [u EXCEPT !.node = [u.node EXCEPT ![v] = nd]]
      BY <1>1, <1>9 DEF MovedUpTo
    <2> HIDE DEF nd
    <2>4. /\ w \in Tree /\ w.next = u.next /\ w.prev = u.prev /\ w.num = u.num
          /\ w.node = [u.node EXCEPT ![v] = nd]
      BY <1>4, <2>2, <2>3, <1>5 DEF Tree
    <2> HIDE DEF w, v
    <2>5. Untouched(g, w, r, x)
      BY <1>2, <1>5, <1>7, <2>4 DEF Untouched
    <2>6. Shifted(g.node[v], nd, sh[v]) /\ g.node[v].type = "MOV"
      BY <1>4, <1>9, <2>2 DEF Shifted, Same
    <2>7. NodesDone(g, w, sh, P)
      <3>1. ASSUME NEW y \in P PROVE Shifted(g.node[y], w.node[y], sh[y])
        <4>1. y \in NodeId
          BY <1>3 DEF Before
        <4>2. CASE y = v
          BY <4>1, <4>2, <2>4, <2>6, <1>5
        <4>3. CASE y # v
          <5>1. w.node[y] = u.node[y]
            BY <4>1, <4>3, <2>4, <1>5
          <5>2. QED BY <5>1, <1>2 DEF NodesDone
        <4>4. QED BY <4>2, <4>3
      <3>2. QED BY <3>1 DEF NodesDone
    <2>8. LinksDone(g, w, sh, P, v)
      <3>1. ASSUME NEW y \in P \cup {Null}, y # v
            PROVE  ComesTo(g, w, sh, y, g.next[y], sh[g.next[y]])
        <4>1. SameBehind(g, u, w, y)
          BY <1>3, <1>4, <1>5, <1>6, <2>4, <3>1 DEF SameBehind, Before
        <4>2. ComesTo(g, u, sh, y, g.next[y], sh[g.next[y]])
          BY <1>2, <3>1 DEF LinksDone
        <4>3. QED BY <4>1, <4>2, <2>4, ComesToKept
      <3>2. QED BY <3>1 DEF LinksDone
    <2>9. ComesTo(g, w, sh, v, x, c + d)
      <3>1. w.next[v] = x
        BY <1>1, <2>4 DEF v
      <3>2. w.node[v] = nd
        BY <1>4, <1>5, <2>4
      <3>3. Behind(g, u, sh, v) = sh[v] + u.node[v].count - g.node[v].count
            /\ Behind(g, w, sh, v) = sh[v] + (u.node[v].count + d) - g.node[v].count
        BY <2>2, <2>6, <3>2, <1>9 DEF Behind
      <3>4. sh[v] \in Int /\ u.node[v].count \in Int /\ g.node[v].count \in Int
        BY <1>2, <1>4, <1>5 DEF Node
      <3>5. Behind(g, w, sh, v) = c + d
        BY <1>1, <3>3, <3>4 DEF v
      <3>6. QED BY <3>1, <3>5 DEF ComesTo
    <2>10. QED BY <1>2, <2>4, <2>5, <2>7, <2>8, <2>9 DEF Coming, w, v, P
  <1>10. CASE ~(v # Null /\ u.node[v].type = "MOV")
    <2> DEFINE nd == At("MOV", d, 0)
    <2>1. nd \in Node /\ nd.type = "MOV" /\ nd.count = d
      <3>1. nd \in Node
        BY AtType DEF Token
      <3>2. QED BY <3>1 DEF At, Blank
    <2>2. w = AddNodeAfter(u, v, nd)
      BY <1>1, <1>10 DEF MovedUpTo
    <2> HIDE DEF nd
    <2>3. /\ w = [ next |-> w.next, prev |-> w.prev, node |-> w.node, num |-> w.num ]
          /\ w.next = [u.next EXCEPT ![id] = x, ![v] = id]
          /\ w.prev = [u.prev EXCEPT ![id] = v, ![x] = id]
          /\ w.node = [u.node EXCEPT ![id] = nd]
          /\ w.num = id
      BY <1>1, <1>2, <2>2 DEF AddNodeAfter, SetPrev
    <2>4. id \in NodeId /\ g.num < id /\ id # Null /\ u.num < id
      BY <1>2, <1>5 DEF HasRoomFor
    <2>5. id # v /\ id # x /\ \A y \in NodeId : Live(g, y) => y # id
      BY <1>2, <1>4, <1>5, <1>6, <2>4
    <2> HIDE DEF w, v, id
    <2>6. /\ w.next \in [Link -> Link] /\ w.next[id] = x /\ w.next[v] = id
          /\ \A y \in Link : y # id /\ y # v => w.next[y] = u.next[y]
      BY <1>2, <1>4, <1>5, <2>3, <2>4, <2>5
    <2>7. /\ w.prev \in [NodeId -> Link]
          /\ \A y \in NodeId : y # id /\ y # x => w.prev[y] = u.prev[y]
      BY <1>2, <1>4, <1>5, <2>3, <2>4
    <2>8. /\ w.node \in [NodeId -> Node] /\ w.node[id] = nd
          /\ \A y \in NodeId : y # id => w.node[y] = u.node[y]
      BY <1>5, <2>1, <2>3, <2>4
    <2>9. w.num \in 0 .. MaxNode /\ u.num <= w.num /\ g.num <= w.num /\ id <= w.num
      BY <1>2, <1>5, <2>3, <2>4
    <2>10. w \in Tree
      BY <2>3, <2>6, <2>7, <2>8, <2>9 DEF Tree
    <2>11. Untouched(g, w, r, x)
      <3>1. ASSUME NEW y \in NodeId, Live(g, y), r[x] <= r[y]
            PROVE  w.node[y] = g.node[y] /\ w.next[y] = g.next[y] /\ (y # x => w.prev[y] = g.prev[y])
        <4>1. u.node[y] = g.node[y] /\ u.next[y] = g.next[y] /\ (y # x => u.prev[y] = g.prev[y])
          BY <1>2, <3>1 DEF Untouched
        <4>2. y # id /\ y # v
          BY <1>7, <2>5, <3>1
        <4>3. QED BY <4>1, <4>2, <2>6, <2>7, <2>8
      <3>2. QED BY <3>1 DEF Untouched
    <2>12. NodesDone(g, w, sh, P)
      BY <1>2, <1>3, <2>5, <2>8 DEF NodesDone, Before
    <2>13. \A z \in NodeId : g.num < z /\ z <= u.num => z # id /\ z # v
      BY <1>4, <1>5, <1>6, <2>4
    <2>14. LinksDone(g, w, sh, P, v)
      <3>1. ASSUME NEW y \in P \cup {Null}, y # v
            PROVE  ComesTo(g, w, sh, y, g.next[y], sh[g.next[y]])
        <4>1. y \in Link /\ y # id /\ (y # Null => y \in NodeId)
          BY <1>3, <2>4, <2>5, <3>1 DEF Before
        <4>2. w.next[y] = u.next[y] /\ (y # Null => w.node[y] = u.node[y])
          BY <4>1, <3>1, <2>6, <2>8
        <4>3. SameBehind(g, u, w, y)
          BY <4>2, <2>6, <2>8, <2>9, <2>13 DEF SameBehind
        <4>4. ComesTo(g, u, sh, y, g.next[y], sh[g.next[y]])
          BY <1>2, <3>1 DEF LinksDone
        <4>5. QED BY <4>3, <4>4, <2>10, ComesToKept
      <3>2. QED BY <3>1 DEF LinksDone
    <2>15. ComesTo(g, w, sh, v, x, c + d)
      <3>1. Behind(g, w, sh, v) = c
        BY <1>1, <1>4, <2>5, <2>8 DEF Behind, v
      <3>2. Inserted(g, w, id, (c + d) - c, x)
        BY <2>1, <2>4, <2>6, <2>8, <2>9 DEF Inserted
      <3>3. v # Null
        BY DEF v
      <3>4. QED BY <3>1, <3>2, <3>3, <2>6 DEF ComesTo
    <2>16. QED BY <1>2, <2>9, <2>10, <2>11, <2>12, <2>14, <2>15 DEF Coming, w, v, P
  <1>11. QED BY <1>9, <1>10

\* x is done, and the walk goes on to the next node or ends.
LEMMA NodeDone ==
  ASSUME NEW g \in Tree, WellFormed(g), NEW u \in Tree, NEW r, Places(g, r), NEW sh, NEW s,
         NEW x, Coming(g, u, x, s, sh, r), NEW nd \in Node, Shifted(g.node[x], nd, s),
         NEW c \in Int,
         c = IF g.node[x].type = "MOV" THEN s + nd.count - g.node[x].count ELSE s
  PROVE  \E sh2 :
           IF g.next[x] = Null THEN Regained(g, Replaced(u, x, nd), c, sh2)
           ELSE Working(g, Replaced(u, x, nd), g.next[x], c, sh2, r)
  <1> DEFINE v == g.prev[x]
             P == Passed(g, r, x)
             w == Replaced(u, x, nd)
             sh2 == [sh EXCEPT ![x] = s]
  <1>1. /\ x \in NodeId /\ Live(g, x) /\ sh \in [NodeId -> Int] /\ g.num <= u.num /\ s \in Int
        /\ Untouched(g, u, r, x) /\ NodesDone(g, u, sh, P) /\ LinksDone(g, u, sh, P, v)
        /\ ComesTo(g, u, sh, v, x, s)
    BY DEF Coming
  <1>2. Before(g, x, P)
    BY <1>1, PassedLie
  <1>3. /\ u.next \in [Link -> Link] /\ u.prev \in [NodeId -> Link]
        /\ u.node \in [NodeId -> Node] /\ g.node \in [NodeId -> Node]
        /\ u.num \in Nat /\ g.num \in Nat
    BY DEF Tree
  <1>4. w = [u EXCEPT !.node = [u.node EXCEPT ![x] = nd]]
    BY DEF Replaced
  <1>5. /\ w \in Tree /\ w.next = u.next /\ w.prev = u.prev /\ w.num = u.num
        /\ w.node = [u.node EXCEPT ![x] = nd]
    BY <1>1, <1>3, <1>4 DEF Tree
  <1>6. /\ w.node[x] = nd /\ \A y \in NodeId : y # x => w.node[y] = u.node[y]
        /\ sh2 \in [NodeId -> Int] /\ sh2[x] = s
        /\ \A y \in NodeId : y # x => sh2[y] = sh[y]
    BY <1>1, <1>3, <1>5
  <1>7. x <= g.num
    BY <1>1, LiveSmall
  <1>8. x # Null
    BY <1>1
  <1> HIDE DEF w, P, v, sh2
  <1>9. ASSUME NEW y \in P \cup {Null} PROVE SameBehind(g, u, w, y) /\ (y # Null => sh2[y] = sh[y])
    <2>1. y # x /\ (y # Null => y \in NodeId)
      BY <1>2, <1>8 DEF Before
    <2>2. QED BY <2>1, <1>3, <1>5, <1>6, <1>7 DEF SameBehind
  <1>10. NodesDone(g, w, sh2, P \cup {x})
    BY <1>1, <1>2, <1>6 DEF NodesDone, Before
  <1>11. LinksDone(g, w, sh2, P \cup {x}, x)
    <2>1. ASSUME NEW y \in P \cup {Null}
          PROVE  ComesTo(g, w, sh2, y, g.next[y], sh2[g.next[y]])
      <3>1. CASE y # v
        <4>1. ComesTo(g, u, sh, y, g.next[y], sh[g.next[y]])
          BY <1>1, <3>1 DEF LinksDone
        <4>2. g.next[y] \in NodeId /\ g.next[y] # x
          BY <1>2, <3>1 DEF Before, v
        <4>3. sh2[g.next[y]] = sh[g.next[y]]
          BY <4>2, <1>6
        <4>4. QED BY <4>1, <4>3, <1>5, <1>9, ComesToKept
      <3>2. CASE y = v
        <4>1. ComesTo(g, w, sh2, y, x, s)
          BY <1>1, <1>5, <1>9, <3>2, ComesToKept
        <4>2. g.next[y] = x
          BY <1>2, <3>2 DEF Before, v
        <4>3. QED BY <4>1, <4>2, <1>6
      <3>3. QED BY <3>1, <3>2
    <2>2. QED BY <2>1, <1>8 DEF LinksDone
  <1>12. Behind(g, w, sh2, x) = c
    BY <1>6, <1>8 DEF Behind
  <1>13. r[x] <= r[x] /\ u.next[x] = g.next[x] /\ w.next[x] = g.next[x]
    BY <1>1, <1>5 DEF Untouched, Places
  <1>14. CASE g.next[x] = Null
    <2>1. \A y \in NodeId : Live(g, y) => y \in P \cup {x}
      BY <1>1, <1>14, OneMorePassed DEF P
    <2>2. ASSUME NEW y \in P \cup {x, Null} PROVE GoesToNext(g, w, c, sh2, y)
      <3>1. CASE y = x
        BY <3>1, <1>12, <1>13, <1>14 DEF GoesToNext
      <3>2. CASE y # x
        <4>1. y \in P \cup {Null}
          BY <3>2
        <4>2. g.next[y] # Null
          BY <4>1, <1>2, <1>8 DEF Before
        <4>3. ComesTo(g, w, sh2, y, g.next[y], sh2[g.next[y]])
          BY <4>1, <1>11, <3>2 DEF LinksDone
        <4>4. QED BY <4>2, <4>3 DEF GoesToNext
      <3>3. QED BY <3>1, <3>2
    <2>3. Regained(g, w, c, sh2)
      BY <2>1, <2>2, <1>6, <1>10 DEF Regained, NodesDone
    <2>4. QED BY <2>3, <1>14 DEF w
  <1>15. CASE g.next[x] # Null
    <2> DEFINE y == g.next[x]
    <2>1. /\ y \in NodeId /\ Live(g, y) /\ g.prev[y] = x /\ r[y] = r[x] + 1
          /\ Passed(g, r, y) = P \cup {x}
      BY <1>1, <1>15, OneMorePassed DEF P
    <2> HIDE DEF y
    <2>2. r[x] \in Int /\ r[y] \in Int /\ y # x
      BY <1>1, <2>1 DEF Places
    <2>3. Untouched(g, w, r, y)
      <3>1. ASSUME NEW z \in NodeId, Live(g, z), r[y] <= r[z]
            PROVE  w.node[z] = g.node[z] /\ w.next[z] = g.next[z] /\ w.prev[z] = g.prev[z]
        <4>1. r[z] \in Int
          BY DEF Places
        <4>2. r[x] <= r[z] /\ z # x
          BY <2>1, <2>2, <3>1, <4>1
        <4>3. u.node[z] = g.node[z] /\ u.next[z] = g.next[z] /\ u.prev[z] = g.prev[z]
          BY <1>1, <3>1, <4>2 DEF Untouched
        <4>4. QED BY <4>2, <4>3, <1>5, <1>6
      <3>2. QED BY <3>1 DEF Untouched
    <2>4. w.prev[y] = x /\ w.next[x] = y
      <3>1. u.prev[y] = g.prev[y]
        <4>1. r[x] <= r[y]
          BY <2>1, <2>2
        <4>2. QED BY <4>1, <2>1, <2>2, <1>1 DEF Untouched
      <3>2. QED BY <3>1, <2>1, <1>5, <1>13 DEF y
    <2>5. ComesTo(g, w, sh2, x, y, c)
      BY <2>4, <1>12 DEF ComesTo
    <2>6. g.num <= w.num
      BY <1>1, <1>5
    <2>7. Coming(g, w, y, c, sh2, r)
      BY <2>1, <2>3, <2>5, <2>6, <1>6, <1>10, <1>11 DEF Coming
    <2>8. Working(g, w, y, c, sh2, r)
      BY <2>1, <2>4, <2>7, <1>12 DEF Working
    <2>9. QED BY <2>8, <1>15 DEF w, y
  <1>16. QED BY <1>14, <1>15

(***************************************************************************)
(* The walk makes such a list.                                             *)
(***************************************************************************)
HasWorked(g, u, x, c) == \E r, sh : Places(g, r) /\ Working(g, u, x, c, sh, r)
HasRegained(g, u, c)  == \E sh : Regained(g, u, c, sh)

Regaining ==
  /\ given \in RegenTrees
  /\ pass \in {"stats", "skipped"} => tree = given /\ current_shift = 0
  /\ HeadStays(given) =>
       /\ pass = "walk" => HasWorked(given, tree, n, current_shift)
       /\ pass = "over" => HasRegained(given, tree, current_shift)

\* The tree the pass was given is sound.
LEMMA GivenFine ==
  ASSUME Regaining
  PROVE  given \in Tree /\ WellFormed(given) /\ Complete(given)
  BY RegenAssumption DEF Regaining

\* At the head nothing has been passed.
LEMMA StartsWorking ==
  ASSUME NEW g \in Tree, WellFormed(g), Complete(g), g.next[Null] # Null
  PROVE  HasWorked(g, g, g.next[Null], 0)
  <1> DEFINE x == g.next[Null]
             sh == [y \in NodeId |-> 0]
  <1>1. PICK r : Places(g, r)
    BY CompletePlaces
  <1>2. Live(g, x) /\ x \in NodeId /\ g.prev[x] = Null
    BY DEF WellFormed, DoublyLinked, Live
  <1>3. Passed(g, r, x) = {}
    <2>1. \A y \in NodeId : Live(g, y) => r[x] <= r[y] /\ r[x] \in Int /\ r[y] \in Int
      BY <1>1, <1>2 DEF Places
    <2>2. QED BY <2>1 DEF Passed
  <1>4. Untouched(g, g, r, x)
    BY DEF Untouched
  <1>5. NodesDone(g, g, sh, Passed(g, r, x)) /\ LinksDone(g, g, sh, Passed(g, r, x), g.prev[x])
    BY <1>2, <1>3 DEF NodesDone, LinksDone
  <1>6. Behind(g, g, sh, Null) = 0
    BY DEF Behind
  <1>7. ComesTo(g, g, sh, g.prev[x], x, 0)
    BY <1>2, <1>6 DEF ComesTo
  <1>8. g.num <= g.num
    BY DEF Tree
  <1>9. sh \in [NodeId -> Int]
    OBVIOUS
  <1> HIDE DEF sh
  <1>10. Coming(g, g, x, 0, sh, r)
    BY <1>2, <1>4, <1>5, <1>7, <1>8, <1>9 DEF Coming
  <1>11. Working(g, g, x, 0, sh, r)
    BY <1>2, <1>6, <1>10 DEF Working
  <1>12. QED BY <1>1, <1>11 DEF HasWorked

\* In an empty list there is nothing to do.
LEMMA EmptyRegained ==
  ASSUME NEW g \in Tree, Complete(g), g.next[Null] = Null
  PROVE  HasRegained(g, g, 0)
  <1> DEFINE sh == [y \in NodeId |-> 0]
  <1>1. PICK r : Places(g, r)
    BY CompletePlaces
  <1>2. \A y \in NodeId : ~Live(g, y)
    BY <1>1 DEF Places
  <1>3. GoesToNext(g, g, 0, sh, Null)
    BY DEF GoesToNext, Behind
  <1>4. sh \in [NodeId -> Int]
    OBVIOUS
  <1> HIDE DEF sh
  <1>5. Regained(g, g, 0, sh)
    BY <1>2, <1>3, <1>4 DEF Regained
  <1>6. QED BY <1>5 DEF HasRegained

\* A step that has dealt with the node the walk stands on.
LEMMA StepRegains ==
  ASSUME Regaining, HeadStays(given), tree \in Tree, pass = "walk",
         NEW t \in Tree, NEW s, NEW r, NEW sh, Places(given, r),
         Coming(given, t, n, s, sh, r),
         NEW nd \in Node, Shifted(given.node[n], nd, s),
         tree' = Replaced(t, n, nd), n' = t.next[n],
         pass' = IF t.next[n] = Null THEN "over" ELSE pass,
         current_shift' \in Int,
         current_shift' = IF given.node[n].type = "MOV"
                          THEN s + nd.count - given.node[n].count ELSE s,
         given' = given
  PROVE  Regaining'
  <1>1. given \in Tree /\ WellFormed(given)
    BY GivenFine
  <1>2. t.next[n] = given.next[n]
    <2>1. n \in NodeId /\ Live(given, n) /\ Untouched(given, t, r, n) /\ r[n] \in Int
      BY DEF Coming, Places
    <2>2. QED BY <2>1 DEF Untouched
  <1>3. PICK sh2 : IF given.next[n] = Null
                   THEN Regained(given, Replaced(t, n, nd), current_shift', sh2)
                   ELSE Working(given, Replaced(t, n, nd), given.next[n], current_shift', sh2, r)
    BY <1>1, NodeDone
  <1>4. given' \in RegenTrees /\ HeadStays(given')
    BY DEF Regaining
  <1>5. CASE given.next[n] = Null
    <2>1. pass' = "over"
      BY <1>2, <1>5
    <2>2. Regained(given', tree', current_shift', sh2)
      BY <1>3, <1>5
    <2>3. HasRegained(given', tree', current_shift')
      BY <2>2 DEF HasRegained
    <2>4. HasRegained(given, tree, current_shift)'
      BY <2>3 DEF HasRegained, Regained, Shifted, Same, GoesToNext, ComesTo, Behind, Inserted, Live
    <2>5. QED BY <1>4, <2>1, <2>4 DEF Regaining
  <1>6. CASE given.next[n] # Null
    <2>1. pass' = "walk" /\ n' = given.next[n]
      BY <1>2, <1>6
    <2>2. Working(given', tree', n', current_shift', sh2, r)
      BY <1>3, <1>6, <2>1
    <2>3. HasWorked(given', tree', n', current_shift')
      BY <2>2 DEF HasWorked
    <2>4. QED BY <1>4, <2>1, <2>3 DEF Regaining
  <1>7. QED BY <1>5, <1>6

\* Before the walk nothing has been done.
LEMMA RegainingInit == Init => Regaining
  BY DEF Init, Regaining

\* The walk stands on a node that is as it was.
LEMMA StandsOn ==
  ASSUME Regaining, HeadStays(given), tree \in Tree, pass = "walk"
  PROVE  \E r, sh : /\ Places(given, r) /\ Working(given, tree, n, current_shift, sh, r)
                    /\ Coming(given, tree, n, current_shift, sh, r)
                    /\ n \in NodeId /\ given.node[n] \in Node /\ tree.node[n] = given.node[n]
                    /\ current_shift \in Int
  <1>1. PICK r, sh : Places(given, r) /\ Working(given, tree, n, current_shift, sh, r)
    BY DEF Regaining, HasWorked
  <1>2. Coming(given, tree, n, current_shift, sh, r) /\ n \in NodeId /\ current_shift \in Int
        /\ Live(given, n) /\ Untouched(given, tree, r, n) /\ r[n] \in Int
    BY <1>1 DEF Working, Coming, Places
  <1>3. given \in Tree
    BY GivenFine
  <1>4. tree.node[n] = given.node[n] /\ given.node[n] \in Node
    BY <1>2, <1>3 DEF Untouched, Tree
  <1>5. QED BY <1>1, <1>2, <1>4

\* A bracket, once the pointer has been moved up to its cell.
LEMMA BracketRegains ==
  ASSUME Regaining, HeadStays(given), tree \in Tree, pass = "walk", RegenBracket, given' = given
  PROVE  Regaining'
  <1> DEFINE off == tree.node[n].offset
             t == IF off = current_shift THEN tree
                  ELSE MovedUpTo(tree, n, off - current_shift)
             nd == [t.node[n] EXCEPT !.offset = 0]
  <1>1. PICK r, sh :
          /\ Places(given, r) /\ Working(given, tree, n, current_shift, sh, r)
          /\ Coming(given, tree, n, current_shift, sh, r)
          /\ n \in NodeId /\ given.node[n] \in Node /\ tree.node[n] = given.node[n]
          /\ current_shift \in Int
    BY StandsOn
  <1>2. given \in Tree /\ WellFormed(given)
    BY GivenFine
  <1>3. /\ tree' = [t EXCEPT !.node[n].offset = 0] /\ current_shift' = off
        /\ n' = t.next[n] /\ pass' = IF t.next[n] = Null THEN "over" ELSE pass
        /\ off # current_shift => HasRoomFor(tree, 1)
        /\ given.node[n].type \in Bracket \cup {"DUMP", "STOP"}
    BY <1>1 DEF RegenBracket, GoesOn, Walking
  <1>4. tree' = Replaced(t, n, nd)
    BY <1>3 DEF Replaced
  <1>5. off \in Int /\ off = given.node[n].offset
    BY <1>1 DEF Node
  <1>6. t \in Tree /\ Coming(given, t, n, off, sh, r)
    <2>1. CASE off = current_shift
      BY <1>1, <2>1
    <2>2. CASE off # current_shift
      <3>1. given.prev[n] # Null
        <4>1. SUFFICES ASSUME given.prev[n] = Null PROVE FALSE
          OBVIOUS
        <4>2. current_shift = 0
          BY <1>1, <4>1 DEF Working, Behind
        <4>3. given.next[Null] = n /\ n # Null
          BY <1>1, <1>2, <4>1 DEF WellFormed, DoublyLinked, Coming
        <4>4. given.node[n].offset = 0
          BY <1>3, <4>3 DEF HeadStays
        <4>5. QED BY <1>5, <2>2, <4>2, <4>4
      <3>2. off - current_shift \in Int /\ HasRoomFor(tree, 1)
        BY <1>1, <1>3, <1>5, <2>2
      <3>3. current_shift + (off - current_shift) = off
        BY <1>1, <1>5
      <3>4. t = MovedUpTo(tree, n, off - current_shift)
        BY <2>2
      <3> HIDE DEF off, t
      <3>5. Coming(given, t, n, current_shift + (off - current_shift), sh, r) /\ t \in Tree
        BY <1>1, <1>2, <3>1, <3>2, <3>4, MovesUp
      <3>6. QED BY <3>3, <3>5
    <2>3. QED BY <2>1, <2>2
  <1> HIDE DEF t, off
  <1>7. t.node[n] = given.node[n]
    BY <1>1, <1>6 DEF Coming, Untouched, Places
  <1>8. nd \in Node /\ Shifted(given.node[n], nd, off)
    BY <1>1, <1>3, <1>5, <1>7 DEF Node, Shifted, Same, Bracket, Openers, Closers, Calc
  <1>9. given.node[n].type # "MOV"
    BY <1>3 DEF Bracket, Openers, Closers
  <1> HIDE DEF nd
  <1>10. current_shift' = IF given.node[n].type = "MOV"
                          THEN off + nd.count - given.node[n].count ELSE off
    BY <1>3, <1>9
  <1>11. QED BY <1>1, <1>3, <1>4, <1>5, <1>6, <1>8, <1>10, StepRegains

\* A command: its operand is as far from the pointer as it was.
LEMMA CommandRegains ==
  ASSUME Regaining, HeadStays(given), tree \in Tree, pass = "walk", RegenCommand, given' = given
  PROVE  Regaining'
  <1> DEFINE nd == [tree.node[n] EXCEPT !.offset = @ - current_shift]
  <1>1. PICK r, sh :
          /\ Places(given, r) /\ Working(given, tree, n, current_shift, sh, r)
          /\ Coming(given, tree, n, current_shift, sh, r)
          /\ n \in NodeId /\ given.node[n] \in Node /\ tree.node[n] = given.node[n]
          /\ current_shift \in Int
    BY StandsOn
  <1>2. /\ tree' = Replaced(tree, n, nd) /\ current_shift' = current_shift
        /\ n' = tree.next[n] /\ pass' = IF tree.next[n] = Null THEN "over" ELSE pass
        /\ given.node[n].type \in Simple
    BY <1>1 DEF RegenCommand, GoesOn, Walking, Replaced
  <1>3. nd \in Node /\ Shifted(given.node[n], nd, current_shift)
    BY <1>1, <1>2 DEF Node, Shifted, Same, Simple, Bracket, Openers, Closers, Calc
  <1>4. given.node[n].type # "MOV"
    BY <1>2 DEF Simple
  <1> HIDE DEF nd
  <1>5. QED BY <1>1, <1>2, <1>3, <1>4, StepRegains

\* A calculation: so are the operands it uses.
LEMMA CalcRegains ==
  ASSUME Regaining, HeadStays(given), tree \in Tree, pass = "walk", RegenCalc, given' = given
  PROVE  Regaining'
  <1> DEFINE m  == tree.node[n]
             o1 == m.offset - current_shift
             o2 == m.offset2 - IF m.count2 # 0 THEN current_shift ELSE 0
             o3 == m.offset3 - IF m.count3 # 0 THEN current_shift ELSE 0
             nd == [m EXCEPT !.offset = o1, !.offset2 = o2, !.offset3 = o3]
  <1>1. PICK r, sh :
          /\ Places(given, r) /\ Working(given, tree, n, current_shift, sh, r)
          /\ Coming(given, tree, n, current_shift, sh, r)
          /\ n \in NodeId /\ given.node[n] \in Node /\ m = given.node[n]
          /\ current_shift \in Int
    BY StandsOn
  <1>2. /\ tree' = Replaced(tree, n, nd) /\ current_shift' = current_shift
        /\ n' = tree.next[n] /\ pass' = IF tree.next[n] = Null THEN "over" ELSE pass
        /\ given.node[n].type \in Calc
    BY <1>1 DEF RegenCalc, GoesOn, Walking, Replaced
  <1>3. o1 \in Int /\ o2 \in Int /\ o3 \in Int
        /\ (m.count2 # 0 => o2 = m.offset2 - current_shift)
        /\ (m.count3 # 0 => o3 = m.offset3 - current_shift)
    BY <1>1 DEF Node
  <1>4. given.node[n].type # "MOV" /\ given.node[n].type \notin Bracket
    BY <1>2 DEF Calc, Bracket, Openers, Closers
  <1>5. o1 = m.offset - current_shift
    OBVIOUS
  <1> HIDE DEF m, o1, o2, o3
  <1>6. nd \in Node /\ Shifted(given.node[n], nd, current_shift)
    BY <1>1, <1>3, <1>4, <1>5 DEF Node, Shifted, Same
  <1> HIDE DEF nd
  <1>7. QED BY <1>1, <1>2, <1>4, <1>6, StepRegains

\* A movement takes the shift up.
LEMMA MovRegains ==
  ASSUME Regaining, HeadStays(given), tree \in Tree, pass = "walk", RegenMov, given' = given
  PROVE  Regaining'
  <1> DEFINE nd == [tree.node[n] EXCEPT !.count = @ - current_shift]
  <1>1. PICK r, sh :
          /\ Places(given, r) /\ Working(given, tree, n, current_shift, sh, r)
          /\ Coming(given, tree, n, current_shift, sh, r)
          /\ n \in NodeId /\ given.node[n] \in Node /\ tree.node[n] = given.node[n]
          /\ current_shift \in Int
    BY StandsOn
  <1>2. /\ tree' = Replaced(tree, n, nd) /\ current_shift' = 0
        /\ n' = tree.next[n] /\ pass' = IF tree.next[n] = Null THEN "over" ELSE pass
        /\ given.node[n].type = "MOV"
    BY <1>1 DEF RegenMov, GoesOn, Walking, Replaced
  <1>3. nd \in Node /\ Shifted(given.node[n], nd, current_shift)
        /\ nd.count = given.node[n].count - current_shift
    BY <1>1, <1>2 DEF Node, Shifted, Same, Bracket, Openers, Closers
  <1>4. current_shift + nd.count - given.node[n].count = 0
    BY <1>1, <1>3 DEF Node
  <1> HIDE DEF nd
  <1>5. QED BY <1>1, <1>2, <1>3, <1>4, StepRegains

\* Every step of the pass keeps what the runs need.
LEMMA RegainingNext == IInv /\ Regaining /\ [Next]_vars => Regaining'
  <1> SUFFICES ASSUME IInv, Regaining, [Next]_vars PROVE Regaining'
    OBVIOUS
  <1>1. tree \in Tree
    BY DEF IInv
  <1>2. given' = given
    BY DEF Next, vars
  <1>3. given \in Tree /\ WellFormed(given) /\ Complete(given)
    BY GivenFine
  <1>4. CASE TakeStats
    <2>1. tree' = given /\ current_shift' = 0 /\ tree = given
      BY <1>4 DEF TakeStats, Regaining
    <2>2. CASE pass' = "skipped"
      BY <1>2, <2>1, <2>2 DEF Regaining
    <2>3. CASE pass' = "over"
      <3>1. given.next[Null] = Null
        BY <1>4, <2>1, <2>3 DEF TakeStats
      <3>2. HasRegained(given', tree', current_shift')
        BY <1>2, <1>3, <2>1, <3>1, EmptyRegained
      <3>3. HasRegained(given, tree, current_shift)'
        BY <3>2 DEF HasRegained, Regained, Shifted, Same, GoesToNext, ComesTo, Behind, Inserted, Live
      <3>4. QED BY <1>2, <2>3, <3>3 DEF Regaining
    <2>4. CASE pass' = "walk"
      <3>1. given.next[Null] # Null /\ n' = given.next[Null]
        BY <1>4, <2>1, <2>4 DEF TakeStats
      <3>2. HasWorked(given', tree', n', current_shift')
        BY <1>2, <1>3, <2>1, <3>1, StartsWorking
      <3>3. QED BY <1>2, <2>4, <3>2 DEF Regaining
    <2>5. QED BY <1>4, <2>2, <2>3, <2>4 DEF TakeStats
  <1>5. CASE RegenBracket \/ RegenCommand \/ RegenCalc \/ RegenMov
    <2>1. pass = "walk" /\ pass' \in {"walk", "over"}
      BY <1>5 DEF RegenBracket, RegenCommand, RegenCalc, RegenMov, Walking, GoesOn
    <2>2. CASE ~HeadStays(given)
      BY <1>2, <2>1, <2>2 DEF Regaining
    <2>3. CASE HeadStays(given)
      BY <1>1, <1>2, <1>5, <2>1, <2>3, BracketRegains, CommandRegains, CalcRegains, MovRegains
    <2>4. QED BY <2>2, <2>3
  <1>6. CASE UNCHANGED <<tree, n, current_shift, pass>>
    BY <1>2, <1>6 DEF Regaining
  <1>7. QED BY <1>4, <1>5, <1>6 DEF Next, RegenStep, vars


(***************************************************************************)
(* The two runs.  Now and then both machines stand on the same node, the   *)
(* pointer of the new one ahead by the node's shift.                       *)
(***************************************************************************)
Done(g, u, c, sh) ==
  /\ g \in RegenTrees /\ u \in Tree
  /\ sh \in [NodeId -> Int] /\ c \in Int
  /\ \A y \in NodeId : Live(g, y) => /\ Same(g.node[y], u.node[y], sh[y])
                                   /\ GoesToNext(g, u, c, sh, y)
  /\ GoesToNext(g, u, c, sh, Null)
  /\ \A y \in NodeId : g.node[y].type \in Bracket => sh[g.node[y].jmp] = sh[y]

Aligned(g, c, sh, a, b) ==
  \E d : /\ Beside(a, b, d)
         /\ a.status = "run"  => Live(g, a.n) /\ d = sh[a.n]
         /\ a.status = "done" => d = c

\* The walk has made this of the list: both brackets of a loop are come to
\* with the offset they had in common.
LEMMA RegainedIsDone ==
  ASSUME NEW g \in RegenTrees, NEW u \in Tree, NEW c, NEW sh, Regained(g, u, c, sh)
  PROVE  Done(g, u, c, sh)
  <1>1. WellFormed(g)
    BY RegenAssumption
  <1>2. ASSUME NEW y \in NodeId, g.node[y].type \in Bracket
        PROVE  sh[g.node[y].jmp] = sh[y]
    <2> DEFINE z == g.node[y].jmp
    <2>1. z \in NodeId /\ g.node[z].type \in Bracket /\ g.node[z].offset = g.node[y].offset
      BY <1>1, <1>2 DEF WellFormed, BracketsPaired, OffsetsPaired, Bracket
    <2>2. Live(g, y) /\ Live(g, z)
      BY <1>2, <2>1 DEF Live, Bracket, Openers, Closers
    <2>3. sh[z] = g.node[z].offset /\ sh[y] = g.node[y].offset
      BY <1>2, <2>1, <2>2 DEF Regained, Shifted
    <2>4. QED BY <2>1, <2>3
  <1>3. QED BY <1>2 DEF Done, Regained, Shifted

\* A list that is left as it was has no shift anywhere.
LEMMA SameIsDone ==
  ASSUME NEW g \in RegenTrees
  PROVE  Done(g, g, 0, [y \in NodeId |-> 0])
  <1> DEFINE sh == [y \in NodeId |-> 0]
  <1>1. g \in Tree /\ WellFormed(g)
    BY RegenAssumption
  <1>2. ASSUME NEW y \in Link, y = Null \/ Live(g, y) PROVE GoesToNext(g, g, 0, sh, y)
    <2>1. Behind(g, g, sh, y) = 0
      <3>1. CASE y = Null
        BY <3>1 DEF Behind
      <3>2. CASE y # Null
        <4>1. y \in NodeId /\ g.node[y].count \in Int /\ sh[y] = 0
          BY <1>1, <3>2 DEF Link, Tree, Node
        <4>2. QED BY <3>2, <4>1 DEF Behind
      <3>3. QED BY <3>1, <3>2
    <2>2. g.next[y] # Null => g.next[y] \in NodeId
      BY <1>1 DEF Tree, Link
    <2>3. g.next[y] # Null => sh[g.next[y]] = 0
      BY <2>2
    <2> HIDE DEF sh
    <2>4. QED BY <2>1, <2>3 DEF GoesToNext, ComesTo
  <1>3. ASSUME NEW y \in NodeId PROVE Same(g.node[y], g.node[y], sh[y])
    <2>1. g.node[y].offset \in Int /\ g.node[y].offset2 \in Int /\ g.node[y].offset3 \in Int
          /\ sh[y] = 0
      BY <1>1 DEF Tree, Node
    <2> HIDE DEF sh
    <2>2. QED BY <2>1 DEF Same
  <1>4. ASSUME NEW y \in NodeId, g.node[y].type \in Bracket
        PROVE  sh[g.node[y].jmp] = sh[y]
    BY <1>1, <1>4 DEF WellFormed, BracketsPaired
  <1>5. sh \in [NodeId -> Int] /\ 0 \in Int /\ Null \in Link
        /\ \A y \in NodeId : y \in Link
    BY DEF Link
  <1> HIDE DEF sh
  <1>6. Done(g, g, 0, sh)
    BY <1>1, <1>2, <1>3, <1>4, <1>5 DEF Done
  <1>7. QED BY <1>6 DEF sh

\* One machine goes on to the next node, the other one as well.
LEMMA GoOnBeside ==
  ASSUME NEW a, NEW b, NEW d, Beside(a, b, d), NEW x, NEW y
  PROVE  LET a2 == [a EXCEPT !.n = x]
             b2 == [b EXCEPT !.n = y]
         IN /\ y = x => Beside(a2, b2, d)
            /\ IsVm(b2) /\ b2.n = y /\ a2.n = x
            /\ b2.status = b.status /\ b2.p = b.p /\ a2.status = a.status
  BY DEF Beside, IsVm, Fields

MovedTo(m, d, y) == [[m EXCEPT !.p = @ + d] EXCEPT !.n = y]

\* A movement that the pass has inserted is carried out.
LEMMA MovementTurn ==
  ASSUME NEW u, NEW b, b.status = "run", IsVm(b), NEW d, u.node[b.n].type = "MOV",
         u.node[b.n].count = d, NEW y, y # Null, u.next[b.n] = y
  PROVE  Turn(u, b) = MovedTo(b, d, y)
  <1> DEFINE m == [b EXCEPT !.p = @ + d]
  <1>1. Exec(u, b) = m
    BY ExecMoves
  <1>2. m.status = "run" /\ m.n = b.n
    BY DEF IsVm, Fields
  <1> HIDE DEF m
  <1>3. Onward(u, m) = [m EXCEPT !.n = y]
    BY <1>2 DEF Onward, Null
  <1>4. Turn(u, b) = Onward(u, m)
    BY <1>1 DEF Turn, Step
  <1>5. QED BY <1>3, <1>4 DEF m, MovedTo

\* Behind a node the new list has the node that follows, or a movement first.
LEMMA OnwardAligned ==
  ASSUME NEW g, NEW u, NEW c, NEW sh, Done(g, u, c, sh),
         NEW a, NEW b, NEW y, y = a.n, Live(g, y), a.status = "run",
         Beside(a, b, Behind(g, u, sh, y))
  PROVE  LET a2 == Onward(g, a)
             b2 == Onward(u, b)
         IN Aligned(g, c, sh, a2, b2) \/ Aligned(g, c, sh, a2, Turn(u, b2))
  <1> DEFINE d  == Behind(g, u, sh, y)
             a2 == Onward(g, a)
             b2 == Onward(u, b)
             x  == g.next[y]
  <1>1. b.n = y /\ b.status = "run"
    BY DEF Beside
  <1>2. y \in NodeId /\ y # Null /\ g \in Tree /\ WellFormed(g) /\ GoesToNext(g, u, c, sh, y)
    BY RegenAssumption DEF Done, Live
  <1>3. CASE x = Null
    <2>1. u.next[y] = Null /\ d = c
      BY <1>2, <1>3 DEF GoesToNext
    <2>2. a2 = Halted(a, "done") /\ b2 = Halted(b, "done")
      BY <1>1, <1>3, <2>1 DEF Onward, Null
    <2> HIDE DEF a2, b2, x, d
    <2>3. Beside(a2, b2, d) /\ a2.status = "done"
      BY <2>2, HaltedBeside DEF d
    <2>4. Aligned(g, c, sh, a2, b2)
      BY <2>1, <2>3 DEF Aligned
    <2>5. QED BY <2>4 DEF a2, b2
  <1>4. CASE x # Null
    <2>1. Live(g, x)
      BY <1>2, <1>4 DEF WellFormed, DoublyLinked
    <2>2. ComesTo(g, u, sh, y, x, sh[x])
      BY <1>2, <1>4 DEF GoesToNext
    <2>3. a2 = [a EXCEPT !.n = x]
      BY <1>4 DEF Onward, Null
    <2>4. CASE u.next[y] = x /\ d = sh[x]
      <3>1. b2 = [b EXCEPT !.n = x]
        BY <1>1, <1>4, <2>4 DEF Onward, Null
      <3> HIDE DEF a2, b2, x, d
      <3>2. Beside(a2, b2, d) /\ a2.n = x /\ a2.status = "run"
        BY <2>3, <3>1, GoOnBeside DEF d
      <3>3. Aligned(g, c, sh, a2, b2)
        BY <2>1, <2>4, <3>2 DEF Aligned
      <3>4. QED BY <3>3 DEF a2, b2
    <2>5. CASE Inserted(g, u, u.next[y], sh[x] - d, x)
      <3> DEFINE z == u.next[y]
                 e == sh[x] - d
                 b3 == [b2 EXCEPT !.p = @ + e]
                 b4 == [b3 EXCEPT !.n = x]
      <3>1. z \in NodeId /\ u.node[z].type = "MOV" /\ u.node[z].count = e /\ u.next[z] = x
        BY <2>5 DEF Inserted
      <3>2. b2 = [b EXCEPT !.n = z]
        BY <1>1, <3>1 DEF Onward, Null, NodeId
      <3>3. sh[x] \in Int /\ d \in Int
        BY <2>1 DEF Done, Live, Beside
      <3>3a. x \in NodeId
        BY <2>1 DEF Live
      <3> HIDE DEF a2, b2, x, d, z
      <3>4. IsVm(b2) /\ b2.n = z /\ b2.status = "run" /\ b2.p = b.p /\ a2.n = x
            /\ a2.status = "run"
        BY <1>1, <2>3, <3>2, GoOnBeside DEF d
      <3>5. Turn(u, b2) = b4
        <4>1. /\ u.node[b2.n].type = "MOV" /\ u.node[b2.n].count = e
              /\ u.next[b2.n] = x
          BY <3>1, <3>4
        <4> HIDE DEF e, b3, b4
        <4>2. Turn(u, b2) = MovedTo(b2, e, x)
          BY <1>4, <3>4, <4>1, MovementTurn
        <4>3. QED BY <4>2 DEF b3, b4, MovedTo
      <3>6. b4 = [[b EXCEPT !.p = @ + e] EXCEPT !.n = x]
        BY <3>2 DEF Beside, IsVm, Fields
      <3> DEFINE m1 == [b EXCEPT !.p = @ + e]
      <3>7. e \in Int /\ d + e = sh[x]
        BY <3>3
      <3> HIDE DEF e
      <3>8. Beside(a, m1, d + e)
        BY <3>7, MovesAlone DEF d
      <3>9. b4 = [m1 EXCEPT !.n = x]
        BY <3>6
      <3> HIDE DEF m1, b4
      <3>10. Beside(a2, b4, sh[x])
        BY <2>3, <3>7, <3>8, <3>9, GoOnBeside
      <3>11. Aligned(g, c, sh, a2, b4)
        BY <2>1, <3>4, <3>10 DEF Aligned
      <3>12. QED BY <3>5, <3>11 DEF a2, b2
    <2> HIDE DEF x, a2, b2
    <2>6. QED BY <1>2, <2>2, <2>4, <2>5 DEF ComesTo, a2, b2
  <1> HIDE DEF x, a2, b2
  <1>5. QED BY <1>3, <1>4 DEF a2, b2

\* A turn of the old machine is one turn of the new one, or two.
LEMMA TurnAligned ==
  ASSUME NEW g, NEW u, NEW c, NEW sh, Done(g, u, c, sh),
         NEW a, NEW b, Aligned(g, c, sh, a, b)
  PROVE  LET a2 == Turn(g, a)
             b2 == Turn(u, b)
         IN Aligned(g, c, sh, a2, b2) \/ Aligned(g, c, sh, a2, Turn(u, b2))
  <1>1. CASE a.status # "run"
    <2>1. b.status # "run"
      BY <1>1 DEF Aligned, Beside
    <2>2. Turn(g, a) = a /\ Turn(u, b) = b
      BY <1>1, <2>1 DEF Turn
    <2>3. QED BY <2>2
  <1>2. CASE a.status = "run"
    <2> DEFINE x  == a.n
               d  == sh[x]
               na == g.node[x]
               nb == u.node[x]
               m  == Exec(g, a)
               m2 == Exec(u, b)
               e  == ShiftAfter(na, nb, d)
    <2>1. Beside(a, b, d) /\ Live(g, x) /\ b.n = x /\ b.status = "run"
      BY <1>2 DEF Aligned, Beside
    <2>2. g \in Tree /\ u \in Tree /\ WellFormed(g) /\ x \in NodeId
          /\ (na.type = "LT" => na.count2 # 0 /\ na.count3 # 0)
      BY <2>1, RegenAssumption DEF Done, Live, Factors
    <2>3. Same(na, nb, d) /\ na.type # "FREE"
      BY <2>1, <2>2 DEF Done, Live
    <2>4. Twins(na, nb, d)
      BY <2>2, <2>3 DEF Twins, Tree
    <2>5. Beside(m, m2, e) /\ Proceeds(a, m, na)
      BY <2>1, <2>4, ExecBeside
    <2>6. Turn(g, a) = Onward(g, m) /\ Turn(u, b) = Onward(u, m2)
      BY <1>2, <2>1 DEF Turn, Step
    <2>7. e = Behind(g, u, sh, x)
      BY <2>2 DEF ShiftAfter, Behind, NodeId, Null
    <2>8. CASE m.status \notin {"run", "done"}
      <3> HIDE DEF m, m2, e
      <3>1. m2.status # "run"
        BY <2>5, <2>8 DEF Beside
      <3>2. Onward(g, m) = m /\ Onward(u, m2) = m2
        BY <2>8, <3>1 DEF Onward
      <3>3. Aligned(g, c, sh, m, m2)
        BY <2>5, <2>8 DEF Aligned
      <3>4. QED BY <2>6, <3>2, <3>3
    <2>9. CASE m.n = x /\ m.status = "run"
      <3> HIDE DEF m, m2, e
      <3>1. Beside(m, m2, Behind(g, u, sh, x))
        BY <2>5, <2>7
      <3>2. QED BY <2>1, <2>6, <2>9, <3>1, OnwardAligned
    <2>10. CASE na.type \in Bracket /\ m.n = na.jmp /\ m.status = "run"
      <3> DEFINE y == na.jmp
      <3>1. y \in NodeId /\ g.node[y].type \in Bracket
        BY <2>2, <2>10 DEF WellFormed, BracketsPaired, Bracket
      <3>2. Live(g, y)
        BY <3>1 DEF Live, Bracket, Openers, Closers
      <3>4. g.node[y].type # "MOV" /\ na.type # "MOV"
        BY <2>10, <3>1 DEF Bracket, Openers, Closers
      <3>5. sh[y] = d
        BY <2>2, <2>10 DEF Done
      <3>6. Behind(g, u, sh, y) = sh[y]
        BY <3>1, <3>4 DEF Behind, NodeId, Null
      <3>7. e = d
        BY <3>4 DEF ShiftAfter
      <3> HIDE DEF m, m2, e, y, d
      <3>8. Beside(m, m2, Behind(g, u, sh, y))
        BY <2>5, <3>1, <3>5, <3>6, <3>7
      <3>9. QED BY <2>6, <2>10, <3>2, <3>8, OnwardAligned DEF y
    <2> HIDE DEF m, m2, e
    <2>11. QED BY <1>2, <2>5, <2>8, <2>9, <2>10 DEF Proceeds, Goes, InPlace
  <1>3. QED BY <1>1, <1>2

\* At the head the machines differ in nothing.
LEMMA StartAligned ==
  ASSUME NEW g, NEW u, NEW c, NEW sh, Done(g, u, c, sh), NEW tape \in Tapes
  PROVE  LET a == Machine(g, tape, NoString, Stdin)
             b == Machine(u, tape, NoString, Stdin)
         IN Aligned(g, c, sh, a, b)
  <1> DEFINE a == Machine(g, tape, NoString, Stdin)
             b == Machine(u, tape, NoString, Stdin)
             x == g.next[Null]
  <1>1. IsTape(tape) /\ Stdin \in Seq(Int) /\ NoString \in [on : BOOLEAN, left : Seq(Int)]
    BY InputAssumption DEF IsTape, NoString
  <1>2. IsVm(a)
    BY <1>1 DEF Machine, IsVm, Fields
  <1>3. g \in Tree /\ WellFormed(g) /\ GoesToNext(g, u, c, sh, Null)
    BY RegenAssumption DEF Done
  <1>4. Behind(g, u, sh, Null) = 0
    BY DEF Behind
  <1>5. u.next[Null] = x /\ (x = Null => c = 0) /\ (x # Null => sh[x] = 0)
    BY <1>3, <1>4 DEF GoesToNext, ComesTo
  <1>6. b = a
    BY <1>5 DEF Machine, Null
  <1>7. a.n = x /\ a.status = IF x = Null THEN "done" ELSE "run"
    BY DEF Machine, Null
  <1>8. x # Null => Live(g, x)
    BY <1>3 DEF WellFormed, DoublyLinked
  <1> HIDE DEF a, b, x
  <1>9. Beside(a, b, 0)
    BY <1>2, <1>6 DEF Beside, IsVm
  <1>10. (a.status = "run" => x # Null) /\ (a.status = "done" => x = Null)
    BY <1>7
  <1>11. Aligned(g, c, sh, a, b)
    BY <1>5, <1>7, <1>8, <1>9, <1>10 DEF Aligned
  <1>12. QED BY <1>11 DEF a, b

\* So for every run of the old program there is one of the new, at most twice
\* as long.
LEMMA RunsAligned ==
  ASSUME NEW g, NEW u, NEW c, NEW sh, Done(g, u, c, sh), NEW tape \in Tapes, NEW k \in Nat
  PROVE  \E j \in k .. 2 * k :
           Aligned(g, c, sh, Ran(g, tape, k), Ran(u, tape, j))
  <1> DEFINE A == Machine(g, tape, NoString, Stdin)
             B == Machine(u, tape, NoString, Stdin)
             T == {i \in Nat : \E j \in i .. 2 * i :
                     Aligned(g, c, sh, Turns(g, A, i), Turns(u, B, j))}
  <1>1. Aligned(g, c, sh, A, B)
    BY StartAligned
  <1> HIDE DEF A, B
  <1>2. 0 \in T
    <2>1. Turns(g, A, 0) = A /\ Turns(u, B, 0) = B
      BY TurnsGoOn
    <2>2. QED BY <1>1, <2>1
  <1>3. ASSUME NEW i \in Nat, i \in T PROVE i + 1 \in T
    <2>1. PICK j \in i .. 2 * i : Aligned(g, c, sh, Turns(g, A, i), Turns(u, B, j))
      BY <1>3
    <2>2. j \in Nat /\ j + 1 \in Nat
      BY <2>1
    <2>3. /\ Turns(g, A, i + 1) = Turn(g, Turns(g, A, i))
          /\ Turns(u, B, j + 1) = Turn(u, Turns(u, B, j))
          /\ Turns(u, B, j + 1 + 1) = Turn(u, Turns(u, B, j + 1))
      BY <1>3, <2>2, TurnsGoOn
    <2>4. \/ Aligned(g, c, sh, Turns(g, A, i + 1), Turns(u, B, j + 1))
          \/ Aligned(g, c, sh, Turns(g, A, i + 1), Turns(u, B, j + 1 + 1))
      BY <2>1, <2>3, TurnAligned
    <2>5. j + 1 \in i + 1 .. 2 * (i + 1) /\ j + 1 + 1 \in i + 1 .. 2 * (i + 1) /\ i + 1 \in Nat
      BY <2>1
    <2>6. QED BY <2>4, <2>5
  <1> HIDE DEF T
  <1>4. k \in T
    BY <1>2, <1>3, Induction
  <1>5. QED BY <1>4 DEF T, A, B, Ran

\* The list the pass leaves, also when it was not worth it.
LEMMA Comparable ==
  ASSUME IInv, Regaining, pass \in {"over", "skipped"}, HeadStays(given),
         NEW tape \in Tapes, NEW k \in Nat
  PROVE  \E j \in k .. 2 * k : \E d :
           /\ Beside(Ran(given, tape, k), Ran(tree, tape, j), d)
           /\ Ran(given, tape, k).status = "done" => d = current_shift
  <1>1. PICK sh : Done(given, tree, current_shift, sh)
    <2>1. CASE pass = "over"
      BY <2>1, RegainedIsDone DEF IInv, Regaining, HasRegained
    <2>2. CASE pass = "skipped"
      BY <2>2, SameIsDone DEF Regaining
    <2>3. QED BY <2>1, <2>2
  <1>2. PICK j \in k .. 2 * k : Aligned(given, current_shift, sh, Ran(given, tape, k), Ran(tree, tape, j))
    BY <1>1, RunsAligned
  <1>3. QED BY <1>2 DEF Aligned

(***************************************************************************)
(* What the properties say of the runs.                                    *)
(***************************************************************************)

\* All that is claimed of the runs holds of a list the walk has dealt with.
LEMMA KeepsMeaning == IInv /\ Regaining => RegenKeepsMeaning
  <1>1. SUFFICES ASSUME IInv, Regaining, pass \in {"over", "skipped"}, HeadStays(given),
                        NEW tape \in Tapes
                 PROVE  \E turns \in Fuel .. 2 * Fuel :
                          AsBefore(Ran(given, tape, Fuel), Ran(tree, tape, turns))
    BY DEF RegenKeepsMeaning
  <1>2. Fuel \in Nat
    BY InputAssumption
  <1>3. PICK j \in Fuel .. 2 * Fuel : \E d : Beside(Ran(given, tape, Fuel), Ran(tree, tape, j), d)
    BY <1>1, <1>2, Comparable
  <1>4. AsBefore(Ran(given, tape, Fuel), Ran(tree, tape, j))
    BY <1>3 DEF Beside, AsBefore
  <1>5. QED BY <1>4

\* The new program comes to its end in twice the turns, and stays there.
LEMMA AccountsForPointer == IInv /\ Regaining => PointerAccounted
  <1> DEFINE old(tape) == Ran(given, tape, Fuel)
             new(tape) == Ran(tree, tape, 2 * Fuel)
  <1>1. SUFFICES ASSUME IInv, Regaining, pass \in {"over", "skipped"}, HeadStays(given),
                        NEW tape \in Tapes, old(tape).status = "done"
                 PROVE  /\ new(tape).status = "done" /\ new(tape).tape = old(tape).tape
                        /\ new(tape).p = old(tape).p + current_shift
    BY DEF PointerAccounted
  <1>2. Fuel \in Nat /\ 2 * Fuel \in Nat
    BY InputAssumption
  <1>3. PICK j \in Fuel .. 2 * Fuel :
          \E d : Beside(old(tape), Ran(tree, tape, j), d) /\ d = current_shift
    BY <1>1, <1>2, Comparable
  <1>4. j \in Nat /\ j <= 2 * Fuel
    BY <1>2
  <1>5. Ran(tree, tape, j).status = "done"
    BY <1>1, <1>3 DEF Beside
  <1>6. new(tape) = Ran(tree, tape, j)
    BY <1>2, <1>4, <1>5, StaysStopped DEF Ran
  <1> HIDE DEF old, new
  <1>7. QED BY <1>3, <1>5, <1>6 DEF Beside

\* The invariant of the walk that the runs need: the nodes behind it do what
\* they did, each from its own shift, and each is followed by the node that
\* followed it, at that node's shift, or by one new movement to it.
THEOREM WalkRegains == Spec => [](IInv /\ Regaining)
  <1>1. Init => IInv /\ Regaining
    BY InitIInv, RegainingInit
  <1>2. IInv /\ Regaining /\ [Next]_vars => (IInv /\ Regaining)'
    BY NextIInv, RegainingNext
  <1>3. QED BY <1>1, <1>2, PTL DEF Spec

\* Whatever pointer_regen does to a program, it reads, writes and dumps what it
\* did before, with the same tape, in at most twice the turns, for every input,
\* every tape and every number of turns.
THEOREM RunsKept == Spec => []RegenKeepsMeaning
  BY KeepsMeaning, WalkRegains, PTL

\* And where it ends, it ends with the pointer moved by the shift the walk had
\* at its end: no other shift is forgotten.
THEOREM PointerKept == Spec => []PointerAccounted
  BY AccountsForPointer, WalkRegains, PTL
=============================================================================
