------------------------- MODULE PointerScanProofs -------------------------
(***************************************************************************)
(* Proofs about pointer_scan, for every tree the loader may leave, every   *)
(* number of nodes and every option: the types, the links, the pairing of  *)
(* the brackets and the nesting of the loops survive every step, and the   *)
(* program does what it did before.                                        *)
(*                                                                         *)
(* The list is looked at in three layers: the link functions alone (cut a  *)
(* node out, put it in), the shape of a tree (links and brackets), and the *)
(* operators of PointerScan that edit a tree.  The second half is about    *)
(* what the program does: each edit is written out, shown to leave a tree  *)
(* that is Alike in the sense of RunTreeProofs, and the steps of the pass  *)
(* are put together from the edits.                                        *)
(***************************************************************************)
EXTENDS PointerScan, RunTreeProofs

(***************************************************************************)
(* The links alone, over the set L of live nodes.                          *)
(***************************************************************************)
Linked(L, nx, pv) ==
  /\ \A x \in L \cup {Null} : nx[x] # Null => nx[x] \in L /\ pv[nx[x]] = x
  /\ \A x \in L : /\ pv[x] # Null => pv[x] \in L
                  /\ nx[pv[x]] = x

LiveNodes(t) == {x \in NodeId : Live(t, x)}

\* The positions r witness that the list has no cycle.
Ascends(L, nx, r) == \A x \in L : nx[x] # Null => r[x] < r[nx[x]]

\* Null is no node; links are nodes or Null.
LEMMA NullFacts == Null \notin NodeId /\ Null \in Link /\ NodeId \subseteq Link
                   /\ Link \ {Null} = NodeId
BY DEF Null, NodeId, Link

\* DoublyLinked says of a tree what Linked says of its three parts.
LEMMA DoublyLinkedIsLinked ==
  ASSUME NEW t \in Tree
  PROVE  DoublyLinked(t) <=> Linked(LiveNodes(t), t.next, t.prev)
BY NullFacts DEF DoublyLinked, Linked, LiveNodes, Live, Link

\* f and g are the links nx and pv once m is cut out.
CutOut(L, nx, pv, m, f, g) ==
  /\ \A x \in (L \ {m}) \cup {Null} : f[x] = IF x = pv[m] THEN nx[m] ELSE nx[x]
  /\ \A x \in L \ {m} : g[x] = IF x = nx[m] THEN pv[m] ELSE pv[x]

\* f and g are the links nx and pv once m is linked in behind e.
PutIn(L, nx, pv, m, e, f, g) ==
  /\ \A x \in L \cup {m, Null} :
       f[x] = IF x = m THEN nx[e] ELSE IF x = e THEN m ELSE nx[x]
  /\ \A x \in L \cup {m} :
       g[x] = IF x = m THEN e ELSE IF x = nx[e] THEN m ELSE pv[x]

\* With m added there are positions q again that agree with f and r.
Reordered(L, m, f, r) ==
  \E q \in [NodeId -> Int] :
    /\ Ascends(L \cup {m}, f, q)
    /\ \A x, y \in L : r[x] < r[y] <=> q[x] < q[y]

\* Cutting a node out of the list.
LEMMA RemoveLinked ==
  ASSUME NEW L \in SUBSET NodeId,
         NEW nx \in [Link -> Link], NEW pv \in [NodeId -> Link], Linked(L, nx, pv),
         NEW r \in [NodeId -> Int], Ascends(L, nx, r),
         NEW m \in L, 
         NEW f, NEW g, CutOut(L, nx, pv, m, f, g)
  PROVE  Linked(L \ {m}, f, g) /\ Ascends(L \ {m}, f, r)
<1> DEFINE a == pv[m]
           b == nx[m]
<1>1. /\ m # Null /\ a \in L \cup {Null} /\ b \in L \cup {Null} /\ nx[a] = m
      /\ b # Null => pv[b] = m
  BY NullFacts DEF Linked
<1>2. /\ b # Null => r[m] < r[b]
      /\ a # Null => r[a] < r[m]
      /\ \A x \in L : r[x] \in Int
  BY <1>1 DEF Ascends
<1>3. a # m /\ b # m /\ (b # Null => b # a)
  BY <1>1, <1>2, NullFacts
<1> HIDE DEF a, b
<1>4. /\ \A x \in (L \ {m}) \cup {Null} : f[x] = IF x = a THEN b ELSE nx[x]
      /\ \A x \in L \ {m} : g[x] = IF x = b THEN a ELSE pv[x]
  BY DEF a, b, CutOut
<1>5. ASSUME NEW x \in (L \ {m}) \cup {Null}, f[x] # Null
      PROVE  f[x] \in L \ {m} /\ g[f[x]] = x
  <2>1. CASE x = a
    BY <2>1, <1>1, <1>3, <1>4, <1>5
  <2>2. CASE x # a
    <3>1. f[x] = nx[x]
      BY <2>2, <1>4
    <3>2. nx[x] \in L /\ pv[nx[x]] = x
      BY <3>1, <1>5 DEF Linked
    <3>3. nx[x] # m /\ nx[x] # b
      BY <3>2, <2>2, <1>1, NullFacts DEF a
    <3> QED BY <3>1, <3>2, <3>3, <1>4
  <2> QED BY <2>1, <2>2
<1>6. ASSUME NEW x \in L \ {m}
      PROVE  (g[x] # Null => g[x] \in L \ {m}) /\ f[g[x]] = x
  <2>1. CASE x = b
    BY <2>1, <1>1, <1>3, <1>4
  <2>2. CASE x # b
    <3>1. g[x] = pv[x]
      BY <2>2, <1>4
    <3>2. (pv[x] # Null => pv[x] \in L) /\ nx[pv[x]] = x
      BY DEF Linked
    <3>3. pv[x] # m /\ pv[x] # a
      BY <3>2, <2>2, <1>1 DEF b
    <3> QED BY <3>1, <3>2, <3>3, <1>4
  <2> QED BY <2>1, <2>2
<1>7. Ascends(L \ {m}, f, r)
  <2> SUFFICES ASSUME NEW x \in L \ {m}, f[x] # Null PROVE r[x] < r[f[x]]
    BY DEF Ascends
  <2>1. CASE x = a
    BY <2>1, <1>1, <1>2, <1>4, NullFacts
  <2>2. CASE x # a
    BY <2>2, <1>4 DEF Ascends
  <2> QED BY <2>1, <2>2
<1> QED BY <1>5, <1>6, <1>7 DEF Linked

\* Linking a node in behind another one.  Positions keep their order.
LEMMA InsertLinked ==
  ASSUME NEW L \in SUBSET NodeId, NEW nx, NEW pv,
         NEW r \in [NodeId -> Int], NEW m \in NodeId \ L, NEW e \in L,
         NEW f, NEW g,
         Linked(L, nx, pv), Ascends(L, nx, r), PutIn(L, nx, pv, m, e, f, g)
  PROVE  Linked(L \cup {m}, f, g) /\ Reordered(L, m, f, r)
<1> DEFINE b == nx[e]
<1>1. /\ m # Null /\ e # Null /\ m # e /\ b \in L \cup {Null} /\ b # m
      /\ b # Null => pv[b] = e
  BY NullFacts DEF Linked
<1>2. \A x \in L : r[x] \in Int
  OBVIOUS
<1>3. b # e /\ (b # Null => r[e] < r[b])
  BY <1>1, <1>2 DEF Ascends
<1> HIDE DEF b
<1>4. /\ \A x \in L \cup {m, Null} : f[x] = IF x = m THEN b ELSE IF x = e THEN m ELSE nx[x]
      /\ \A x \in L \cup {m} : g[x] = IF x = m THEN e ELSE IF x = b THEN m ELSE pv[x]
  BY DEF b, PutIn
<1>5. ASSUME NEW x \in L \cup {m, Null}, f[x] # Null
      PROVE  f[x] \in L \cup {m} /\ g[f[x]] = x
  <2>1. CASE x = m
    BY <2>1, <1>1, <1>4, <1>5
  <2>2. CASE x = e
    BY <2>2, <1>1, <1>4
  <2>3. CASE x \notin {m, e}
    <3>1. f[x] = nx[x]
      BY <2>3, <1>4
    <3>2. nx[x] \in L /\ pv[nx[x]] = x
      BY <3>1, <2>3, <1>5 DEF Linked
    <3>3. nx[x] # b
      BY <3>2, <2>3, <1>1, NullFacts
    <3> QED BY <3>1, <3>2, <3>3, <1>4
  <2> QED BY <2>1, <2>2, <2>3
<1>6. ASSUME NEW x \in L \cup {m}
      PROVE  (g[x] # Null => g[x] \in L \cup {m}) /\ f[g[x]] = x
  <2>1. CASE x = m
    BY <2>1, <1>1, <1>4
  <2>2. CASE x = b
    BY <2>2, <1>1, <1>4
  <2>3. CASE x \notin {m, b}
    <3>1. g[x] = pv[x]
      BY <2>3, <1>4
    <3>2. (pv[x] # Null => pv[x] \in L) /\ nx[pv[x]] = x
      BY <2>3 DEF Linked
    <3>3. pv[x] # e /\ pv[x] # m
      BY <3>2, <2>3, <1>1 DEF b
    <3> QED BY <3>1, <3>2, <3>3, <1>4
  <2> QED BY <2>1, <2>2, <2>3
<1>7. Reordered(L, m, f, r)
  <2> DEFINE q == [x \in NodeId |-> IF x = m THEN 2 * r[e] + 1 ELSE 2 * r[x]]
  <2>1. q \in [NodeId -> Int]
    OBVIOUS
  <2>2. \A x, y \in L : r[x] < r[y] <=> q[x] < q[y]
    BY <1>2
  <2>3. Ascends(L \cup {m}, f, q)
    <3> SUFFICES ASSUME NEW x \in L \cup {m}, f[x] # Null PROVE q[x] < q[f[x]]
      BY DEF Ascends
    <3>1. CASE x = m
      BY <3>1, <1>1, <1>2, <1>3, <1>4
    <3>2. CASE x = e
      BY <3>2, <1>1, <1>2, <1>4
    <3>3. CASE x \notin {m, e}
      <4>1. f[x] = nx[x] /\ nx[x] \in L
        BY <3>3, <1>4 DEF Linked
      <4>2. r[x] < r[nx[x]]
        BY <3>3, <4>1 DEF Ascends
      <4> QED BY <3>3, <4>1, <4>2, <2>2
    <3> QED BY <3>1, <3>2, <3>3
  <2> HIDE DEF q
  <2> QED BY <2>1, <2>2, <2>3 DEF Reordered
<1> QED BY <1>5, <1>6, <1>7 DEF Linked

(***************************************************************************)
(* The shape of a tree: its links and what they say of the brackets.       *)
(***************************************************************************)

\* The positions r agree with the links, and loops nest.
Ordered(t, r) ==
  /\ Ascends(LiveNodes(t), t.next, r)
  /\ NestedBy(t, r)

Shape(t) ==
  /\ DoublyLinked(t)
  /\ ClosersFollow(t)
  /\ \E r \in [NodeId -> Int] : Ordered(t, r)

\* A node stays what it is, whatever its operands.
KindKept(t, u, x) ==
  u.node[x].type = t.node[x].type /\ u.node[x].jmp = t.node[x].jmp

\* The kinds of tokens that the proofs must tell apart.
LEMMA Kinds ==
  /\ "FREE" \notin Bracket /\ "MOV" \notin Bracket /\ "MOV" # "FREE"
  /\ Openers \subseteq Bracket /\ Closers \subseteq Bracket
  /\ Openers \cap Closers = {}
  /\ Simple \cap Bracket = {} /\ Calc \cap Bracket = {}
  /\ "FREE" \notin Simple /\ "FREE" \notin Calc
BY DEF Bracket, Openers, Closers, Simple, Calc

\* A bracket has not been freed.
LEMMA BracketsAreLive ==
  ASSUME NEW t \in Tree, NEW x \in NodeId, t.node[x].type \in Bracket
  PROVE  x \in LiveNodes(t)
BY Kinds DEF LiveNodes, Live

\* The types of a tree's fields.
LEMMA TreeParts ==
  ASSUME NEW t \in Tree
  PROVE  /\ t.next \in [Link -> Link]
         /\ t.prev \in [NodeId -> Link]
         /\ t.node \in [NodeId -> Node]
         /\ t.num \in 0 .. MaxNode
BY DEF Tree

\* Loops go on nesting where their brackets, all in K, keep their order.
LEMMA NestingKept ==
  ASSUME NEW t \in Tree, NEW u \in Tree, NEW r, NEW q, NestedBy(t, r),
         BracketsPaired(t), NEW K \in SUBSET NodeId,
         \A x \in NodeId : t.node[x].type \in Bracket => x \in K,
         \A x, y \in K : r[x] < r[y] <=> q[x] < q[y],
         \A x \in NodeId : u.node[x].type \in Openers => KindKept(t, u, x)
  PROVE  NestedBy(u, q)
<1>1. ASSUME NEW x \in NodeId, u.node[x].type \in Openers
      PROVE  /\ t.node[x].type \in Openers /\ u.node[x].jmp = t.node[x].jmp
             /\ x \in K /\ t.node[x].jmp \in K
  <2>1. t.node[x].type \in Openers /\ u.node[x].jmp = t.node[x].jmp
    BY <1>1 DEF KindKept
  <2>2. t.node[x].jmp \in NodeId /\ t.node[t.node[x].jmp].type \in Closers
    BY <2>1, Kinds DEF BracketsPaired
  <2> QED BY <2>1, <2>2, Kinds
<1>2. ASSUME NEW x \in NodeId, u.node[x].type \in Openers
      PROVE  q[x] < q[u.node[x].jmp]
  BY <1>1, <1>2 DEF NestedBy
<1>3. ASSUME NEW x \in NodeId, u.node[x].type \in Openers,
             NEW y \in NodeId, u.node[y].type \in Openers, Inside(u, q, x, y)
      PROVE  q[u.node[y].jmp] < q[u.node[x].jmp]
  <2>1. Inside(t, r, x, y)
    BY <1>1, <1>3 DEF Inside
  <2>2. r[t.node[y].jmp] < r[t.node[x].jmp]
    BY <1>1, <1>3, <2>1 DEF NestedBy
  <2> QED BY <1>1, <1>3, <2>2
<1> QED BY <1>2, <1>3 DEF NestedBy

\* The shape survives the removal of a node that is no bracket, if no closing
\* bracket becomes the head.
LEMMA ShapeRemove ==
  ASSUME NEW t \in Tree, NEW u \in Tree, Shape(t), BracketsPaired(t),
         NEW m \in NodeId, Live(t, m), t.node[m].type \notin Bracket,
         \/ t.prev[m] # Null
         \/ t.next[m] = Null
         \/ t.node[t.next[m]].type \notin Closers,
         \A x \in Link : x # m =>
           u.next[x] = IF x = t.prev[m] THEN t.next[m] ELSE t.next[x],
         \A x \in NodeId : x # m =>
           u.prev[x] = IF x = t.next[m] THEN t.prev[m] ELSE t.prev[x],
         u.node[m].type = "FREE",
         \A x \in NodeId : x # m => KindKept(t, u, x)
  PROVE  Shape(u)
<1> DEFINE L == LiveNodes(t)
<1>1. LiveNodes(u) = L \ {m} /\ m \in L /\ L \in SUBSET NodeId
  BY DEF LiveNodes, Live, KindKept
<1>2. Linked(L, t.next, t.prev)
  BY DoublyLinkedIsLinked DEF Shape
<1>3. PICK r \in [NodeId -> Int] : Ordered(t, r)
  BY DEF Shape
<1>4. Ascends(L, t.next, r)
  BY <1>3 DEF Ordered
<1>5. CutOut(L, t.next, t.prev, m, u.next, u.prev)
  BY <1>1, NullFacts DEF CutOut
<1> HIDE DEF L
<1>6. Linked(L \ {m}, u.next, u.prev) /\ Ascends(L \ {m}, u.next, r)
  BY <1>1, <1>2, <1>4, <1>5, TreeParts, RemoveLinked
<1>7. DoublyLinked(u)
  BY <1>1, <1>6, DoublyLinkedIsLinked
<1>8. ClosersFollow(u)
  <2> SUFFICES ASSUME NEW x \in NodeId, u.node[x].type \in Closers
               PROVE  u.prev[x] # Null
    BY DEF ClosersFollow
  <2>1. x # m /\ t.node[x].type \in Closers
    BY Kinds DEF KindKept
  <2>2. t.prev[x] # Null
    BY <2>1 DEF Shape, ClosersFollow
  <2>3. x = t.next[m] => t.prev[m] # Null
    BY <2>1, NullFacts
  <2> QED BY <2>1, <2>2, <2>3
<1>9. Ordered(u, r)
  <2>1. \A x \in NodeId : u.node[x].type \in Openers => KindKept(t, u, x)
    BY Kinds
  <2>2. NestedBy(u, r)
    BY <1>3, <2>1, Kinds, NestingKept DEF Ordered
  <2> QED BY <1>1, <1>6, <2>2 DEF Ordered
<1> QED BY <1>7, <1>8, <1>9 DEF Shape

\* The shape survives a new node that is no bracket behind a live node.
LEMMA ShapeInsert ==
  ASSUME NEW t \in Tree, NEW u \in Tree, Shape(t), BracketsPaired(t),
         NEW m \in NodeId, t.node[m].type = "FREE",
         u.node[m].type \notin Bracket \cup {"FREE"},
         NEW e \in NodeId, Live(t, e),
         \A x \in Link :
           u.next[x] = IF x = m THEN t.next[e] ELSE IF x = e THEN m ELSE t.next[x],
         \A x \in NodeId :
           u.prev[x] = IF x = m THEN e ELSE IF x = t.next[e] THEN m ELSE t.prev[x],
         \A x \in NodeId : x # m => KindKept(t, u, x)
  PROVE  Shape(u)
<1> DEFINE L == LiveNodes(t)
<1>1. LiveNodes(u) = L \cup {m} /\ m \notin L /\ e \in L /\ L \in SUBSET NodeId
  BY DEF LiveNodes, Live, KindKept
<1>2. Linked(L, t.next, t.prev)
  BY DoublyLinkedIsLinked DEF Shape
<1>3. PICK r \in [NodeId -> Int] : Ordered(t, r)
  BY DEF Shape
<1>4. Ascends(L, t.next, r)
  BY <1>3 DEF Ordered
<1>5. PutIn(L, t.next, t.prev, m, e, u.next, u.prev)
  BY <1>1, NullFacts DEF PutIn
<1> HIDE DEF L
<1>6. Linked(L \cup {m}, u.next, u.prev) /\ Reordered(L, m, u.next, r)
  BY <1>1, <1>2, <1>4, <1>5, InsertLinked
<1>7. DoublyLinked(u)
  BY <1>1, <1>6, DoublyLinkedIsLinked
<1>8. ClosersFollow(u)
  <2> SUFFICES ASSUME NEW x \in NodeId, u.node[x].type \in Closers
               PROVE  u.prev[x] # Null
    BY DEF ClosersFollow
  <2>1. x # m /\ t.node[x].type \in Closers
    BY Kinds DEF KindKept
  <2>2. t.prev[x] # Null
    BY <2>1 DEF Shape, ClosersFollow
  <2> QED BY <2>1, <2>2, NullFacts
<1>9. PICK q \in [NodeId -> Int] :
        /\ Ascends(L \cup {m}, u.next, q)
        /\ \A x, y \in L : r[x] < r[y] <=> q[x] < q[y]
  BY <1>6 DEF Reordered
<1>10. Ordered(u, q)
  <2>1. \A x \in NodeId : u.node[x].type \in Openers => KindKept(t, u, x)
    BY Kinds
  <2>2. \A x \in NodeId : t.node[x].type \in Bracket => x \in L
    BY BracketsAreLive DEF L
  <2>3. NestedBy(u, q)
    BY <1>1, <1>3, <1>9, <2>1, <2>2, NestingKept DEF Ordered
  <2> QED BY <1>1, <1>9, <2>3 DEF Ordered
<1> QED BY <1>7, <1>8, <1>10 DEF Shape

\* The shape survives when a node that is no bracket moves behind another one.
LEMMA ShapeMove ==
  ASSUME NEW t \in Tree, NEW u \in Tree, Shape(t), BracketsPaired(t),
         NEW m \in NodeId, Live(t, m), t.node[m].type \notin Bracket,
         t.next[m] # Null, t.node[t.next[m]].type \notin Closers,
         NEW e \in NodeId, Live(t, e), e # m, e # t.prev[m],
         \A x \in Link :
           u.next[x] = IF x = m THEN t.next[e] ELSE IF x = e THEN m
                       ELSE IF x = t.prev[m] THEN t.next[m] ELSE t.next[x],
         \A x \in NodeId :
           u.prev[x] = IF x = m THEN e ELSE IF x = t.next[e] THEN m
                       ELSE IF x = t.next[m] THEN t.prev[m] ELSE t.prev[x],
         \A x \in NodeId : KindKept(t, u, x)
  PROVE  Shape(u)
<1> DEFINE L  == LiveNodes(t)
           K  == L \ {m}
           nx == [x \in Link |-> IF x = t.prev[m] THEN t.next[m] ELSE t.next[x]]
           pv == [x \in NodeId |-> IF x = t.next[m] THEN t.prev[m] ELSE t.prev[x]]
<1>1. /\ LiveNodes(u) = K \cup {m} /\ L \in SUBSET NodeId /\ m \in L
      /\ K \in SUBSET NodeId /\ m \in NodeId \ K /\ e \in K
  BY DEF LiveNodes, Live, KindKept
<1>2. Linked(L, t.next, t.prev)
  BY DoublyLinkedIsLinked DEF Shape
<1>3. PICK r \in [NodeId -> Int] : Ordered(t, r)
  BY DEF Shape
<1>4. Ascends(L, t.next, r)
  BY <1>3 DEF Ordered
<1>5. CutOut(L, t.next, t.prev, m, nx, pv)
  BY <1>1, NullFacts DEF CutOut
<1>6. PutIn(K, nx, pv, m, e, u.next, u.prev)
  <2>1. nx[e] = t.next[e]
    BY <1>1, NullFacts
  <2>2. \A x \in K \cup {Null} : nx[x] = IF x = t.prev[m] THEN t.next[m] ELSE t.next[x]
    BY <1>1, NullFacts
  <2>3. \A x \in K : pv[x] = IF x = t.next[m] THEN t.prev[m] ELSE t.prev[x]
    BY <1>1, NullFacts
  <2> HIDE DEF nx, pv
  <2> QED BY <1>1, <2>1, <2>2, <2>3, NullFacts DEF PutIn
<1> HIDE DEF K, L, nx, pv
<1>7. Linked(K, nx, pv) /\ Ascends(K, nx, r)
  BY <1>1, <1>2, <1>4, <1>5, TreeParts, RemoveLinked DEF K
<1>8. Linked(K \cup {m}, u.next, u.prev) /\ Reordered(K, m, u.next, r)
  BY <1>1, <1>6, <1>7, InsertLinked
<1>9. DoublyLinked(u)
  BY <1>1, <1>8, DoublyLinkedIsLinked
<1>10. ClosersFollow(u)
  <2> SUFFICES ASSUME NEW x \in NodeId, u.node[x].type \in Closers
               PROVE  u.prev[x] # Null
    BY DEF ClosersFollow
  <2>1. x # m /\ t.node[x].type \in Closers
    BY Kinds DEF KindKept
  <2>2. t.prev[x] # Null /\ x # t.next[m]
    BY <2>1 DEF Shape, ClosersFollow
  <2> QED BY <2>1, <2>2, NullFacts
<1>11. PICK q \in [NodeId -> Int] :
         /\ Ascends(K \cup {m}, u.next, q)
         /\ \A x, y \in K : r[x] < r[y] <=> q[x] < q[y]
  BY <1>8 DEF Reordered
<1>12. Ordered(u, q)
  <2>1. \A x \in NodeId : t.node[x].type \in Bracket => x \in K
    BY BracketsAreLive DEF K, L
  <2>2. NestedBy(u, q)
    BY <1>1, <1>3, <1>11, <2>1, NestingKept DEF Ordered
  <2> QED BY <1>1, <1>11, <2>2 DEF Ordered
<1> QED BY <1>9, <1>10, <1>12 DEF Shape

(***************************************************************************)
(* What the nodes hold.                                                    *)
(***************************************************************************)
Content(t) == BracketsPaired(t) /\ OffsetsPaired(t) /\ Unallocated(t)

\* No bracket is made, unmade or changed.
BracketsKept(t, u) ==
  \A x \in NodeId :
    /\ u.node[x].type \in Bracket <=> t.node[x].type \in Bracket
    /\ t.node[x].type \in Bracket =>
         KindKept(t, u, x) /\ u.node[x].offset = t.node[x].offset

\* Pairing survives wherever no bracket is made, unmade or re-paired.
LEMMA PairedKept ==
  ASSUME NEW t \in Tree, NEW u \in Tree, BracketsPaired(t),
         \A x \in NodeId : u.node[x].type \in Bracket <=> t.node[x].type \in Bracket,
         \A x \in NodeId : t.node[x].type \in Bracket => KindKept(t, u, x)
  PROVE  BracketsPaired(u)
<1> SUFFICES ASSUME NEW x \in NodeId, u.node[x].type \in Bracket,
                    NEW y, y = u.node[x].jmp
             PROVE  /\ y \in NodeId
                    /\ u.node[y].jmp = x
                    /\ u.node[x].type \in Openers => u.node[y].type \in Closers
                    /\ u.node[x].type \in Closers => u.node[y].type \in Openers
  BY DEF BracketsPaired
<1>1. /\ t.node[x].type \in Bracket /\ t.node[x].jmp = y
      /\ u.node[x].type = t.node[x].type
  BY DEF KindKept
<1>2. /\ y \in NodeId /\ t.node[y].jmp = x
      /\ t.node[x].type \in Openers => t.node[y].type \in Closers
      /\ t.node[x].type \in Closers => t.node[y].type \in Openers
  BY <1>1 DEF BracketsPaired
<1>3. t.node[y].type \in Bracket
  BY <1>1, <1>2 DEF Bracket
<1> QED BY <1>1, <1>2, <1>3 DEF KindKept

\* What the nodes hold stays sound if no bracket is touched.
LEMMA ContentKept ==
  ASSUME NEW t \in Tree, NEW u \in Tree, Content(t), BracketsKept(t, u),
         Unallocated(u)
  PROVE  Content(u)
<1>1. BracketsPaired(u)
  BY PairedKept DEF Content, BracketsKept
<1>2. OffsetsPaired(u)
  <2> SUFFICES ASSUME NEW x \in NodeId, u.node[x].type \in Bracket
               PROVE  u.node[x].offset = u.node[u.node[x].jmp].offset
    BY DEF OffsetsPaired
  <2>1. t.node[x].type \in Bracket /\ t.node[x].jmp = u.node[x].jmp
    BY DEF BracketsKept, KindKept
  <2>2. u.node[x].jmp \in NodeId /\ u.node[u.node[x].jmp].type \in Bracket
    BY <1>1 DEF BracketsPaired, Bracket
  <2> QED BY <2>1, <2>2 DEF BracketsKept, Content, OffsetsPaired
<1> QED BY <1>1, <1>2 DEF Content

\* WellFormed, split into links and contents.
LEMMA WellFormedParts ==
  ASSUME NEW t \in Tree
  PROVE  WellFormed(t) <=> DoublyLinked(t) /\ ClosersFollow(t) /\ Content(t)
BY DEF WellFormed, Content

(***************************************************************************)
(* The operators that edit a tree.                                         *)
(***************************************************************************)
\* Edit assigns the three fields it is given.
LEMMA EditParts ==
  ASSUME NEW t \in Tree, NEW f \in [Link -> Link], NEW g \in [NodeId -> Link],
         NEW h \in [NodeId -> Node]
  PROVE  /\ Edit(t, f, g, h) \in Tree
         /\ Edit(t, f, g, h).next = f
         /\ Edit(t, f, g, h).prev = g
         /\ Edit(t, f, g, h).node = h
         /\ Edit(t, f, g, h).num = t.num
BY DEF Edit, Tree

\* The sets of tokens used below are tokens.
LEMMA TokenFacts ==
  /\ {"FREE", "MOV"} \subseteq Token /\ Simple \subseteq Token
  /\ Calc \subseteq Token /\ Bracket \subseteq Token
BY DEF Token

\* A freed node is a node.
LEMMA FreeNodeType == FreeNode \in Node /\ FreeNode.type = "FREE"
BY BlankType, TokenFacts DEF FreeNode, Blank

\* free(x) touches x only.
LEMMA FreedParts ==
  ASSUME NEW t \in Tree, NEW x \in NodeId
  PROVE  /\ Freed(t, x) \in Tree
         /\ Freed(t, x).num = t.num
         /\ \A y \in Link : y # x => Freed(t, x).next[y] = t.next[y]
         /\ \A y \in NodeId : y # x => /\ Freed(t, x).prev[y] = t.prev[y]
                                       /\ Freed(t, x).node[y] = t.node[y]
         /\ Freed(t, x).node[x] = FreeNode
<1> DEFINE f == [t.next EXCEPT ![x] = Null]
           g == [t.prev EXCEPT ![x] = Null]
           h == [t.node EXCEPT ![x] = FreeNode]
<1>1. /\ f \in [Link -> Link] /\ \A y \in Link : y # x => f[y] = t.next[y]
      /\ g \in [NodeId -> Link] /\ \A y \in NodeId : y # x => g[y] = t.prev[y]
      /\ h \in [NodeId -> Node] /\ \A y \in NodeId : y # x => h[y] = t.node[y]
      /\ h[x] = FreeNode
  BY TreeParts, NullFacts, FreeNodeType
<1>2. Freed(t, x) = Edit(t, f, g, h)
  BY DEF Freed
<1> HIDE DEF f, g, h
<1> QED BY <1>1, <1>2, EditParts

\* The neighbours of a node in a sound list are live and distinct from it.
LEMMA Neighbours ==
  ASSUME NEW t \in Tree, Shape(t), NEW m \in NodeId, Live(t, m)
  PROVE  /\ t.next[m] \in Link /\ t.prev[m] \in Link
         /\ t.next[m] # Null => /\ t.next[m] \in NodeId /\ Live(t, t.next[m])
                                /\ t.prev[t.next[m]] = m
         /\ t.prev[m] # Null => t.prev[m] \in NodeId /\ Live(t, t.prev[m])
         /\ t.next[t.prev[m]] = m
         /\ t.next[m] # m /\ t.prev[m] # m
         /\ t.next[m] # Null => t.next[m] # t.prev[m] /\ t.next[t.next[m]] # m
<1>1. /\ t.next[m] \in Link /\ t.prev[m] \in Link
      /\ t.next[m] # Null => /\ t.next[m] \in NodeId /\ Live(t, t.next[m])
                             /\ t.prev[t.next[m]] = m
      /\ t.prev[m] # Null => t.prev[m] \in NodeId /\ Live(t, t.prev[m])
      /\ t.next[t.prev[m]] = m
  BY TreeParts, NullFacts DEF Shape, DoublyLinked
<1>2. PICK r \in [NodeId -> Int] : Ordered(t, r)
  BY DEF Shape
<1>3. \A x \in NodeId : Live(t, x) /\ t.next[x] # Null => r[x] < r[t.next[x]]
  BY <1>2 DEF Ordered, Ascends, LiveNodes
<1>4. \A x \in NodeId : r[x] \in Int
  OBVIOUS
<1>5. t.next[m] # m
  BY <1>1, <1>3, <1>4, NullFacts
<1>6. t.prev[m] # m
  BY <1>1, <1>3, <1>4, NullFacts
<1>7. ASSUME t.next[m] # Null PROVE t.next[m] # t.prev[m] /\ t.next[t.next[m]] # m
  <2>1. r[m] < r[t.next[m]] /\ r[m] \in Int /\ r[t.next[m]] \in Int
    BY <1>7, <1>1, <1>3, <1>4
  <2>2. t.next[t.next[m]] # m
    BY <1>7, <1>1, <2>1, <1>3, NullFacts
  <2>3. t.next[m] # t.prev[m]
    BY <1>7, <1>1, <2>2
  <2> QED BY <2>2, <2>3
<1> QED BY <1>1, <1>5, <1>6, <1>7

\* A node that is not free has been allocated.
LEMMA UnallocatedIsFree ==
  ASSUME NEW t \in Tree, Unallocated(t), NEW m \in NodeId, t.node[m].type # "FREE"
  PROVE  ~(m > t.num)
BY FreeNodeType DEF Unallocated

\* Merging two movements keeps the tree sound.
LEMMA AbsorbSound ==
  ASSUME NEW t \in Tree, Shape(t), Content(t),
         NEW m \in NodeId, t.node[m].type = "MOV",
         t.next[m] # Null, t.node[t.next[m]].type = "MOV"
  PROVE  /\ Absorb(t, m) \in Tree /\ Shape(Absorb(t, m)) /\ Content(Absorb(t, m))
         /\ Absorb(t, m).node[m].type = "MOV"
         /\ Absorb(t, m).prev[m] = t.prev[m]
         /\ \A x \in Link : x # m /\ x # t.next[m] => Absorb(t, m).next[x] = t.next[x]
         /\ \A x \in NodeId : x # t.next[m] => KindKept(t, Absorb(t, m), x)
<1> DEFINE gone == t.next[m]
           rest == t.next[gone]
           f == [t.next EXCEPT ![m] = rest]
           g == SetPrev(t.prev, rest, m)
           h == [t.node EXCEPT ![m].count = @ + t.node[gone].count]
           v == Edit(t, f, g, h)
           u == Absorb(t, m)
<1>1. Live(t, m) /\ Live(t, gone) /\ gone \in NodeId
  BY Neighbours, Kinds DEF Live
<1>2. /\ gone # m /\ t.prev[gone] = m /\ m # Null
      /\ rest \in Link /\ rest # m /\ rest # gone
      /\ t.prev[m] # gone
  BY <1>1, Neighbours, NullFacts
<1>3. t.node[gone].count \in Int /\ t.node[m].count \in Int
  BY <1>1, TreeParts DEF Node
<1>4. /\ f \in [Link -> Link]
      /\ \A x \in Link : f[x] = IF x = m THEN rest ELSE t.next[x]
  BY <1>2, TreeParts, NullFacts
<1>5. /\ g \in [NodeId -> Link]
      /\ \A x \in NodeId : g[x] = IF x = rest THEN m ELSE t.prev[x]
  <2>1. t.prev \in [NodeId -> Link] /\ rest \in Link /\ m \in Link
    BY <1>2, TreeParts, NullFacts
  <2> HIDE DEF rest
  <2> QED BY <2>1, NullFacts DEF SetPrev
<1>6. /\ h \in [NodeId -> Node]
      /\ \A x \in NodeId : x # m => h[x] = t.node[x]
      /\ h[m].type = t.node[m].type /\ h[m].jmp = t.node[m].jmp
  BY <1>3, TreeParts DEF Node
<1>7. u = Freed(v, gone)
  BY DEF Absorb
<1> HIDE DEF gone, rest, f, g, h
<1>8. v \in Tree /\ v.next = f /\ v.prev = g /\ v.node = h /\ v.num = t.num
  BY <1>4, <1>5, <1>6, EditParts
<1> HIDE DEF v, u
<1>9. /\ u \in Tree /\ u.num = t.num
      /\ \A y \in Link : y # gone => u.next[y] = f[y]
      /\ \A y \in NodeId : y # gone => u.prev[y] = g[y] /\ u.node[y] = h[y]
      /\ u.node[gone] = FreeNode
  BY <1>1, <1>7, <1>8, FreedParts
<1>10. \A x \in NodeId : x # gone => KindKept(t, u, x)
  BY <1>6, <1>9 DEF KindKept
<1>11. Shape(u)
  <2>1. \A x \in Link : x # gone =>
          u.next[x] = IF x = t.prev[gone] THEN t.next[gone] ELSE t.next[x]
    BY <1>2, <1>4, <1>9 DEF rest
  <2>2. \A x \in NodeId : x # gone =>
          u.prev[x] = IF x = t.next[gone] THEN t.prev[gone] ELSE t.prev[x]
    BY <1>2, <1>5, <1>9 DEF rest
  <2>3. u.node[gone].type = "FREE" /\ t.node[gone].type \notin Bracket
    BY <1>9, FreeNodeType, Kinds DEF gone
  <2> QED BY <1>1, <1>2, <1>9, <1>10, <2>1, <2>2, <2>3, ShapeRemove DEF Content
<1>12. BracketsKept(t, u)
  BY <1>6, <1>9, FreeNodeType, Kinds DEF BracketsKept, KindKept, gone
<1>13. Unallocated(u)
  BY <1>2, <1>6, <1>9, UnallocatedIsFree, Kinds, FreeNodeType DEF Content, Unallocated
<1>14. \A x \in Link : x # m /\ x # gone => u.next[x] = t.next[x]
  BY <1>4, <1>9
<1>15. Content(u)
  BY <1>9, <1>12, <1>13, ContentKept
<1>16. gone = t.next[m]
  BY DEF gone
<1> QED BY <1>2, <1>5, <1>6, <1>9, <1>10, <1>11, <1>14, <1>15, <1>16 DEF u

\* Dropping a cancelled movement that is not the head keeps the tree sound.
LEMMA UnlinkedSound ==
  ASSUME NEW t \in Tree, Shape(t), Content(t),
         NEW m \in NodeId, t.node[m].type = "MOV", t.prev[m] # Null
  PROVE  /\ Unlinked(t, m) \in Tree /\ Shape(Unlinked(t, m)) /\ Content(Unlinked(t, m))
         /\ Live(Unlinked(t, m), t.prev[m])
         /\ \A x \in Link : x # m /\ x # t.prev[m] => Unlinked(t, m).next[x] = t.next[x]
         /\ \A x \in NodeId : x # m => KindKept(t, Unlinked(t, m), x)
<1> DEFINE a == t.prev[m]
           b == t.next[m]
           f == [t.next EXCEPT ![a] = b]
           g == SetPrev(t.prev, b, a)
           v == Edit(t, f, g, t.node)
           u == Unlinked(t, m)
<1>1. Live(t, m) /\ Live(t, a) /\ a \in NodeId /\ a \in Link /\ b \in Link /\ a # m
  BY Neighbours, Kinds, NullFacts DEF Live
<1>2. /\ f \in [Link -> Link]
      /\ \A x \in Link : f[x] = IF x = a THEN b ELSE t.next[x]
  BY <1>1, TreeParts
<1>3. /\ g \in [NodeId -> Link]
      /\ \A x \in NodeId : g[x] = IF x = b THEN a ELSE t.prev[x]
  <2>1. t.prev \in [NodeId -> Link] /\ a \in Link /\ b \in Link
    BY <1>1, TreeParts
  <2> HIDE DEF a, b
  <2> QED BY <2>1, NullFacts DEF SetPrev
<1>4. u = Freed(v, m)
  BY DEF Unlinked
<1> HIDE DEF a, b, f, g
<1>5. v \in Tree /\ v.next = f /\ v.prev = g /\ v.node = t.node /\ v.num = t.num
  BY <1>2, <1>3, TreeParts, EditParts
<1> HIDE DEF v, u
<1>6. /\ u \in Tree /\ u.num = t.num
      /\ \A y \in Link : y # m => u.next[y] = f[y]
      /\ \A y \in NodeId : y # m => u.prev[y] = g[y] /\ u.node[y] = t.node[y]
      /\ u.node[m] = FreeNode
  BY <1>4, <1>5, FreedParts
<1>7. \A x \in NodeId : x # m => KindKept(t, u, x)
  BY <1>6 DEF KindKept
<1>8. Shape(u)
  <2>1. /\ \A x \in Link : x # m =>
             u.next[x] = IF x = t.prev[m] THEN t.next[m] ELSE t.next[x]
        /\ \A x \in NodeId : x # m =>
             u.prev[x] = IF x = t.next[m] THEN t.prev[m] ELSE t.prev[x]
    BY <1>2, <1>3, <1>6 DEF a, b
  <2>2. u.node[m].type = "FREE" /\ t.node[m].type \notin Bracket
    BY <1>6, FreeNodeType, Kinds
  <2> QED BY <1>1, <1>6, <1>7, <2>1, <2>2, ShapeRemove DEF Content
<1>9. BracketsKept(t, u)
  BY <1>6, FreeNodeType, Kinds DEF BracketsKept, KindKept
<1>10. Unallocated(u)
  BY <1>6 DEF Content, Unallocated
<1>11. Live(u, a)
  BY <1>1, <1>6 DEF Live
<1>12. Content(u)
  BY <1>6, <1>9, <1>10, ContentKept
<1>13. \A x \in Link : x # m /\ x # a => u.next[x] = t.next[x]
  BY <1>2, <1>6
<1> QED BY <1>6, <1>7, <1>8, <1>11, <1>12, <1>13 DEF u, a

\* Trimming the last node keeps the tree sound, and its last but one is last.
LEMMA TrimmedSound ==
  ASSUME NEW t \in Tree, Shape(t), Content(t),
         NEW m \in NodeId, t.node[m].type \in {"MOV", "ADD"}, t.next[m] = Null
  PROVE  /\ Trimmed(t, m) \in Tree /\ Shape(Trimmed(t, m)) /\ Content(Trimmed(t, m))
         /\ t.prev[m] # Null => /\ Live(Trimmed(t, m), t.prev[m])
                                /\ Trimmed(t, m).next[t.prev[m]] = Null
         /\ t.prev[m] = Null => Trimmed(t, m).next[Null] = Null
         /\ \A x \in Link : x # m /\ x # t.prev[m] => Trimmed(t, m).next[x] = t.next[x]
         /\ \A x \in NodeId : x # m => KindKept(t, Trimmed(t, m), x)
<1> DEFINE a == t.prev[m]
           f == [t.next EXCEPT ![a] = Null]
           v == Edit(t, f, t.prev, t.node)
           u == Trimmed(t, m)
<1>1. Live(t, m) /\ t.node[m].type \notin Bracket
  BY DEF Live, Bracket, Openers, Closers
<1>2. a \in Link /\ a # m /\ (a # Null => Live(t, a) /\ a \in NodeId)
  BY <1>1, Neighbours
<1>3. /\ f \in [Link -> Link]
      /\ \A x \in Link : f[x] = IF x = a THEN Null ELSE t.next[x]
  BY <1>2, TreeParts, NullFacts
<1>4. u = Freed(v, m)
  BY DEF Trimmed
<1> HIDE DEF a, f
<1>5. v \in Tree /\ v.next = f /\ v.prev = t.prev /\ v.node = t.node /\ v.num = t.num
  BY <1>3, TreeParts, EditParts
<1> HIDE DEF v, u
<1>6. /\ u \in Tree /\ u.num = t.num
      /\ \A y \in Link : y # m => u.next[y] = f[y]
      /\ \A y \in NodeId : y # m => u.prev[y] = t.prev[y] /\ u.node[y] = t.node[y]
      /\ u.node[m] = FreeNode
  BY <1>4, <1>5, FreedParts
<1>7. \A x \in NodeId : x # m => KindKept(t, u, x)
  BY <1>6 DEF KindKept
<1>8. Shape(u)
  <2>1. /\ \A x \in Link : x # m =>
             u.next[x] = IF x = t.prev[m] THEN t.next[m] ELSE t.next[x]
        /\ \A x \in NodeId : x # m =>
             u.prev[x] = IF x = t.next[m] THEN t.prev[m] ELSE t.prev[x]
    BY <1>3, <1>6, NullFacts DEF a
  <2>2. u.node[m].type = "FREE"
    BY <1>6, FreeNodeType
  <2> QED BY <1>1, <1>6, <1>7, <2>1, <2>2, ShapeRemove DEF Content
<1>9. BracketsKept(t, u)
  BY <1>1, <1>6, FreeNodeType, Kinds DEF BracketsKept, KindKept
<1>10. Unallocated(u)
  BY <1>6 DEF Content, Unallocated
<1>11. a # Null => Live(u, a) /\ u.next[a] = Null
  BY <1>2, <1>3, <1>6 DEF Live
<1>12. Content(u)
  BY <1>6, <1>9, <1>10, ContentKept
<1>13. /\ \A x \in Link : x # m /\ x # a => u.next[x] = t.next[x]
       /\ a = Null => u.next[Null] = Null
  BY <1>2, <1>3, <1>6, NullFacts
<1> QED BY <1>6, <1>7, <1>8, <1>11, <1>12, <1>13 DEF u, a

\* Shifting the operands of a calculation leaves its kind alone.
LEMMA ShiftedParts ==
  ASSUME NEW nd \in Node, NEW c \in Int
  PROVE  /\ Shifted(nd, c) \in Node
         /\ Shifted(nd, c).type = nd.type /\ Shifted(nd, c).jmp = nd.jmp
<1> DEFINE o1 == nd.offset + c
           o2 == IF nd.count2 # 0 THEN nd.offset2 + c ELSE nd.offset2
           o3 == IF nd.count3 # 0 THEN nd.offset3 + c ELSE nd.offset3
<1>1. o1 \in Int /\ o2 \in Int /\ o3 \in Int
  BY DEF Node
<1>2. Shifted(nd, c) = [nd EXCEPT !.offset = o1, !.offset2 = o2, !.offset3 = o3]
  BY DEF Shifted
<1> HIDE DEF o1, o2, o3
<1> QED BY <1>1, <1>2 DEF Node

\* The node that m is exchanged with keeps its kind and is no bracket.
LEMMA SwappedSound ==
  ASSUME NEW t \in Tree, Shape(t), Content(t),
         NEW m \in NodeId, t.node[m].type = "MOV", t.next[m] # Null,
         t.node[t.next[m]].type \in Simple \cup Calc,
         NEW nd \in Node, nd.type = t.node[t.next[m]].type,
         nd.jmp = t.node[t.next[m]].jmp
  PROVE  /\ Swapped(t, m, nd) \in Tree /\ Shape(Swapped(t, m, nd))
         /\ Content(Swapped(t, m, nd)) /\ Live(Swapped(t, m, nd), m)
         /\ \A x \in Link : x # m /\ x # t.next[m] =>
              Swapped(t, m, nd).next[x] = IF x = t.prev[m] THEN t.next[m] ELSE t.next[x]
         /\ Swapped(t, m, nd).next[t.next[m]] = m
         /\ \A x \in NodeId : KindKept(t, Swapped(t, m, nd), x)
<1> DEFINE n2 == t.next[m]
           n3 == t.prev[m]
           n4 == t.next[n2]
           f == [t.next EXCEPT ![n3] = n2, ![n2] = m, ![m] = n4]
           g1 == [t.prev EXCEPT ![n2] = n3, ![m] = n2]
           g == SetPrev(g1, n4, m)
           h == [t.node EXCEPT ![n2] = nd]
           u == Swapped(t, m, nd)
<1>1. /\ Live(t, m) /\ n2 \in NodeId /\ Live(t, n2) /\ m # Null
      /\ n3 \in Link /\ n4 \in Link
      /\ n2 # m /\ n3 # m /\ n2 # n3 /\ n4 # m /\ n4 # n2
  BY Neighbours, Kinds, NullFacts DEF Live
<1>2. u = Edit(t, f, g, h)
  BY DEF Swapped
<1>3. t.next \in [Link -> Link] /\ t.prev \in [NodeId -> Link]
      /\ t.node \in [NodeId -> Node]
  BY TreeParts
<1>4. t.next[n2] = n4 /\ t.next[m] = n2 /\ t.prev[m] = n3
  OBVIOUS
<1>5. t.node[n2].type \in Simple \cup Calc /\ nd.type = t.node[n2].type
      /\ nd.jmp = t.node[n2].jmp
  OBVIOUS
<1> HIDE DEF n2, n3, n4, u
<1>6. /\ f \in [Link -> Link]
      /\ \A x \in Link : f[x] = IF x = m THEN n4 ELSE IF x = n2 THEN m
                                ELSE IF x = n3 THEN n2 ELSE t.next[x]
  BY <1>1, <1>3, NullFacts
<1>7. /\ g1 \in [NodeId -> Link]
      /\ \A x \in NodeId : g1[x] = IF x = m THEN n2 ELSE IF x = n2 THEN n3 ELSE t.prev[x]
  BY <1>1, <1>3, NullFacts
<1>8. h \in [NodeId -> Node] /\ \A x \in NodeId : h[x] = IF x = n2 THEN nd ELSE t.node[x]
  BY <1>1, <1>3
<1> HIDE DEF f, g1, h
<1>9. /\ g \in [NodeId -> Link]
      /\ \A x \in NodeId : g[x] = IF x = n4 THEN m ELSE g1[x]
  BY <1>1, <1>7, NullFacts DEF SetPrev
<1> HIDE DEF g
<1>10. u \in Tree /\ u.next = f /\ u.prev = g /\ u.node = h /\ u.num = t.num
  BY <1>2, <1>6, <1>8, <1>9, EditParts
<1>11. \A x \in NodeId : KindKept(t, u, x)
  BY <1>5, <1>8, <1>10 DEF KindKept
<1>12. Shape(u)
  <2>1. \A x \in Link :
          u.next[x] = IF x = m THEN t.next[n2] ELSE IF x = n2 THEN m
                      ELSE IF x = t.prev[m] THEN t.next[m] ELSE t.next[x]
    BY <1>4, <1>6, <1>10
  <2>2. \A x \in NodeId :
          u.prev[x] = IF x = m THEN n2 ELSE IF x = t.next[n2] THEN m
                      ELSE IF x = t.next[m] THEN t.prev[m] ELSE t.prev[x]
    BY <1>1, <1>4, <1>7, <1>9, <1>10
  <2>3. t.node[m].type \notin Bracket /\ t.node[t.next[m]].type \notin Closers
    BY <1>4, <1>5, Kinds
  <2> QED BY <1>1, <1>4, <1>10, <1>11, <2>1, <2>2, <2>3, ShapeMove DEF Content
<1>13. BracketsKept(t, u)
  BY <1>5, <1>8, <1>10, <1>11, Kinds DEF BracketsKept, KindKept
<1>14. Unallocated(u)
  BY <1>1, <1>8, <1>10, UnallocatedIsFree DEF Content, Unallocated, Live
<1>15. Live(u, m)
  BY <1>1, <1>11 DEF Live, KindKept
<1>16. Content(u)
  BY <1>10, <1>13, <1>14, ContentKept
<1>17. /\ \A x \in Link : x # m /\ x # n2 =>
            u.next[x] = IF x = n3 THEN n2 ELSE t.next[x]
       /\ u.next[n2] = m
  BY <1>1, <1>6, <1>10, NullFacts
<1> QED BY <1>4, <1>10, <1>11, <1>12, <1>15, <1>16, <1>17 DEF u

\* add_node_after keeps the tree sound, behind a live node.
LEMMA AddNodeAfterSound ==
  ASSUME NEW t \in Tree, Shape(t), BracketsPaired(t), Unallocated(t),
         HasRoomFor(t, 1), NEW p \in NodeId, Live(t, p),
         NEW c \in Int, NEW u, u = AddNodeAfter(t, p, At("MOV", c, 0))
  PROVE  /\ u \in Tree /\ Shape(u) /\ BracketsPaired(u) /\ Unallocated(u)
         /\ u.num = t.num + 1
         /\ \A x \in NodeId : Live(t, x) => u.node[x] = t.node[x]
         /\ \A x \in NodeId : u.node[x].type \in Bracket => t.node[x].type \in Bracket
         /\ t.next[p] # Null => u.prev[t.next[p]] = t.num + 1
         /\ \A x \in NodeId : Live(t, x) /\ x # t.next[p] => u.prev[x] = t.prev[x]
         /\ \A x \in Link : (x = Null \/ Live(t, x)) /\ x # p => u.next[x] = t.next[x]
<1> DEFINE id == t.num + 1
           q == t.next[p]
           nd == At("MOV", c, 0)
           f == [t.next EXCEPT ![id] = q, ![p] = id]
           g1 == [t.prev EXCEPT ![id] = p]
           g == SetPrev(g1, q, id)
           h == [t.node EXCEPT ![id] = nd]
<1>1. /\ t.next \in [Link -> Link] /\ t.prev \in [NodeId -> Link]
      /\ t.node \in [NodeId -> Node] /\ t.num \in 0 .. MaxNode
  BY TreeParts
<1>2. id \in NodeId /\ id \in 0 .. MaxNode /\ id > t.num
  BY <1>1, MaxNodeAssumption DEF HasRoomFor, NodeId
<1>3. nd \in Node /\ nd.type = "MOV"
  BY AtType, TokenFacts
<1>4. t.node[id].type = "FREE" /\ id # p /\ id # Null /\ p # Null
  BY <1>2, FreeNodeType, NullFacts DEF Unallocated, Live
<1>5. q \in Link /\ q # id /\ q # p
  BY <1>4, Neighbours DEF Live
<1>6. u = [next |-> f, prev |-> g, node |-> h, num |-> id]
  BY <1>4 DEF AddNodeAfter
<1>7. \A x \in Link : x > t.num /\ x # Null => t.node[x] = FreeNode
  BY NullFacts DEF Unallocated
<1>8. q = t.next[p]
  OBVIOUS
<1>9. id = t.num + 1
  OBVIOUS
<1> HIDE DEF id, q, nd
<1>10. /\ f \in [Link -> Link]
       /\ \A x \in Link : f[x] = IF x = id THEN q ELSE IF x = p THEN id ELSE t.next[x]
  BY <1>1, <1>2, <1>4, <1>5, NullFacts
<1>11. /\ g1 \in [NodeId -> Link]
       /\ \A x \in NodeId : g1[x] = IF x = id THEN p ELSE t.prev[x]
  BY <1>1, <1>2, NullFacts
<1>12. h \in [NodeId -> Node] /\ \A x \in NodeId : h[x] = IF x = id THEN nd ELSE t.node[x]
  BY <1>1, <1>2, <1>3
<1> HIDE DEF f, g1, h
<1>13. /\ g \in [NodeId -> Link]
       /\ \A x \in NodeId : g[x] = IF x = q THEN id ELSE g1[x]
  BY <1>2, <1>5, <1>11, NullFacts DEF SetPrev
<1> HIDE DEF g
<1>14. u \in Tree /\ u.next = f /\ u.prev = g /\ u.node = h /\ u.num = id
  BY <1>2, <1>6, <1>10, <1>12, <1>13 DEF Tree
<1>15. \A x \in NodeId : x # id => u.node[x] = t.node[x]
  BY <1>12, <1>14
<1>16. u.node[id] = nd
  BY <1>2, <1>12, <1>14
<1>17. Shape(u)
  <2>1. \A x \in Link :
          u.next[x] = IF x = id THEN t.next[p] ELSE IF x = p THEN id ELSE t.next[x]
    BY <1>8, <1>10, <1>14
  <2>2. \A x \in NodeId :
          u.prev[x] = IF x = id THEN p ELSE IF x = t.next[p] THEN id ELSE t.prev[x]
    BY <1>5, <1>8, <1>11, <1>13, <1>14
  <2>3. \A x \in NodeId : x # id => KindKept(t, u, x)
    BY <1>15 DEF KindKept
  <2>4. u.node[id].type \notin Bracket \cup {"FREE"}
    BY <1>3, <1>16, Kinds
  <2> QED BY <1>2, <1>4, <1>14, <2>1, <2>2, <2>3, <2>4, ShapeInsert
<1>18. \A x \in NodeId : /\ u.node[x].type \in Bracket <=> t.node[x].type \in Bracket
                         /\ t.node[x].type \in Bracket => KindKept(t, u, x)
  BY <1>3, <1>4, <1>15, <1>16, Kinds DEF KindKept
<1>19. BracketsPaired(u)
  BY <1>14, <1>18, PairedKept
<1>20. Unallocated(u)
  <2> SUFFICES ASSUME NEW x \in NodeId, x > u.num PROVE u.node[x] = FreeNode
    BY DEF Unallocated
  <2>1. x # id /\ x > t.num
    BY <1>1, <1>2, <1>9, <1>14 DEF NodeId
  <2> QED BY <2>1, <1>15 DEF Unallocated
<1>21. \A x \in NodeId : Live(t, x) => u.node[x] = t.node[x]
  BY <1>4, <1>15 DEF Live
<1>22. q # Null => u.prev[q] = id
  BY <1>5, <1>13, <1>14, NullFacts
<1>23. \A x \in NodeId : Live(t, x) /\ x # q => u.prev[x] = t.prev[x]
  BY <1>4, <1>11, <1>13, <1>14 DEF Live
<1>24. \A x \in Link : (x = Null \/ Live(t, x)) /\ x # p => u.next[x] = t.next[x]
  BY <1>4, <1>10, <1>14, NullFacts DEF Live
<1> QED BY <1>8, <1>9, <1>14, <1>17, <1>18, <1>19, <1>20, <1>21, <1>22, <1>23, <1>24

\* A loop closes behind its opening bracket, and behind all that is before it.
LEMMA ClosesBehind ==
  ASSUME NEW t \in Tree, Shape(t), BracketsPaired(t),
         NEW m \in NodeId, t.node[m].type = "MOV", t.next[m] # Null,
         t.node[t.next[m]].type \in Openers,
         NEW e, e = t.node[t.next[m]].jmp
  PROVE  /\ e \in NodeId /\ Live(t, e) /\ t.node[e].type \in Closers
         /\ e # m /\ e # t.prev[m] /\ e # t.next[m]
<1> DEFINE w == t.next[m]
<1>1. Live(t, m) /\ w \in NodeId /\ Live(t, w)
  BY Neighbours, Kinds DEF Live
<1>2. e \in NodeId /\ t.node[e].type \in Closers /\ Live(t, e)
  BY <1>1, Kinds DEF BracketsPaired, Live
<1>3. PICK r \in [NodeId -> Int] : Ordered(t, r)
  BY DEF Shape
<1>4. r[m] < r[w] /\ r[w] < r[e]
  BY <1>1, <1>3 DEF Ordered, NestedBy, Ascends, LiveNodes
<1>5. t.prev[m] # Null => t.prev[m] \in NodeId /\ r[t.prev[m]] < r[m]
  BY <1>1, <1>3, Neighbours, NullFacts DEF Ordered, NestedBy, Ascends, LiveNodes
<1>6. \A x \in NodeId : r[x] \in Int
  OBVIOUS
<1>7. e # t.prev[m]
  BY <1>1, <1>2, <1>4, <1>5, <1>6, NullFacts
<1> QED BY <1>1, <1>2, <1>4, <1>6, <1>7, Kinds

\* Adding to a node's offset changes nothing else of it.
LEMMA ShiftedAtParts ==
  ASSUME NEW k \in [NodeId -> Node], NEW x \in NodeId, NEW c \in Int
  PROVE  /\ ShiftedAt(k, x, c) \in [NodeId -> Node]
         /\ \A y \in NodeId : y # x => ShiftedAt(k, x, c)[y] = k[y]
         /\ ShiftedAt(k, x, c)[x].type = k[x].type
         /\ ShiftedAt(k, x, c)[x].jmp = k[x].jmp
         /\ ShiftedAt(k, x, c)[x].count = k[x].count
         /\ ShiftedAt(k, x, c)[x].offset = k[x].offset + c
<1>1. k[x].offset \in Int
  BY DEF Node
<1> QED BY <1>1 DEF Node, ShiftedAt

\* What MovedBehind assigns, when m is not next to the end of the loop.
LEMMA MovedBehindParts ==
  ASSUME NEW t \in Tree, NEW m \in NodeId, NEW e \in NodeId, e # m,
         t.next[m] \in NodeId, t.next[m] # m, t.prev[m] # m,
         t.prev[m] # e, t.next[m] # t.prev[m],
         t.next[e] # m, t.next[e] # e, t.next[e] # t.next[m]
  PROVE  /\ MovedBehind(t, m, e) \in Tree
         /\ MovedBehind(t, m, e).num = t.num
         /\ \A x \in Link : MovedBehind(t, m, e).next[x] =
              IF x = m THEN t.next[e] ELSE IF x = e THEN m
              ELSE IF x = t.prev[m] THEN t.next[m] ELSE t.next[x]
         /\ \A x \in NodeId : MovedBehind(t, m, e).prev[x] =
              IF x = m THEN e ELSE IF x = t.next[e] THEN m
              ELSE IF x = t.next[m] THEN t.prev[m] ELSE t.prev[x]
         /\ MovedBehind(t, m, e).node = ShiftedAt(t.node, e, t.node[m].count)
<1> DEFINE n1 == t.next[m]
           n2 == t.prev[m]
           n3 == t.next[e]
           f == [t.next EXCEPT ![n2] = n1, ![e] = m, ![m] = n3]
           g1 == [t.prev EXCEPT ![n1] = n2, ![m] = e]
           g == SetPrev(g1, n3, m)
           h == ShiftedAt(t.node, e, t.node[m].count)
           u == MovedBehind(t, m, e)
<1>1. /\ t.next \in [Link -> Link] /\ t.prev \in [NodeId -> Link]
      /\ t.node \in [NodeId -> Node]
  BY TreeParts
<1>2. /\ n1 \in NodeId /\ n2 \in Link /\ n3 \in Link
      /\ n1 # m /\ n2 # m /\ n2 # e /\ n1 # n2 /\ n3 # m /\ n3 # e /\ n3 # n1
  BY <1>1, NullFacts
<1>3. u = Edit(t, f, g, h)
  BY DEF MovedBehind
<1>4. t.node[m].count \in Int
  BY <1>1 DEF Node
<1>5. h \in [NodeId -> Node]
  BY <1>1, <1>4, ShiftedAtParts
<1> HIDE DEF n1, n2, n3, h, u
<1>6. /\ f \in [Link -> Link]
      /\ \A x \in Link : f[x] = IF x = m THEN n3 ELSE IF x = e THEN m
                                ELSE IF x = n2 THEN n1 ELSE t.next[x]
  BY <1>1, <1>2, NullFacts
<1>7. /\ g1 \in [NodeId -> Link]
      /\ \A x \in NodeId : g1[x] = IF x = m THEN e ELSE IF x = n1 THEN n2 ELSE t.prev[x]
  BY <1>1, <1>2, NullFacts
<1> HIDE DEF f, g1
<1>8. /\ g \in [NodeId -> Link]
      /\ \A x \in NodeId : g[x] = IF x = n3 THEN m ELSE g1[x]
  BY <1>2, <1>7, NullFacts DEF SetPrev
<1> HIDE DEF g
<1>9. u \in Tree /\ u.next = f /\ u.prev = g /\ u.node = h /\ u.num = t.num
  <2>1. f \in [Link -> Link] /\ g \in [NodeId -> Link] /\ h \in [NodeId -> Node]
    BY <1>5, <1>6, <1>8
  <2> QED BY <2>1, <1>3, EditParts
<1>10. \A x \in NodeId : u.prev[x] = IF x = m THEN e ELSE IF x = n3 THEN m
                                     ELSE IF x = n1 THEN n2 ELSE t.prev[x]
  BY <1>2, <1>7, <1>8, <1>9
<1>11. \A x \in Link : u.next[x] = IF x = m THEN n3 ELSE IF x = e THEN m
                                   ELSE IF x = n2 THEN n1 ELSE t.next[x]
  BY <1>6, <1>9
<1> QED BY <1>9, <1>10, <1>11 DEF u, n1, n2, n3, h

\* Equations kept under a name, so that they are not substituted.
Ends(t, w, e) == e = t.node[w].jmp
IsMovedBehind(t, m, e, u) == u = MovedBehind(t, m, e)

\* Moving a movement behind its loop keeps the tree sound, and shifts the end.
LEMMA MovedBehindSound ==
  ASSUME NEW t \in Tree, Shape(t), BracketsPaired(t), Unallocated(t),
         NEW m \in NodeId, t.node[m].type = "MOV", t.next[m] # Null,
         t.node[t.next[m]].type \in Openers,
         NEW e \in NodeId, Ends(t, t.next[m], e),
         NEW u, IsMovedBehind(t, m, e, u)
  PROVE  /\ u \in Tree /\ Shape(u) /\ BracketsPaired(u) /\ Unallocated(u)
         /\ \A x \in NodeId : KindKept(t, u, x)
         /\ \A x \in NodeId : u.node[x].offset =
              IF x = e THEN t.node[x].offset + t.node[m].count ELSE t.node[x].offset
         /\ \A x \in Link : x # m /\ x # e =>
              u.next[x] = IF x = t.prev[m] THEN t.next[m] ELSE t.next[x]
<1>1. /\ t.node \in [NodeId -> Node] /\ Live(t, m)
      /\ t.next[m] \in NodeId /\ t.next[m] # m /\ t.prev[m] # m
      /\ t.next[m] # t.prev[m] /\ t.prev[t.next[m]] = m
  BY TreeParts, Neighbours, Kinds DEF Live
<1>2. /\ e \in NodeId /\ Live(t, e) /\ t.node[e].type \in Closers
      /\ e # m /\ e # t.prev[m] /\ e # t.next[m]
  BY ClosesBehind DEF Ends
<1>3. t.next[e] # e /\ (t.next[e] # Null => t.prev[t.next[e]] = e)
  BY <1>2, Neighbours
<1>4. t.next[e] # m /\ t.next[e] # t.next[m]
  BY <1>1, <1>2, <1>3, NullFacts
<1>5. t.node[m].count \in Int
  BY <1>1 DEF Node
<1>6. /\ u \in Tree /\ u.num = t.num
      /\ \A x \in Link : u.next[x] =
           IF x = m THEN t.next[e] ELSE IF x = e THEN m
           ELSE IF x = t.prev[m] THEN t.next[m] ELSE t.next[x]
      /\ \A x \in NodeId : u.prev[x] =
           IF x = m THEN e ELSE IF x = t.next[e] THEN m
           ELSE IF x = t.next[m] THEN t.prev[m] ELSE t.prev[x]
      /\ u.node = ShiftedAt(t.node, e, t.node[m].count)
  BY <1>1, <1>2, <1>3, <1>4, MovedBehindParts DEF IsMovedBehind
<1>7. /\ \A x \in NodeId : x # e => u.node[x] = t.node[x]
      /\ u.node[e].type = t.node[e].type /\ u.node[e].jmp = t.node[e].jmp
      /\ u.node[e].offset = t.node[e].offset + t.node[m].count
  BY <1>1, <1>5, <1>6, ShiftedAtParts
<1>8. \A x \in NodeId : KindKept(t, u, x)
  BY <1>7 DEF KindKept
<1>9. Shape(u)
  <2>1. t.node[m].type \notin Bracket /\ t.node[t.next[m]].type \notin Closers
    BY Kinds
  <2> QED BY <1>1, <1>2, <1>6, <1>8, <2>1, ShapeMove
<1>10. BracketsPaired(u)
  BY <1>6, <1>8, PairedKept DEF KindKept
<1>11. Unallocated(u)
  BY <1>2, <1>6, <1>7, UnallocatedIsFree DEF Unallocated, Live
<1> QED BY <1>6, <1>7, <1>8, <1>9, <1>10, <1>11

\* Shifting an opening bracket disturbs nothing but its offset.
LEMMA ShapeByKinds ==
  ASSUME NEW t \in Tree, NEW u \in Tree, Shape(t), BracketsPaired(t),
         u.next = t.next, u.prev = t.prev, \A x \in NodeId : KindKept(t, u, x)
  PROVE  Shape(u) /\ BracketsPaired(u)
<1>1. LiveNodes(u) = LiveNodes(t)
  BY DEF LiveNodes, Live, KindKept
<1>2. DoublyLinked(u)
  BY <1>1, DoublyLinkedIsLinked DEF Shape
<1>3. ClosersFollow(u)
  BY DEF Shape, ClosersFollow, KindKept
<1>4. PICK r \in [NodeId -> Int] : Ordered(t, r)
  BY DEF Shape
<1>5. Ordered(u, r)
  BY <1>1, <1>4 DEF Ordered, KindKept, NestedBy, Inside
<1>6. BracketsPaired(u)
  BY PairedKept DEF KindKept
<1> QED BY <1>2, <1>3, <1>5, <1>6 DEF Shape

\* Balanced: both shifts that the loop's body needs are added, and nothing
\* else changes but the offset of the opening bracket.
LEMMA BalancedSound ==
  ASSUME NEW t \in Tree, Shape(t), BracketsPaired(t), Unallocated(t),
         HasRoomFor(t, 2),
         NEW w \in NodeId, t.node[w].type \in Openers, NEW c \in Int,
         NEW u, u = Balanced(t, w, c)
  PROVE  /\ u \in Tree /\ Shape(u) /\ BracketsPaired(u) /\ Unallocated(u)
         /\ \A x \in NodeId : Live(t, x) =>
              /\ KindKept(t, u, x) /\ u.node[x].count = t.node[x].count
              /\ u.node[x].offset = IF x = w THEN t.node[x].offset + c
                                             ELSE t.node[x].offset
         /\ \A x \in NodeId : u.node[x].type \in Bracket => t.node[x].type \in Bracket
         /\ \A x \in Link : (x = Null \/ Live(t, x)) /\ x # w /\ t.next[x] # t.node[w].jmp =>
              u.next[x] = t.next[x]
<1> DEFINE h == ShiftedAt(t.node, w, c)
           shifted == Edit(t, t.next, t.prev, h)
           opened  == AddNodeAfter(shifted, w, At("MOV", c, 0))
           e == t.node[w].jmp
           p == opened.prev[e]
<1>1. /\ t.next \in [Link -> Link] /\ t.prev \in [NodeId -> Link]
      /\ t.node \in [NodeId -> Node] /\ t.num \in 0 .. MaxNode
  BY TreeParts
<1>2. /\ h \in [NodeId -> Node]
      /\ \A x \in NodeId : x # w => h[x] = t.node[x]
      /\ h[w].type = t.node[w].type /\ h[w].jmp = t.node[w].jmp
      /\ h[w].count = t.node[w].count /\ h[w].offset = t.node[w].offset + c
  BY <1>1, ShiftedAtParts
<1>3. u = AddNodeAfter(opened, p, At("MOV", -c, 0))
  BY DEF Balanced
<1>4. e \in NodeId /\ t.node[e].type \in Closers
  BY Kinds DEF BracketsPaired
<1> HIDE DEF h, e
<1>5. /\ shifted \in Tree /\ shifted.next = t.next /\ shifted.prev = t.prev
      /\ shifted.node = h /\ shifted.num = t.num
  BY <1>1, <1>2, EditParts
<1> HIDE DEF shifted
<1>6. \A x \in NodeId : KindKept(t, shifted, x)
  BY <1>2, <1>5 DEF KindKept
<1>7. Shape(shifted) /\ BracketsPaired(shifted)
  BY <1>5, <1>6, ShapeByKinds
<1>8. Unallocated(shifted)
  BY <1>2, <1>5, UnallocatedIsFree, Kinds DEF Unallocated
<1>9. HasRoomFor(shifted, 1) /\ Live(shifted, w)
  BY <1>1, <1>5, <1>6, MaxNodeAssumption, Kinds DEF HasRoomFor, Live, KindKept
<1>10. /\ opened \in Tree /\ Shape(opened) /\ BracketsPaired(opened)
       /\ Unallocated(opened) /\ opened.num = t.num + 1
       /\ \A x \in NodeId : Live(shifted, x) => opened.node[x] = h[x]
       /\ \A x \in NodeId : opened.node[x].type \in Bracket => h[x].type \in Bracket
       /\ \A x \in Link : (x = Null \/ Live(shifted, x)) /\ x # w =>
            opened.next[x] = t.next[x]
  BY <1>5, <1>7, <1>8, <1>9, AddNodeAfterSound
<1> HIDE DEF opened, p
<1>11. \A x \in NodeId : Live(t, x) => /\ opened.node[x] = h[x] /\ Live(opened, x)
                                       /\ Live(shifted, x)
  BY <1>2, <1>5, <1>10 DEF Live
<1>12. HasRoomFor(opened, 1)
  BY <1>1, <1>10, MaxNodeAssumption DEF HasRoomFor
<1>13. p \in NodeId /\ Live(opened, p) /\ opened.next[p] = e
  <2>1. Live(opened, e) /\ opened.node[e].type \in Closers
    BY <1>2, <1>4, <1>11, Kinds DEF Live
  <2>2. p # Null
    BY <1>4, <1>10, <2>1 DEF Shape, ClosersFollow, p
  <2> QED BY <1>4, <1>10, <2>1, <2>2, Neighbours DEF p
<1>14. -c \in Int
  OBVIOUS
<1>15. /\ u \in Tree /\ Shape(u) /\ BracketsPaired(u) /\ Unallocated(u)
       /\ \A x \in NodeId : Live(opened, x) => u.node[x] = opened.node[x]
       /\ \A x \in NodeId : u.node[x].type \in Bracket => opened.node[x].type \in Bracket
       /\ \A x \in Link : (x = Null \/ Live(opened, x)) /\ x # p =>
            u.next[x] = opened.next[x]
  BY <1>3, <1>10, <1>12, <1>13, <1>14, AddNodeAfterSound
<1>16. \A x \in NodeId : Live(t, x) => u.node[x] = h[x]
  BY <1>11, <1>15
<1>17. \A x \in NodeId : u.node[x].type \in Bracket => t.node[x].type \in Bracket
  BY <1>2, <1>10, <1>15
<1>18. \A x \in NodeId : Live(t, x) =>
         /\ KindKept(t, u, x) /\ u.node[x].count = t.node[x].count
         /\ u.node[x].offset = IF x = w THEN t.node[x].offset + c
                                        ELSE t.node[x].offset
  BY <1>2, <1>16 DEF KindKept
<1>19. \A x \in Link : (x = Null \/ Live(t, x)) /\ x # w /\ t.next[x] # e =>
         u.next[x] = t.next[x]
  BY <1>10, <1>11, <1>13, <1>15, NullFacts DEF Live
<1> QED BY <1>15, <1>17, <1>18, <1>19 DEF e

\* What PushRoundLoop makes of t before it moves the movement m: its loop is
\* from w to e, and its count is c.
IsOpened(t, m, w, e, c, u) ==
  /\ w = t.next[m] /\ e = t.node[w].jmp /\ c = t.node[m].count
  /\ u = IF c # 0 THEN Balanced(t, w, c) ELSE t

\* That tree is sound, and nothing in it has moved.
LEMMA OpenedSound ==
  ASSUME NEW t \in Tree, Shape(t), BracketsPaired(t), Unallocated(t),
         NEW m \in NodeId, t.node[m].type = "MOV", t.next[m] # Null,
         t.node[t.next[m]].type \in Openers,
         NEW w, NEW e, NEW c, NEW u, IsOpened(t, m, w, e, c, u),
         c # 0 => HasRoomFor(t, 2)
  PROVE  /\ w \in NodeId /\ Live(t, w) /\ w # m /\ t.node[w].type \in Openers
         /\ e \in NodeId /\ Live(t, e) /\ t.node[e].type \in Closers
         /\ e # w /\ e # m /\ c \in Int
         /\ u \in Tree /\ Shape(u) /\ BracketsPaired(u) /\ Unallocated(u)
         /\ \A x \in NodeId : Live(t, x) =>
              /\ KindKept(t, u, x) /\ u.node[x].count = t.node[x].count
              /\ u.node[x].offset = IF x = w THEN t.node[x].offset + c
                                             ELSE t.node[x].offset
         /\ \A x \in NodeId : u.node[x].type \in Bracket => t.node[x].type \in Bracket
         /\ u.next[m] = w
         /\ \A x \in Link : (x = Null \/ Live(t, x)) /\ x # w /\ t.next[x] # e =>
              u.next[x] = t.next[x]
<1>1. w = t.next[m] /\ e = t.node[w].jmp /\ c = t.node[m].count
  BY DEF IsOpened
<1>2. Live(t, m) /\ w \in NodeId /\ Live(t, w) /\ w # m /\ t.node[w].type \in Openers
  BY <1>1, Neighbours, Kinds DEF Live
<1>3. c \in Int
  BY <1>1, TreeParts DEF Node
<1>4. e \in NodeId /\ Live(t, e) /\ t.node[e].type \in Closers /\ e # w /\ e # m
  BY <1>1, ClosesBehind
<1>5. CASE c = 0
  <2>1. \A x \in NodeId : t.node[x].offset \in Int
    BY TreeParts DEF Node
  <2> QED BY <1>1, <1>2, <1>3, <1>4, <1>5, <2>1 DEF KindKept, IsOpened
<1>6. CASE c # 0
  <2>1. u = Balanced(t, w, c) /\ HasRoomFor(t, 2)
    BY <1>6 DEF IsOpened
  <2>2. /\ u \in Tree /\ Shape(u) /\ BracketsPaired(u) /\ Unallocated(u)
        /\ \A x \in NodeId : Live(t, x) =>
             /\ KindKept(t, u, x) /\ u.node[x].count = t.node[x].count
             /\ u.node[x].offset = IF x = w THEN t.node[x].offset + c
                                            ELSE t.node[x].offset
        /\ \A x \in NodeId : u.node[x].type \in Bracket => t.node[x].type \in Bracket
        /\ \A x \in Link : (x = Null \/ Live(t, x)) /\ x # w /\ t.next[x] # t.node[w].jmp =>
             u.next[x] = t.next[x]
    BY <1>2, <1>3, <2>1, BalancedSound
  <2>3. u.next[m] = w
    BY <1>1, <1>2, <1>4, <2>2, NullFacts
  <2> QED BY <1>1, <1>2, <1>3, <1>4, <2>2, <2>3
<1> QED BY <1>5, <1>6

(***************************************************************************)
(* The inductive invariant. An invariant on the links alone would not do:  *)
(* two nodes may point at each other and satisfy DoublyLinked, and         *)
(* cutting next to such a ring breaks it. So positions are part of the     *)
(* shape; they also tell that loops nest, so that a movement never stands  *)
(* behind its own loop.                                                    *)
(***************************************************************************)
IInv ==
  /\ TypeOK
  /\ Shape(tree)
  /\ Content(tree)
  /\ n # Null => Live(tree, n)
  /\ trimming /\ n # Null => tree.next[n] = Null

\* The trees the loader leaves satisfy the invariant.
LEMMA InitIInv == Init => IInv
<1> SUFFICES ASSUME Init PROVE IInv
  OBVIOUS
<1>1. tree \in Tree /\ WellFormed(tree) /\ Complete(tree) /\ Nested(tree)
  BY StartTreesAssumption DEF Init
<1>2. DoublyLinked(tree) /\ ClosersFollow(tree) /\ Content(tree)
  BY <1>1, WellFormedParts
<1>3. \E r \in [NodeId -> Int] : Ordered(tree, r)
  <2>1. PICK r : Places(tree, r) /\ NestedBy(tree, r)
    BY <1>1, <1>2, CompletePlaces DEF Content
  <2>2. r \in [NodeId -> Int]
    BY <2>1 DEF Places
  <2>3. Ascends(LiveNodes(tree), tree.next, r)
    <3> SUFFICES ASSUME NEW x \in NodeId, Live(tree, x), tree.next[x] # Null
                 PROVE  r[x] < r[tree.next[x]]
      BY DEF Ascends, LiveNodes
    <3>1. r[tree.next[x]] = r[x] + 1 /\ r[x] \in Int
      BY <2>1, <2>2 DEF Places
    <3> QED BY <3>1
  <2> QED BY <2>1, <2>2, <2>3 DEF Ordered
<1>4. n \in Link /\ (n # Null => Live(tree, n)) /\ trimming = FALSE /\ fragment \in BOOLEAN
  BY <1>1, <1>2, TreeParts, NullFacts DEF Init, DoublyLinked
<1> QED BY <1>1, <1>2, <1>3, <1>4 DEF IInv, TypeOK, Shape

\* The types of what a movement and the command behind it exchange.
LEMMA CommandParts ==
  ASSUME IInv, MovBefore(Simple) \/ MovBefore(Calc)
  PROVE  /\ tree.node[Follower] \in Node /\ tree.node[n].count \in Int
         /\ MovBefore(Simple \cup Calc)
<1>1. tree \in Tree /\ Shape(tree) /\ n \in NodeId /\ Live(tree, n)
  BY NullFacts DEF IInv, TypeOK, MovBefore, Live
<1>2. Follower \in NodeId
  BY <1>1, Neighbours DEF MovBefore, Follower
<1>3. tree.node[Follower] \in Node /\ tree.node[n].count \in Int
  BY <1>1, <1>2, TreeParts DEF Node
<1> QED BY <1>3 DEF MovBefore

\* Every step of pointer_scan preserves the invariant.
LEMMA NextIInv == IInv /\ [Next]_vars => IInv'
<1> SUFFICES ASSUME IInv, [Next]_vars PROVE IInv'
  OBVIOUS
<1>0. fragment' \in BOOLEAN
  BY DEF IInv, TypeOK, Next, Over, vars
<1>1. /\ tree \in Tree /\ n \in Link /\ trimming \in BOOLEAN
      /\ Shape(tree) /\ Content(tree)
      /\ BracketsPaired(tree) /\ Unallocated(tree)
      /\ n # Null => n \in NodeId /\ Live(tree, n)
      /\ trimming /\ n # Null => tree.next[n] = Null
  BY DEF IInv, TypeOK, Content, Live
<1>2. CASE MergeMovements
  <2> DEFINE merged == Absorb(tree, n)
  <2>1. /\ n \in NodeId /\ tree.node[n].type = "MOV" /\ tree.next[n] # Null
        /\ tree.node[tree.next[n]].type = "MOV" /\ ~trimming
    BY <1>1, <1>2 DEF MergeMovements, MovBefore, Follower
  <2>2. /\ merged \in Tree /\ Shape(merged) /\ Content(merged)
        /\ merged.node[n].type = "MOV" /\ merged.prev[n] = tree.prev[n]
    BY <1>1, <2>1, AbsorbSound
  <2>3. trimming' = trimming
    BY <1>2 DEF MergeMovements
  <2> HIDE DEF merged
  <2>4. CASE tree' = merged /\ n' = n
    BY <1>0, <1>1, <2>1, <2>2, <2>3, <2>4, Kinds DEF IInv, TypeOK, Live
  <2>5. CASE tree' = Unlinked(merged, n) /\ n' = tree.prev[n] /\ tree.prev[n] # Null
    <3>1. tree' \in Tree /\ Shape(tree') /\ Content(tree') /\ Live(tree', n')
      BY <2>1, <2>2, <2>5, UnlinkedSound
    <3> QED BY <1>0, <1>1, <2>1, <2>3, <3>1, NullFacts DEF IInv, TypeOK, Live
  <2> QED BY <1>2, <2>4, <2>5 DEF MergeMovements, merged
<1>3. ASSUME NEW nd \in Node, MovBefore(Simple \cup Calc),
             nd.type = tree.node[Follower].type, nd.jmp = tree.node[Follower].jmp,
             tree' = Swapped(tree, n, nd), n' = n, trimming' = trimming
      PROVE  IInv'
  <2>1. /\ n \in NodeId /\ tree.node[n].type = "MOV" /\ tree.next[n] # Null
        /\ tree.node[tree.next[n]].type \in Simple \cup Calc /\ ~trimming
        /\ nd.type = tree.node[tree.next[n]].type
        /\ nd.jmp = tree.node[tree.next[n]].jmp
    BY <1>1, <1>3 DEF MovBefore, Follower
  <2>2. tree' \in Tree /\ Shape(tree') /\ Content(tree') /\ Live(tree', n)
    BY <1>1, <1>3, <2>1, SwappedSound
  <2> QED BY <1>0, <1>1, <1>3, <2>1, <2>2 DEF IInv, TypeOK
<1>4. MovBefore(Simple) \/ MovBefore(Calc) =>
        /\ tree.node[Follower] \in Node /\ tree.node[n].count \in Int
        /\ MovBefore(Simple \cup Calc)
  BY CommandParts
<1>5. CASE PushPastCommand
  <2> DEFINE nd == [tree.node[Follower] EXCEPT !.offset = @ + tree.node[n].count]
  <2>1. /\ nd \in Node /\ nd.type = tree.node[Follower].type
        /\ nd.jmp = tree.node[Follower].jmp
    BY <1>4, <1>5 DEF PushPastCommand, Node
  <2>2. tree' = Swapped(tree, n, nd) /\ n' = n /\ trimming' = trimming
    BY <1>5 DEF PushPastCommand
  <2> HIDE DEF nd
  <2> QED BY <1>3, <1>4, <1>5, <2>1, <2>2 DEF PushPastCommand
<1>6. CASE PushPastCalc
  <2> DEFINE nd == Shifted(tree.node[Follower], tree.node[n].count)
  <2>1. /\ nd \in Node /\ nd.type = tree.node[Follower].type
        /\ nd.jmp = tree.node[Follower].jmp
    BY <1>4, <1>6, ShiftedParts DEF PushPastCalc
  <2>2. tree' = Swapped(tree, n, nd) /\ n' = n /\ trimming' = trimming
    BY <1>6 DEF PushPastCalc
  <2> HIDE DEF nd
  <2> QED BY <1>3, <1>4, <1>6, <2>1, <2>2 DEF PushPastCalc
<1>8. CASE StuckBeforeEnd
  <2>1. n \in NodeId /\ ~trimming /\ n' = tree.next[n] /\ n' # Null /\ UNCHANGED <<tree, trimming>>
    BY <1>1, <1>8 DEF StuckBeforeEnd, MovBefore, Follower
  <2>2. n' \in NodeId /\ Live(tree, n')
    <3>1. tree.next[n] # Null => tree.next[n] \in NodeId /\ Live(tree, tree.next[n])
      BY <1>1, <2>1, Neighbours, NullFacts
    <3> QED BY <2>1, <3>1
  <2> QED BY <1>0, <1>1, <2>1, <2>2, NullFacts DEF IInv, TypeOK
<1>9. CASE PushedOffTheEnd
  BY <1>0, <1>1, <1>9 DEF PushedOffTheEnd, AtEnd, Follower, IInv, TypeOK
<1>10. CASE TrimLast
  <2>1. /\ n \in NodeId /\ trimming /\ tree.node[n].type \in {"MOV", "ADD"}
        /\ tree.next[n] = Null /\ n' = tree.prev[n]
        /\ tree' = Trimmed(tree, n) /\ trimming' = trimming
    BY <1>1, <1>10 DEF TrimLast, Trimmable
  <2>2. /\ tree' \in Tree /\ Shape(tree') /\ Content(tree')
        /\ n' # Null => Live(tree', n') /\ tree'.next[n'] = Null
    BY <1>1, <2>1, TrimmedSound
  <2>3. n' \in Link
    BY <1>1, <2>1, TreeParts
  <2> QED BY <1>0, <1>1, <2>1, <2>2, <2>3 DEF IInv, TypeOK
<1>11. CASE TrimDone
  BY <1>0, <1>1, <1>11 DEF TrimDone, IInv, TypeOK
<1>12. CASE PassOver
  <2>1. n \in NodeId /\ ~trimming /\ n' = tree.next[n] /\ UNCHANGED <<tree, trimming>>
    BY <1>1, <1>12 DEF PassOver, Follower
  <2>2. n' \in Link /\ (n' # Null => Live(tree, n'))
    <3>1. /\ tree.next[n] \in Link
          /\ tree.next[n] # Null => tree.next[n] \in NodeId /\ Live(tree, tree.next[n])
      BY <1>1, <2>1, Neighbours, NullFacts
    <3> QED BY <2>1, <3>1
  <2> QED BY <1>0, <1>1, <2>1, <2>2 DEF IInv, TypeOK
<1>13. CASE UNCHANGED vars
  BY <1>0, <1>1, <1>13 DEF vars, IInv, TypeOK
<1>7. CASE PushRoundLoop
  <2> DEFINE c == tree.node[n].count
             w == tree.next[n]
             e == tree.node[w].jmp
             t == IF c # 0 THEN Balanced(tree, w, c) ELSE tree
  <2>1. /\ n \in NodeId /\ tree.node[n].type = "MOV" /\ w # Null /\ ~trimming
        /\ tree.node[w].type \in Openers
        /\ c # 0 => HasRoomFor(tree, 2)
        /\ tree' = MovedBehind(t, n, e) /\ n' = tree'.next[w]
        /\ trimming' = trimming
    BY <1>1, <1>7 DEF PushRoundLoop, MovBefore, Follower
  <2>2. /\ w \in NodeId /\ Live(tree, w) /\ w # n /\ c \in Int
        /\ e \in NodeId /\ e # w /\ Live(tree, e) /\ tree.node[e].type \in Closers
        /\ t \in Tree /\ Shape(t) /\ BracketsPaired(t) /\ Unallocated(t)
        /\ \A x \in NodeId : Live(tree, x) =>
             /\ KindKept(tree, t, x) /\ t.node[x].count = tree.node[x].count
             /\ t.node[x].offset = IF x = w THEN tree.node[x].offset + c
                                            ELSE tree.node[x].offset
        /\ \A x \in NodeId : t.node[x].type \in Bracket => tree.node[x].type \in Bracket
        /\ t.next[n] = w
    <3>1. IsOpened(tree, n, w, e, c, t)
      BY DEF IsOpened
    <3> HIDE DEF c, w, e, t
    <3>2. tree.next[n] = w
      BY DEF w
    <3> QED BY <1>1, <2>1, <3>1, <3>2, OpenedSound
  <2>4. e = tree.node[w].jmp /\ w = tree.next[n] /\ c = tree.node[n].count
    OBVIOUS
  <2> HIDE DEF c, w, e, t
  <2>3. /\ n \in NodeId /\ Live(tree, n) /\ w \in NodeId /\ Live(tree, w)
        /\ KindKept(tree, t, n) /\ KindKept(tree, t, w) /\ t.next[n] = w
        /\ t.node[n].count = tree.node[n].count
    <3>1. n \in NodeId /\ Live(tree, n)
      BY <1>1, <2>1, NullFacts
    <3> QED BY <2>2, <3>1
  <2>6. /\ t.node[n].type = "MOV" /\ t.next[n] # Null
        /\ t.node[t.next[n]].type \in Openers /\ Ends(t, t.next[n], e)
        /\ t.node[n].count = c
    BY <2>1, <2>3, <2>4 DEF KindKept, Ends
  <2>7. /\ tree' \in Tree /\ Shape(tree') /\ BracketsPaired(tree') /\ Unallocated(tree')
        /\ \A x \in NodeId : KindKept(t, tree', x)
        /\ \A x \in NodeId : tree'.node[x].offset =
             IF x = e THEN t.node[x].offset + c ELSE t.node[x].offset
    <3>1. IsMovedBehind(t, n, e, tree')
      BY <2>1 DEF IsMovedBehind
    <3> QED BY <2>1, <2>2, <2>6, <3>1, MovedBehindSound
  <2>8. OffsetsPaired(tree')
    <3> SUFFICES ASSUME NEW x \in NodeId, tree'.node[x].type \in Bracket
                 PROVE  tree'.node[x].offset = tree'.node[tree'.node[x].jmp].offset
      BY DEF OffsetsPaired
    <3> DEFINE y == tree.node[x].jmp
    <3>1. tree.node[x].type \in Bracket
      BY <2>2, <2>7 DEF KindKept
    <3>2. /\ y \in NodeId /\ tree.node[y].jmp = x /\ tree.node[y].type \in Bracket
          /\ tree.node[x].offset = tree.node[y].offset
      BY <1>1, <3>1 DEF BracketsPaired, OffsetsPaired, Content, Bracket
    <3>3. Live(tree, x) /\ Live(tree, y)
      BY <3>1, <3>2, Kinds DEF Live
    <3>4. tree'.node[x].jmp = y
      BY <2>2, <2>7, <3>3 DEF KindKept
    <3>5. tree.node[e].jmp = w
      BY <1>1, <2>1, <2>3, <2>4, Kinds DEF BracketsPaired
    <3>6. (x = w <=> y = e) /\ (x = e <=> y = w)
      BY <2>4, <3>2, <3>5
    <3> HIDE DEF y
    <3>7. \A z \in {x, y} : tree'.node[z].offset =
            IF z \in {w, e} THEN tree.node[z].offset + c ELSE tree.node[z].offset
      BY <2>2, <2>7, <3>2, <3>3
    <3> QED BY <3>2, <3>4, <3>6, <3>7
  <2>9. n' \in Link /\ (n' # Null => Live(tree', n'))
    <3>1. Live(tree', w)
      BY <2>2, <2>7 DEF Live, KindKept
    <3> QED BY <2>1, <2>2, <2>7, <3>1, Neighbours
  <2> QED BY <1>0, <1>1, <2>1, <2>7, <2>8, <2>9 DEF IInv, TypeOK, Content
<1> QED BY <1>2, <1>5, <1>6, <1>7, <1>8, <1>9, <1>10, <1>11, <1>12, <1>13
        DEF Next, ScanStep

\* The invariant implies the properties of PointerScan.
LEMMA IInvGivesProperties ==
  IInv => TypeOK /\ LinksSound /\ PairedOffsets
BY DEF IInv, LinksSound, PairedOffsets, Shape, Content

(***************************************************************************)
(* What the pass leaves behind.  The cursor turns back and the list is cut *)
(* on both sides of it, so that what it has been past is told by a set P:  *)
(* from the head, next leads through P and then to the cursor.  A movement *)
(* in P is one that nothing can be done about.  Nothing is done to P but   *)
(* that its last node is given up when the cursor turns back.              *)
(***************************************************************************)
\* A movement nothing behind can take over.
Rests(t, x) ==
  IF t.next[x] # Null
  THEN t.node[t.next[x]].type \in Closers \cup {"NOP"}
  ELSE fragment \/ t.prev[x] = Null

Behind(t, m, P) ==
  /\ P \in SUBSET NodeId /\ m \notin P
  /\ \A x \in P : Live(t, x)
  /\ \A x \in P \cup {Null} : t.next[x] \in P \cup {m}
  /\ \A x \in P : t.node[x].type = "MOV" => Rests(t, x)

\* What is behind the cursor comes before it.
LEMMA PassedBefore ==
  ASSUME NEW t \in Tree, NEW m \in NodeId, NEW P, Behind(t, m, P),
         NEW r \in [NodeId -> Int], Ordered(t, r), Live(t, m)
  PROVE  \A x \in P : r[x] < r[m]
<1> DEFINE S == {x \in P : ~(r[x] < r[m])}
           q == [x \in NodeId |-> -r[x]]
<1>1. P \in SUBSET NodeId /\ \A x \in NodeId : r[x] \in Int
  BY DEF Behind
<1> SUFFICES ASSUME S # {} PROVE FALSE
  OBVIOUS
<1>2. S \in SUBSET NodeId /\ q \in [NodeId -> Int]
  BY <1>1
<1>3. \E x \in S : \A y \in S : q[x] <= q[y]
  <2> HIDE DEF S, q
  <2> QED BY <1>2, Foremost
<1>4. PICK x \in S : \A y \in S : q[x] <= q[y]
  BY <1>3
<1>5. x \in P /\ x \in NodeId /\ Live(t, x) /\ ~(r[x] < r[m])
  BY <1>1, <1>4 DEF Behind
<1>6. t.next[x] \in P \cup {m} /\ t.next[x] # Null /\ t.next[x] \in NodeId
  BY <1>1, <1>5, NullFacts DEF Behind
<1>7. r[x] < r[t.next[x]]
  BY <1>5, <1>6 DEF Ordered, Ascends, LiveNodes
<1>8. t.next[x] \in S
  <2> DEFINE y == t.next[x]
  <2>1. r[x] \in Int /\ r[m] \in Int /\ r[y] \in Int
    BY <1>1, <1>5, <1>6
  <2>2. y \in P \cup {m} /\ r[x] < r[y]
    BY <1>6, <1>7
  <2> HIDE DEF y
  <2>3. y # m /\ ~(r[y] < r[m])
    BY <1>5, <2>1, <2>2
  <2> QED BY <2>2, <2>3 DEF y
<1>9. q[x] = -r[x] /\ q[t.next[x]] = -r[t.next[x]]
  BY <1>5, <1>6
<1> QED BY <1>1, <1>4, <1>5, <1>6, <1>7, <1>8, <1>9

\* Neither the node behind the cursor nor, for a loop, its end has been passed.
LEMMA NotPassed ==
  ASSUME NEW t \in Tree, Shape(t), BracketsPaired(t),
         NEW m \in NodeId, Live(t, m), NEW P, Behind(t, m, P)
  PROVE  /\ t.next[m] \notin P \cup {m}
         /\ t.next[m] # Null /\ t.node[t.next[m]].type \in Openers =>
              t.node[t.next[m]].jmp \notin P \cup {m}
<1> DEFINE w == t.next[m]
           e == t.node[w].jmp
<1>1. PICK r \in [NodeId -> Int] : Ordered(t, r)
  BY DEF Shape
<1>2. (\A x \in P : r[x] < r[m]) /\ P \in SUBSET NodeId /\ \A x \in NodeId : r[x] \in Int
  BY <1>1, PassedBefore DEF Behind
<1>3. w # Null => w \in NodeId /\ Live(t, w) /\ r[m] < r[w]
  BY <1>1, Neighbours DEF Ordered, Ascends, LiveNodes
<1>4. ASSUME w # Null, t.node[w].type \in Openers PROVE e \in NodeId /\ r[w] < r[e]
  BY <1>1, <1>3, <1>4, Kinds DEF Ordered, NestedBy, BracketsPaired
<1>5. w \notin P \cup {m}
  BY <1>2, <1>3, NullFacts
<1>6. w # Null /\ t.node[w].type \in Openers => e \notin P \cup {m}
  BY <1>2, <1>3, <1>4
<1> QED BY <1>5, <1>6

\* The cursor goes on.
LEMMA BehindForward ==
  ASSUME NEW t \in Tree, Shape(t), BracketsPaired(t),
         NEW m \in NodeId, Live(t, m), NEW P, Behind(t, m, P),
         t.node[m].type = "MOV" => Rests(t, m)
  PROVE  Behind(t, t.next[m], P \cup {m})
BY NotPassed, NullFacts DEF Behind

\* Where next is the same from the head to the cursor, so is what lies behind it.
LEMMA BehindKept ==
  ASSUME NEW t \in Tree, NEW m \in NodeId, NEW P, Behind(t, m, P), NEW u,
         \A x \in P \cup {Null} : u.next[x] = t.next[x],
         \A x \in P \cup {m} : KindKept(t, u, x)
  PROVE  Behind(u, m, P)
<1>1. \A x \in P : x \in NodeId /\ Live(u, x)
  BY DEF Behind, Live, KindKept
<1>2. \A x \in P : t.node[x].type = "MOV" => Rests(u, x)
  <2> SUFFICES ASSUME NEW x \in P, t.node[x].type = "MOV" PROVE Rests(u, x)
    OBVIOUS
  <2>1. t.next[x] \in P \cup {m} /\ t.next[x] # Null /\ Rests(t, x)
    BY NullFacts DEF Behind
  <2>2. u.next[x] = t.next[x] /\ u.node[t.next[x]].type = t.node[t.next[x]].type
    BY <2>1 DEF KindKept
  <2> QED BY <2>1, <2>2 DEF Rests
<1> QED BY <1>1, <1>2 DEF Behind, KindKept

\* A movement behind the cursor is not in front of a movement or an addition.
LEMMA RestsElsewhere ==
  ASSUME NEW t \in Tree, NEW m \in NodeId, NEW P, Behind(t, m, P),
         t.node[m].type \in {"MOV", "ADD"}, NEW x \in P, t.node[x].type = "MOV"
  PROVE  t.next[x] \in P /\ t.node[t.next[x]].type \in Closers \cup {"NOP"}
BY NullFacts DEF Behind, Rests, Closers

\* The cursor turns back, and its node is cut out.
LEMMA BehindBack ==
  ASSUME NEW t \in Tree, Shape(t),
         NEW m \in NodeId, t.node[m].type \in {"MOV", "ADD"},
         NEW P, Behind(t, m, P), NEW v, v = t.prev[m], NEW u,
         \A x \in P \cup {Null} : x # v => u.next[x] = t.next[x],
         v = Null => u.next[Null] = Null,
         \A x \in P : KindKept(t, u, x)
  PROVE  Behind(u, v, P \ {v})
<1>1. DoublyLinked(t) /\ P \in SUBSET NodeId /\ m # Null
  BY NullFacts DEF Shape, Behind
<1>2. \A x \in P \cup {Null} : x # v => t.next[x] \in P
  <2> SUFFICES ASSUME NEW x \in P \cup {Null}, x # v PROVE t.next[x] # m
    BY DEF Behind
  <2>1. x \in Link /\ (x = Null \/ Live(t, x))
    BY <1>1, NullFacts DEF Behind
  <2> QED BY <1>1, <2>1 DEF DoublyLinked
<1>3. \A x \in (P \ {v}) \cup {Null} : u.next[x] \in (P \ {v}) \cup {v}
  BY <1>2
<1>4. \A x \in P : Live(u, x)
  BY DEF Behind, Live, KindKept
<1>5. \A x \in P \ {v} : t.node[x].type = "MOV" => Rests(u, x)
  <2> SUFFICES ASSUME NEW x \in P \ {v}, t.node[x].type = "MOV" PROVE Rests(u, x)
    OBVIOUS
  <2>1. t.next[x] \in P /\ t.node[t.next[x]].type \in Closers \cup {"NOP"}
    BY RestsElsewhere
  <2>2. u.next[x] = t.next[x] /\ u.node[t.next[x]].type = t.node[t.next[x]].type
    BY <2>1 DEF KindKept
  <2>3. t.next[x] # Null
    BY <1>1, <2>1, NullFacts
  <2> QED BY <2>1, <2>2, <2>3 DEF Rests
<1> QED BY <1>1, <1>3, <1>4, <1>5 DEF Behind, KindKept

\* A movement has gone, and w, a node that is none, has taken its place.
LEMMA BehindReplaced ==
  ASSUME NEW t \in Tree, Shape(t),
         NEW m \in NodeId, t.node[m].type = "MOV", Live(t, m),
         NEW P, Behind(t, m, P), NEW w \in NodeId, w \notin P,
         NEW u \in Tree, Shape(u), BracketsPaired(u), Live(u, w), u.node[w].type # "MOV",
         \A x \in P \cup {Null} : u.next[x] = IF x = t.prev[m] THEN w ELSE t.next[x],
         \A x \in P : KindKept(t, u, x)
  PROVE  Behind(u, u.next[w], P \cup {w})
<1>1. DoublyLinked(t) /\ P \in SUBSET NodeId /\ m # Null /\ t.next[t.prev[m]] = m
  BY Neighbours, NullFacts DEF Shape, Behind
<1>2. \A x \in P \cup {Null} : x # t.prev[m] => t.next[x] \in P
  <2> SUFFICES ASSUME NEW x \in P \cup {Null}, x # t.prev[m] PROVE t.next[x] # m
    BY DEF Behind
  <2>1. x \in Link /\ (x = Null \/ Live(t, x))
    BY <1>1, NullFacts DEF Behind
  <2> QED BY <1>1, <2>1 DEF DoublyLinked
<1>3. \A x \in P : Live(u, x)
  BY DEF Behind, Live, KindKept
<1>4. \A x \in P : t.node[x].type = "MOV" => Rests(u, x)
  <2> SUFFICES ASSUME NEW x \in P, t.node[x].type = "MOV" PROVE Rests(u, x)
    OBVIOUS
  <2>1. t.next[x] \in P /\ t.node[t.next[x]].type \in Closers \cup {"NOP"}
    BY RestsElsewhere
  <2>2. t.next[x] # Null /\ x # t.prev[m]
    <3>1. t.next[x] # m
      BY <2>1 DEF Behind
    <3> QED BY <1>1, <2>1, <3>1, NullFacts
  <2>3. u.next[x] = t.next[x] /\ u.node[t.next[x]].type = t.node[t.next[x]].type
    BY <2>1, <2>2 DEF KindKept
  <2> QED BY <2>1, <2>2, <2>3 DEF Rests
<1>5. Behind(u, w, P)
  <2>1. \A x \in P \cup {Null} : u.next[x] \in P \cup {w}
    BY <1>2
  <2>2. \A x \in P : u.node[x].type = "MOV" => Rests(u, x)
    BY <1>4 DEF KindKept
  <2> QED BY <1>1, <1>3, <2>1, <2>2 DEF Behind
<1> QED BY <1>5, BehindForward

\* When there is no cursor all live nodes are behind it.
LEMMA AllBehind ==
  ASSUME NEW t \in Tree, Shape(t), NEW P, Behind(t, Null, P)
  PROVE  \A x \in NodeId : Live(t, x) => x \in P
<1> DEFINE S == {x \in NodeId : Live(t, x) /\ x \notin P}
<1> SUFFICES ASSUME S # {} PROVE FALSE
  OBVIOUS
<1>1. PICK r \in [NodeId -> Int] : Ordered(t, r)
  BY DEF Shape
<1>2. PICK x \in S : \A y \in S : r[x] <= r[y]
  <2>1. S \in SUBSET NodeId
    OBVIOUS
  <2> HIDE DEF S
  <2> QED BY <2>1, Foremost
<1>3. x \in NodeId /\ Live(t, x) /\ x \notin P /\ x # Null
  BY NullFacts
<1>4. /\ t.next[t.prev[x]] = x
      /\ t.prev[x] # Null => t.prev[x] \in NodeId /\ Live(t, t.prev[x])
  BY <1>3, Neighbours
<1>5. t.prev[x] \notin P \cup {Null}
  BY <1>3, <1>4 DEF Behind
<1>6. t.prev[x] \in S
  BY <1>4, <1>5
<1>7. r[t.prev[x]] < r[x] /\ r[t.prev[x]] \in Int /\ r[x] \in Int
  BY <1>1, <1>3, <1>4, <1>6 DEF Ordered, Ascends, LiveNodes
<1> QED BY <1>2, <1>6, <1>7

\* Nothing is left undone behind the cursor.
PassedInv == \E P : Behind(tree, n, P)

\* The pass starts with nothing behind it.
LEMMA InitPassed == Init => PassedInv
<1> SUFFICES ASSUME Init PROVE Behind(tree, n, {})
  BY DEF PassedInv
<1> QED BY DEF Init, Behind

\* The option does not change.
LEMMA StillPassed ==
  ASSUME NEW Q, Behind(tree', n', Q), fragment' = fragment
  PROVE  PassedInv'
BY DEF PassedInv, Behind, Rests

\* A swap puts the command that the movement has passed behind it.
LEMMA SwapPassed ==
  ASSUME IInv, PassedInv, NEW nd \in Node, MovBefore(Simple \cup Calc),
         nd.type = tree.node[Follower].type, nd.jmp = tree.node[Follower].jmp,
         tree' = Swapped(tree, n, nd), n' = n, fragment' = fragment
  PROVE  PassedInv'
<1> DEFINE w == tree.next[n]
<1>1. PICK P : Behind(tree, n, P)
  BY DEF PassedInv
<1>2. /\ tree \in Tree /\ Shape(tree) /\ Content(tree) /\ BracketsPaired(tree)
      /\ n \in NodeId /\ Live(tree, n) /\ tree.node[n].type = "MOV" /\ w # Null
      /\ tree.node[w].type \in Simple \cup Calc
      /\ nd.type = tree.node[w].type /\ nd.jmp = tree.node[w].jmp
  BY NullFacts DEF IInv, TypeOK, Content, MovBefore, Follower, Live
<1>3. w \in NodeId /\ Live(tree, w) /\ w \notin P \cup {n} /\ P \in SUBSET NodeId /\ n \notin P
  BY <1>1, <1>2, Neighbours, NotPassed DEF Behind
<1>4. /\ tree' \in Tree /\ Shape(tree') /\ BracketsPaired(tree')
      /\ \A x \in Link : x # n /\ x # w =>
           tree'.next[x] = IF x = tree.prev[n] THEN w ELSE tree.next[x]
      /\ tree'.next[w] = n
      /\ \A x \in NodeId : KindKept(tree, tree', x)
  BY <1>2, SwappedSound DEF Content
<1> HIDE DEF w
<1>5. Live(tree', w) /\ tree'.node[w].type # "MOV"
  BY <1>2, <1>3, <1>4 DEF Live, KindKept, Simple, Calc
<1>6. \A x \in P \cup {Null} :
        tree'.next[x] = IF x = tree.prev[n] THEN w ELSE tree.next[x]
  BY <1>2, <1>3, <1>4, NullFacts
<1>7. \A x \in P : KindKept(tree, tree', x)
  BY <1>3, <1>4
<1>8. Behind(tree', tree'.next[w], P \cup {w})
  BY <1>1, <1>2, <1>3, <1>4, <1>5, <1>6, <1>7, BehindReplaced
<1>9. Behind(tree', n', P \cup {w})
  BY <1>4, <1>8
<1> QED BY <1>9, StillPassed

\* No step of pointer_scan leaves anything undone behind the cursor.
LEMMA NextPassed == IInv /\ PassedInv /\ [Next]_vars => PassedInv'
<1> SUFFICES ASSUME IInv, PassedInv, [Next]_vars PROVE PassedInv'
  OBVIOUS
<1>0. fragment' = fragment
  BY DEF Next, vars
<1>1. /\ tree \in Tree /\ Shape(tree) /\ Content(tree)
      /\ BracketsPaired(tree) /\ Unallocated(tree)
      /\ n # Null => n \in NodeId /\ Live(tree, n)
      /\ trimming /\ n # Null => tree.next[n] = Null
      /\ n \in Link
  BY DEF IInv, TypeOK, Content, Live
<1>2. PICK P : Behind(tree, n, P)
  BY DEF PassedInv
<1>3. P \in SUBSET NodeId /\ n \notin P
  BY <1>2 DEF Behind
<1>4. CASE MergeMovements
  <2> DEFINE merged == Absorb(tree, n)
  <2>1. /\ n \in NodeId /\ Live(tree, n) /\ tree.node[n].type = "MOV" /\ tree.next[n] # Null
        /\ tree.node[tree.next[n]].type = "MOV"
    BY <1>1, <1>4 DEF MergeMovements, MovBefore, Follower
  <2>2. /\ merged \in Tree /\ Shape(merged) /\ Content(merged)
        /\ merged.node[n].type = "MOV" /\ merged.prev[n] = tree.prev[n]
        /\ \A x \in Link : x # n /\ x # tree.next[n] => merged.next[x] = tree.next[x]
        /\ \A x \in NodeId : x # tree.next[n] => KindKept(tree, merged, x)
    BY <1>1, <2>1, AbsorbSound
  <2>3. tree.next[n] \notin P \cup {n} /\ tree.next[n] \in NodeId
    BY <1>1, <1>2, <2>1, NotPassed, Neighbours
  <2> HIDE DEF merged
  <2>4. Behind(merged, n, P)
    <3>1. \A x \in P \cup {Null} : merged.next[x] = tree.next[x]
      BY <1>3, <2>1, <2>2, <2>3, NullFacts
    <3>2. \A x \in P \cup {n} : KindKept(tree, merged, x)
      BY <1>3, <2>1, <2>2, <2>3
    <3> QED BY <1>1, <1>2, <2>1, <3>1, <3>2, BehindKept
  <2>5. CASE tree' = merged /\ n' = n
    <3>1. Behind(tree', n', P)
      BY <2>4, <2>5
    <3> QED BY <1>0, <3>1, StillPassed
  <2>6. CASE tree' = Unlinked(merged, n) /\ n' = tree.prev[n] /\ tree.prev[n] # Null
    <3>1. /\ \A x \in Link : x # n /\ x # merged.prev[n] => tree'.next[x] = merged.next[x]
          /\ \A x \in NodeId : x # n => KindKept(merged, tree', x)
      BY <2>1, <2>2, <2>6, UnlinkedSound
    <3>2. \A x \in P \cup {Null} : x # n' => tree'.next[x] = merged.next[x]
      BY <1>3, <2>1, <2>2, <2>6, <3>1, NullFacts
    <3>3. \A x \in P : KindKept(merged, tree', x)
      BY <1>3, <3>1
    <3>4. Behind(tree', n', P \ {n'})
      BY <2>1, <2>2, <2>4, <2>6, <3>2, <3>3, BehindBack
    <3> QED BY <1>0, <3>4, StillPassed
  <2> QED BY <1>4, <2>5, <2>6 DEF MergeMovements, merged
<1>5. MovBefore(Simple) \/ MovBefore(Calc) =>
        /\ tree.node[Follower] \in Node /\ tree.node[n].count \in Int
        /\ MovBefore(Simple \cup Calc)
  BY CommandParts
<1>6. CASE PushPastCommand
  <2> DEFINE nd == [tree.node[Follower] EXCEPT !.offset = @ + tree.node[n].count]
  <2>1. /\ nd \in Node /\ nd.type = tree.node[Follower].type
        /\ nd.jmp = tree.node[Follower].jmp
    BY <1>5, <1>6 DEF PushPastCommand, Node
  <2>2. tree' = Swapped(tree, n, nd) /\ n' = n
    BY <1>6 DEF PushPastCommand
  <2> HIDE DEF nd
  <2> QED BY <1>0, <1>5, <1>6, <2>1, <2>2, SwapPassed DEF PushPastCommand
<1>7. CASE PushPastCalc
  <2> DEFINE nd == Shifted(tree.node[Follower], tree.node[n].count)
  <2>1. /\ nd \in Node /\ nd.type = tree.node[Follower].type
        /\ nd.jmp = tree.node[Follower].jmp
    BY <1>5, <1>7, ShiftedParts DEF PushPastCalc
  <2>2. tree' = Swapped(tree, n, nd) /\ n' = n
    BY <1>7 DEF PushPastCalc
  <2> HIDE DEF nd
  <2> QED BY <1>0, <1>5, <1>7, <2>1, <2>2, SwapPassed DEF PushPastCalc
<1>8. CASE PushRoundLoop
  <2> DEFINE c == tree.node[n].count
             w == tree.next[n]
             e == tree.node[w].jmp
             t == IF c # 0 THEN Balanced(tree, w, c) ELSE tree
  <2>1. /\ n \in NodeId /\ Live(tree, n) /\ tree.node[n].type = "MOV" /\ w # Null
        /\ tree.node[w].type \in Openers
        /\ c # 0 => HasRoomFor(tree, 2)
        /\ tree' = MovedBehind(t, n, e) /\ n' = tree'.next[w]
    BY <1>1, <1>8 DEF PushRoundLoop, MovBefore, Follower
  <2>2. w \notin P \cup {n} /\ e \notin P \cup {n}
    BY <1>1, <1>2, <2>1, NotPassed
  <2>3. IsOpened(tree, n, w, e, c, t)
    BY DEF IsOpened
  <2>4. tree.next[n] = w
    OBVIOUS
  <2> HIDE DEF c, w, e, t
  <2>5. /\ w \in NodeId /\ Live(tree, w) /\ e \in NodeId /\ e # w
        /\ t \in Tree /\ Shape(t) /\ BracketsPaired(t) /\ Unallocated(t)
        /\ \A x \in NodeId : Live(tree, x) => KindKept(tree, t, x)
        /\ t.next[n] = w
        /\ \A x \in Link : (x = Null \/ Live(tree, x)) /\ x # w /\ tree.next[x] # e =>
             t.next[x] = tree.next[x]
    BY <1>1, <2>1, <2>3, <2>4, OpenedSound
  <2>6. KindKept(tree, t, n) /\ KindKept(tree, t, w)
    BY <2>1, <2>5
  <2>7. Behind(t, n, P)
    <3>1. \A x \in P \cup {Null} : t.next[x] = tree.next[x]
      <4> SUFFICES ASSUME NEW x \in P \cup {Null} PROVE t.next[x] = tree.next[x]
        OBVIOUS
      <4>1. x \in Link /\ (x = Null \/ Live(tree, x)) /\ tree.next[x] \in P \cup {n}
        BY <1>2, <1>3, NullFacts DEF Behind
      <4>2. x # w /\ tree.next[x] # e
        BY <2>2, <2>5, <4>1, NullFacts
      <4> QED BY <2>5, <4>1, <4>2
    <3>2. \A x \in P \cup {n} : KindKept(tree, t, x)
      BY <1>2, <1>3, <2>5, <2>6 DEF Behind
    <3> QED BY <1>1, <1>2, <2>1, <3>1, <3>2, BehindKept
  <2>8. /\ t.node[n].type = "MOV" /\ Live(t, n) /\ t.next[n] # Null
        /\ t.node[t.next[n]].type \in Openers /\ Ends(t, t.next[n], e)
    BY <2>1, <2>5, <2>6, Kinds DEF KindKept, Ends, Live, e
  <2>9. /\ tree' \in Tree /\ Shape(tree') /\ BracketsPaired(tree')
        /\ \A x \in NodeId : KindKept(t, tree', x)
        /\ \A x \in Link : x # n /\ x # e =>
             tree'.next[x] = IF x = t.prev[n] THEN t.next[n] ELSE t.next[x]
    <3>1. IsMovedBehind(t, n, e, tree')
      BY <2>1 DEF IsMovedBehind
    <3> QED BY <2>1, <2>5, <2>8, <3>1, MovedBehindSound
  <2>10. Live(tree', w) /\ tree'.node[w].type # "MOV"
    BY <2>1, <2>5, <2>6, <2>9, Kinds DEF Live, KindKept
  <2>11. \A x \in P \cup {Null} :
           tree'.next[x] = IF x = t.prev[n] THEN w ELSE t.next[x]
    BY <1>3, <2>1, <2>2, <2>5, <2>9, NullFacts
  <2>12. \A x \in P : KindKept(t, tree', x)
    BY <1>3, <2>9
  <2>13. Behind(tree', tree'.next[w], P \cup {w})
    <3>1. /\ t \in Tree /\ Shape(t) /\ n \in NodeId /\ w \in NodeId /\ w \notin P
          /\ t.node[n].type = "MOV" /\ Live(t, n)
          /\ tree' \in Tree /\ Shape(tree') /\ BracketsPaired(tree')
      BY <2>1, <2>2, <2>5, <2>8, <2>9
    <3> QED BY <2>7, <2>10, <2>11, <2>12, <3>1, BehindReplaced
  <2>14. Behind(tree', n', P \cup {w})
    BY <2>1, <2>13
  <2> QED BY <1>0, <2>14, StillPassed
<1>9. ASSUME n # Null, UNCHANGED tree, n' = tree.next[n],
             tree.node[n].type = "MOV" => Rests(tree, n)
      PROVE  PassedInv'
  <2>1. Behind(tree, tree.next[n], P \cup {n})
    BY <1>1, <1>2, <1>9, BehindForward
  <2>2. Behind(tree', n', P \cup {n})
    BY <1>9, <2>1
  <2> QED BY <1>0, <2>2, StillPassed
<1>10. CASE StuckBeforeEnd
  <2>1. n # Null /\ UNCHANGED tree /\ n' = tree.next[n] /\ Rests(tree, n)
    BY <1>10 DEF StuckBeforeEnd, MovBefore, Follower, Rests
  <2> QED BY <1>9, <2>1
<1>11. CASE PassOver
  <2>1. /\ n # Null /\ UNCHANGED tree /\ n' = tree.next[n]
        /\ tree.node[n].type = "MOV" => Rests(tree, n)
    BY <1>11 DEF PassOver, AtEnd, Follower, Rests
  <2> QED BY <1>9, <2>1
<1>12. CASE TrimLast
  <2>1. /\ n \in NodeId /\ tree.node[n].type \in {"MOV", "ADD"}
        /\ tree.next[n] = Null /\ n' = tree.prev[n]
        /\ tree' = Trimmed(tree, n)
    BY <1>1, <1>12 DEF TrimLast, Trimmable
  <2>2. /\ n' = Null => tree'.next[Null] = Null
        /\ \A x \in Link : x # n /\ x # n' => tree'.next[x] = tree.next[x]
        /\ \A x \in NodeId : x # n => KindKept(tree, tree', x)
    BY <1>1, <2>1, TrimmedSound
  <2>3. /\ \A x \in P \cup {Null} : x # n' => tree'.next[x] = tree.next[x]
        /\ \A x \in P : KindKept(tree, tree', x)
    BY <1>3, <2>1, <2>2, NullFacts
  <2>4. Behind(tree', n', P \ {n'})
    BY <1>1, <1>2, <2>1, <2>2, <2>3, BehindBack
  <2> QED BY <1>0, <2>4, StillPassed
<1>13. CASE UNCHANGED <<tree, n>>
  <2>1. Behind(tree', n', P)
    BY <1>2, <1>13
  <2> QED BY <1>0, <2>1, StillPassed
<1>14. PushedOffTheEnd \/ TrimDone \/ UNCHANGED vars => UNCHANGED <<tree, n>>
  BY DEF PushedOffTheEnd, TrimDone, vars
<1> QED BY <1>4, <1>6, <1>7, <1>8, <1>10, <1>11, <1>12, <1>13, <1>14 DEF Next, ScanStep

\* In every state of the pass nothing is left undone behind the cursor.
LEMMA Passing == Spec => [](IInv /\ PassedInv)
<1>1. Init => IInv /\ PassedInv
  BY InitIInv, InitPassed
<1>2. (IInv /\ PassedInv) /\ [Next]_vars => (IInv /\ PassedInv)'
  BY NextIInv, NextPassed
<1> QED BY <1>1, <1>2, PTL DEF Spec

\* The inductive invariant holds in every state of the pass.
THEOREM Invariance == Spec => []IInv
BY InitIInv, NextIInv, PTL DEF Spec

\* The variables of pointer_scan keep their types, whatever the tree.
THEOREM TypeCorrect == Spec => []TypeOK
BY Invariance, IInvGivesProperties, PTL

\* Whatever tree the loader leaves, no link and no cursor of pointer_scan ever
\* reaches a freed node, and prev always undoes next.
THEOREM LinksStaySound == Spec => []LinksSound
BY Invariance, IInvGivesProperties, PTL

\* Whatever tree the loader leaves, both brackets of every loop test the same
\* cell after every step of pointer_scan.
THEOREM OffsetsStayPaired == Spec => []PairedOffsets
BY Invariance, IInvGivesProperties, PTL

\* No node is lost, no ring is made and loops go on nesting, although each case
\* of the switch cuts and joins the list by hand.
THEOREM ListStaysWhole == Spec => []ListWhole
<1>1. IInv => ListWhole
  <2> SUFFICES ASSUME IInv PROVE Complete(tree) /\ Nested(tree)
    BY DEF ListWhole
  <2>1. tree \in Tree /\ DoublyLinked(tree) /\ BracketsPaired(tree)
    BY DEF IInv, TypeOK, Shape, Content
  <2>2. PICK r \in [NodeId -> Int] : Ordered(tree, r)
    BY DEF IInv, Shape
  <2>3. Ranks(tree, r) /\ NestedBy(tree, r)
    BY <2>2 DEF Ordered, Ascends, LiveNodes, Ranks
  <2> QED BY <2>1, <2>3, RankedComplete, RankedNested
<1> QED BY <1>1, Invariance, PTL

\* Whatever the order in which movements were merged, swapped, pushed round loops
\* and trimmed, when the pass is over no movement is left that another command
\* could still take over.
THEOREM NothingIsLeft == Spec => []NothingLeftToPush
<1>1. IInv /\ PassedInv => NothingLeftToPush
  <2> SUFFICES ASSUME IInv, PassedInv, Over, NEW x \in NodeId, tree.node[x].type = "MOV"
               PROVE  Rests(tree, x)
    BY DEF NothingLeftToPush, Rests
  <2>1. PICK P : Behind(tree, Null, P)
    BY DEF PassedInv, Over
  <2>2. tree \in Tree /\ Shape(tree) /\ Live(tree, x)
    BY DEF IInv, TypeOK, Live
  <2>3. x \in P
    BY <2>1, <2>2, AllBehind
  <2> QED BY <2>1, <2>3 DEF Behind
<1> QED BY <1>1, Passing, PTL

(***************************************************************************)
(* What the program does.  Each edit of the tree leaves a tree that is     *)
(* Alike: the movements it merges, moves, adds and drops stand between the *)
(* same commands.                                                          *)
(***************************************************************************)

Sound(t) == t \in Tree /\ Shape(t) /\ Content(t) /\ Factors(t)

\* Command by command u does what t does, and ends with the same pointer.
DoesAs(t, u) ==
  \A tape \in Tapes, k \in Nat : Matches(Ran(t, tape, k), Ran(u, tape, k), 0)

\* So it does, but u may end with another pointer, or one command sooner.
EndsAs(t, u) ==
  \A tape \in Tapes, k \in Nat :
    \/ \E e \in Int : Matches(Ran(t, tape, k), Ran(u, tape, k), e)
    \/ /\ Ran(u, tape, k).status = "done" /\ Ran(t, tape, k + 1).status = "done"
       /\ Ran(u, tape, k).io = Ran(t, tape, k).io
       /\ Ran(t, tape, k + 1).io = Ran(t, tape, k).io

\* In a sound tree every live node has a place.
LEMMA SoundPlaces ==
  ASSUME NEW t \in Tree, Shape(t)
  PROVE  \E r : Places(t, r)
<1>1. PICK r \in [NodeId -> Int] : Ordered(t, r)
  BY DEF Shape
<1>2. Ranks(t, r) /\ DoublyLinked(t)
  BY <1>1 DEF Ordered, Ascends, LiveNodes, Ranks, Shape
<1>3. Complete(t)
  BY <1>2, RankedComplete
<1> QED BY <1>3, CompletePlaces

\* Alike trees end alike.
LEMMA AlikeEnds ==
  ASSUME NEW t \in Tree, NEW u \in Tree, NEW r, Places(t, r), Shape(u),
         NEW S, NEW sh, Alike(t, u, r, S, sh), S \subseteq LiveNodes(u)
  PROVE  EndsAs(t, u)
<1>1. PICK q : Places(u, q)
  BY SoundPlaces
<1>2. SUFFICES ASSUME NEW tape \in Tapes, NEW k \in Nat
               PROVE  \/ \E e \in Int : Matches(Ran(t, tape, k), Ran(u, tape, k), e)
                      \/ /\ Ran(u, tape, k).status = "done" /\ Ran(t, tape, k + 1).status = "done"
                         /\ Ran(u, tape, k).io = Ran(t, tape, k).io
                         /\ Ran(t, tape, k + 1).io = Ran(t, tape, k).io
  BY DEF EndsAs
<1>3. IsTape(tape) /\ Stdin \in Seq(Int)
  BY InputAssumption DEF IsTape
<1>4. S \subseteq {x \in NodeId : Live(u, x)} /\ sh[Null] \in Int
  BY NullFacts DEF LiveNodes, Alike
<1>5. \/ Matches(Ran(t, tape, k), Ran(u, tape, k), sh[Null])
      \/ Sooner(t, S, Ran(t, tape, k), Ran(t, tape, k + 1), Ran(u, tape, k))
  BY <1>1, <1>3, <1>4, RunsAlike DEF Ran
<1> QED BY <1>4, <1>5 DEF Sooner

\* If no addition is missing and the pointer is the same they do the same.
LEMMA AlikeDoes ==
  ASSUME NEW t \in Tree, NEW u \in Tree, NEW r, Places(t, r), Shape(u),
         NEW S, NEW sh, Alike(t, u, r, S, sh), S \subseteq LiveNodes(u),
         sh[Null] = 0, \A x \in LiveNodes(t) : t.node[x].type = "ADD" => x \in S
  PROVE  DoesAs(t, u)
<1>1. PICK q : Places(u, q)
  BY SoundPlaces
<1>2. SUFFICES ASSUME NEW tape \in Tapes, NEW k \in Nat
               PROVE  Matches(Ran(t, tape, k), Ran(u, tape, k), 0)
  BY DEF DoesAs
<1>3. IsTape(tape) /\ Stdin \in Seq(Int)
  BY InputAssumption DEF IsTape
<1>4. S \subseteq {x \in NodeId : Live(u, x)}
  BY DEF LiveNodes
<1>5. \/ Matches(Ran(t, tape, k), Ran(u, tape, k), sh[Null])
      \/ Sooner(t, S, Ran(t, tape, k), Ran(t, tape, k + 1), Ran(u, tape, k))
  BY <1>1, <1>3, <1>4, RunsAlike DEF Ran
<1>6. \A z : ~LastAdd(t, S, z)
  BY DEF LastAdd, LiveNodes, Live
<1> QED BY <1>5, <1>6 DEF Sooner

\* One after the other.
LEMMA DoesAsBoth ==
  ASSUME NEW t, NEW u, NEW v, DoesAs(t, u), DoesAs(u, v)
  PROVE  DoesAs(t, v)
<1>1. SUFFICES ASSUME NEW tape \in Tapes, NEW k \in Nat
               PROVE  Matches(Ran(t, tape, k), Ran(v, tape, k), 0)
  BY DEF DoesAs
<1>2. Matches(Ran(t, tape, k), Ran(u, tape, k), 0) /\ Matches(Ran(u, tape, k), Ran(v, tape, k), 0)
  BY DEF DoesAs
<1> QED BY <1>2 DEF Matches

(***************************************************************************)
(* How the parts of Alike are shown.                                       *)
(***************************************************************************)

\* Node x of t, which u has shifted by -d.
Taken(t, u, x, d) ==
  /\ Same(t.node[x], u.node[x], d)
  /\ t.node[x].type = "MOV" => u.node[x].count = t.node[x].count

\* A node that is not touched is taken over as it is.
LEMMA TakenOver ==
  ASSUME NEW t \in Tree, NEW u, NEW x \in NodeId, u.node[x] = t.node[x]
  PROVE  Taken(t, u, x, 0)
<1>1. t.node[x] \in Node
  BY TreeParts
<1>2. t.node[x].offset \in Int /\ t.node[x].offset2 \in Int /\ t.node[x].offset3 \in Int
  BY <1>1 DEF Node
<1>3. \A i \in Int : i = i - 0
  OBVIOUS
<1> QED BY <1>2, <1>3 DEF Taken, Same

\* All nodes are taken over but movements and additions.
TakesOver(t, u, S, sh) ==
  /\ S \subseteq LiveNodes(t) /\ sh \in [Link -> Int]
  /\ \A x \in LiveNodes(t) : x \notin S => t.node[x].type \in {"MOV", "ADD"}
  /\ \A x \in S : Taken(t, u, x, sh[x])
  /\ \A x \in S : t.node[x].type \in Bracket => sh[t.node[x].jmp] = sh[x]

\* In an edit that takes over all but movements and additions, the nodes taken
\* over match: they are alive in both trees, and so are their brackets.
LEMMA TakesOverMatched ==
  ASSUME NEW t, Sound(t), NEW u \in Tree, NEW S, NEW sh, TakesOver(t, u, S, sh)
  PROVE  Matched(t, u, S, sh) /\ S \subseteq LiveNodes(u)
<1>1. /\ t \in Tree /\ BracketsPaired(t) /\ Factors(t)
      /\ t.node \in [NodeId -> Node] /\ u.node \in [NodeId -> Node]
  BY TreeParts DEF Sound, Content
<1>2. SUFFICES ASSUME NEW x \in S
               PROVE  /\ Live(t, x) /\ Live(u, x) /\ x \in NodeId
                      /\ Twins(t.node[x], u.node[x], sh[x])
                      /\ t.node[x].type = "MOV" => u.node[x].count = t.node[x].count
                      /\ t.node[x].type \in Bracket => t.node[x].jmp \in S /\ sh[t.node[x].jmp] = sh[x]
  BY DEF Matched, LiveNodes
<1>3. Live(t, x) /\ x \in NodeId /\ Taken(t, u, x, sh[x])
  BY DEF TakesOver, LiveNodes
<1>4. Live(u, x)
  BY <1>3 DEF Taken, Same, Live
<1>5. Twins(t.node[x], u.node[x], sh[x])
  BY <1>1, <1>3 DEF Twins, Taken, Live, Factors
<1>6. ASSUME t.node[x].type \in Bracket PROVE t.node[x].jmp \in S /\ sh[t.node[x].jmp] = sh[x]
  <2> DEFINE y == t.node[x].jmp
  <2>1. y \in NodeId /\ t.node[y].type \in Bracket
    BY <1>1, <1>3, <1>6, Kinds DEF BracketsPaired, Bracket
  <2>2. y \in LiveNodes(t) /\ t.node[y].type \notin {"MOV", "ADD"}
    BY <2>1 DEF LiveNodes, Live, Bracket, Openers, Closers
  <2> QED BY <1>6, <2>2 DEF TakesOver
<1> QED BY <1>3, <1>4, <1>5, <1>6 DEF Taken

\* So the factors are there still, if u has no other command.
LEMMA FactorsKept ==
  ASSUME NEW t, Sound(t), NEW u \in Tree, NEW S, NEW sh, TakesOver(t, u, S, sh),
         \A x \in LiveNodes(u) : x \notin S => u.node[x].type = "MOV"
  PROVE  Factors(u)
<1>1. SUFFICES ASSUME NEW x \in NodeId, u.node[x].type = "LT"
               PROVE  u.node[x].count2 # 0 /\ u.node[x].count3 # 0
  BY DEF Factors
<1>2. x \in S
  BY <1>1 DEF LiveNodes, Live
<1>3. Same(t.node[x], u.node[x], sh[x])
  BY <1>2 DEF TakesOver, Taken
<1> QED BY <1>1, <1>3 DEF Same, Sound, Factors

\* Behind x both have the same node.
LEMMA GoSame ==
  ASSUME NEW t \in Tree, NEW u, NEW r, Places(t, r), NEW S, NEW sh \in [Link -> Int],
         NEW x \in Link, x = Null \/ Live(t, x), u.next[x] = t.next[x],
         t.next[x] \in S \cup {Null}, NEW d, sh[t.next[x]] = d
  PROVE  GoAlike(t, u, r, S, sh, x, d)
<1> DEFINE y == t.next[x]
<1>1. y \in Link
  BY TreeParts
<1>2. d \in Int /\ d + 0 - 0 = d /\ 0 \in Int
  BY <1>1
<1>3. Leads(t, y, y, 0) /\ Leads(u, y, y, 0)
  BY LeadsNowhere
<1>4. x # Null /\ y # Null => r[x] < r[y]
  BY NullFacts DEF Places
<1> QED BY <1>2, <1>3, <1>4 DEF GoAlike

\* Both come to y, past some movements.
LEMMA GoVia ==
  ASSUME NEW t \in Tree, NEW u, NEW r, NEW S, NEW sh, NEW x,
         NEW y \in S \cup {Null}, NEW s1 \in Int, NEW s2 \in Int,
         Leads(t, t.next[x], y, s1), Leads(u, u.next[x], y, s2),
         NEW d, sh[y] = d + s2 - s1, x # Null /\ y # Null => r[x] < r[y]
  PROVE  GoAlike(t, u, r, S, sh, x, d)
BY DEF GoAlike

(***************************************************************************)
(* Each edit, in full.                                                     *)
(***************************************************************************)

\* u is t without the movement behind m, which m has taken over.
Merges(t, m, u) ==
  LET gone == t.next[m]
  IN  /\ \A x \in Link : x # gone =>
           u.next[x] = IF x = m THEN t.next[gone] ELSE t.next[x]
      /\ \A x \in NodeId : x # m /\ x # gone => u.node[x] = t.node[x]
      /\ u.node[m].type = "MOV"
      /\ u.node[m].count = t.node[m].count + t.node[gone].count
      /\ u.node[gone] = FreeNode
      /\ u.num = t.num

\* Two movements in a row become one.
LEMMA AbsorbMerges ==
  ASSUME NEW t \in Tree, Shape(t),
         NEW m \in NodeId, t.node[m].type = "MOV",
         t.next[m] # Null, t.node[t.next[m]].type = "MOV"
  PROVE  Merges(t, m, Absorb(t, m))
<1> DEFINE gone == t.next[m]
           rest == t.next[gone]
           f == [t.next EXCEPT ![m] = rest]
           g == SetPrev(t.prev, rest, m)
           h == [t.node EXCEPT ![m].count = @ + t.node[gone].count]
           v == Edit(t, f, g, h)
           u == Absorb(t, m)
<1>1. /\ gone \in NodeId /\ gone # m /\ rest \in Link /\ m \in Link
      /\ t.node[m].count \in Int /\ t.node[gone].count \in Int
  <2>1. Live(t, m)
    BY Kinds DEF Live
  <2>2. gone \in NodeId /\ gone # m
    BY <2>1, Neighbours
  <2>3. rest \in Link
    BY <2>2, TreeParts, NullFacts
  <2> QED BY <2>2, <2>3, TreeParts, NullFacts DEF Node
<1>2. /\ f \in [Link -> Link]
      /\ \A x \in Link : f[x] = IF x = m THEN rest ELSE t.next[x]
  BY <1>1, TreeParts
<1>3. g \in [NodeId -> Link]
  BY <1>1, TreeParts DEF SetPrev
<1>4. /\ h \in [NodeId -> Node]
      /\ \A x \in NodeId : x # m => h[x] = t.node[x]
      /\ h[m].type = "MOV" /\ h[m].count = t.node[m].count + t.node[gone].count
  BY <1>1, TreeParts DEF Node
<1>5. u = Freed(v, gone)
  BY DEF Absorb
<1> HIDE DEF f, g, h, u
<1>6. v \in Tree /\ v.next = f /\ v.node = h /\ v.num = t.num
  BY <1>2, <1>3, <1>4, EditParts
<1> HIDE DEF v, gone, rest
<1>7. /\ u.num = t.num /\ u.node[gone] = FreeNode
      /\ \A y \in Link : y # gone => u.next[y] = f[y]
      /\ \A y \in NodeId : y # gone => u.node[y] = h[y]
  BY <1>1, <1>5, <1>6, FreedParts
<1>8. gone = t.next[m] /\ rest = t.next[gone]
  BY DEF gone, rest
<1>9. \A x \in Link : x # gone => u.next[x] = IF x = m THEN t.next[gone] ELSE t.next[x]
  BY <1>2, <1>7, <1>8
<1>10. \A x \in NodeId : x # m /\ x # gone => u.node[x] = t.node[x]
  BY <1>4, <1>7
<1>11. u.node[m].type = "MOV" /\ u.node[m].count = t.node[m].count + t.node[gone].count
  BY <1>1, <1>4, <1>7
<1> QED BY <1>7, <1>8, <1>9, <1>10, <1>11 DEF Merges, u

\* u is t without m.
Drops(t, m, u) ==
  /\ \A x \in Link : x # m => u.next[x] = IF x = t.prev[m] THEN t.next[m] ELSE t.next[x]
  /\ \A x \in NodeId : x # m => u.node[x] = t.node[x]
  /\ u.node[m] = FreeNode
  /\ u.num = t.num

\* unlink takes out one node and leaves the others as they were.
LEMMA UnlinkedDrops ==
  ASSUME NEW t \in Tree, NEW m \in NodeId
  PROVE  Drops(t, m, Unlinked(t, m))
<1> DEFINE a == t.prev[m]
           b == t.next[m]
           f == [t.next EXCEPT ![a] = b]
           g == SetPrev(t.prev, b, a)
           v == Edit(t, f, g, t.node)
           u == Unlinked(t, m)
<1>1. a \in Link /\ b \in Link
  BY TreeParts, NullFacts
<1>2. /\ f \in [Link -> Link]
      /\ \A x \in Link : f[x] = IF x = a THEN b ELSE t.next[x]
  BY <1>1, TreeParts
<1>3. g \in [NodeId -> Link]
  BY <1>1, TreeParts DEF SetPrev
<1>4. u = Freed(v, m)
  BY DEF Unlinked
<1> HIDE DEF a, b, f, g, u
<1>5. v \in Tree /\ v.next = f /\ v.node = t.node /\ v.num = t.num
  <2>1. f \in [Link -> Link] /\ g \in [NodeId -> Link] /\ t.node \in [NodeId -> Node]
    BY <1>2, <1>3, TreeParts
  <2> QED BY <2>1, EditParts
<1> HIDE DEF v
<1>6. /\ u.num = t.num /\ u.node[m] = FreeNode
      /\ \A y \in Link : y # m => u.next[y] = f[y]
      /\ \A y \in NodeId : y # m => u.node[y] = t.node[y]
  BY <1>4, <1>5, FreedParts
<1> QED BY <1>2, <1>6 DEF Drops, a, b, u

\* The trim at the end of the list takes out its last node.
LEMMA TrimmedDrops ==
  ASSUME NEW t \in Tree, NEW m \in NodeId, t.next[m] = Null
  PROVE  Drops(t, m, Trimmed(t, m))
<1> DEFINE a == t.prev[m]
           f == [t.next EXCEPT ![a] = Null]
           v == Edit(t, f, t.prev, t.node)
           u == Trimmed(t, m)
<1>1. a \in Link
  BY TreeParts
<1>2. /\ f \in [Link -> Link]
      /\ \A x \in Link : f[x] = IF x = a THEN Null ELSE t.next[x]
  BY <1>1, TreeParts, NullFacts
<1>4. u = Freed(v, m)
  BY DEF Trimmed
<1> HIDE DEF f, u
<1>5. v \in Tree /\ v.next = f /\ v.node = t.node /\ v.num = t.num
  BY <1>2, TreeParts, EditParts
<1> HIDE DEF v
<1>6. /\ u.num = t.num /\ u.node[m] = FreeNode
      /\ \A y \in Link : y # m => u.next[y] = f[y]
      /\ \A y \in NodeId : y # m => u.node[y] = t.node[y]
  BY <1>4, <1>5, FreedParts
<1> QED BY <1>2, <1>6 DEF Drops, u

\* u is t with m behind the command that was behind it, which is nd now.
Swaps(t, m, nd, u) ==
  LET n2 == t.next[m]
  IN  /\ \A x \in Link :
           u.next[x] = IF x = m THEN t.next[n2] ELSE IF x = n2 THEN m
                       ELSE IF x = t.prev[m] THEN n2 ELSE t.next[x]
      /\ \A x \in NodeId : u.node[x] = IF x = n2 THEN nd ELSE t.node[x]
      /\ u.num = t.num

\* A movement and the node behind it change places; no other node is touched.
LEMMA SwappedSwaps ==
  ASSUME NEW t \in Tree, Shape(t), NEW m \in NodeId, Live(t, m), t.next[m] # Null,
         NEW nd \in Node
  PROVE  Swaps(t, m, nd, Swapped(t, m, nd))
<1> DEFINE n2 == t.next[m]
           n3 == t.prev[m]
           n4 == t.next[n2]
           f == [t.next EXCEPT ![n3] = n2, ![n2] = m, ![m] = n4]
           g1 == [t.prev EXCEPT ![n2] = n3, ![m] = n2]
           g == SetPrev(g1, n4, m)
           h == [t.node EXCEPT ![n2] = nd]
           u == Swapped(t, m, nd)
<1>1. /\ n2 \in NodeId /\ n3 \in Link /\ n4 \in Link
      /\ n2 # m /\ n3 # m /\ n3 # n2
  <2>1. n2 \in NodeId /\ n3 \in Link /\ n2 # m /\ n3 # m /\ n3 # n2
    BY Neighbours
  <2> QED BY <2>1, TreeParts, NullFacts
<1>2. u = Edit(t, f, g, h)
  BY DEF Swapped
<1>3. n2 = t.next[m] /\ n3 = t.prev[m] /\ n4 = t.next[n2]
  OBVIOUS
<1> HIDE DEF n2, n3, n4, u
<1>4. /\ f \in [Link -> Link]
      /\ \A x \in Link : f[x] = IF x = m THEN n4 ELSE IF x = n2 THEN m
                                ELSE IF x = n3 THEN n2 ELSE t.next[x]
  BY <1>1, TreeParts, NullFacts
<1>5. g1 \in [NodeId -> Link]
  BY <1>1, TreeParts, NullFacts
<1> HIDE DEF f, g1
<1>6. g \in [NodeId -> Link]
  BY <1>1, <1>5, NullFacts DEF SetPrev
<1>7. h \in [NodeId -> Node] /\ \A x \in NodeId : h[x] = IF x = n2 THEN nd ELSE t.node[x]
  BY <1>1, TreeParts
<1> HIDE DEF g, h
<1>8. u.next = f /\ u.node = h /\ u.num = t.num
  BY <1>2, <1>4, <1>6, <1>7, EditParts
<1> QED BY <1>3, <1>4, <1>7, <1>8 DEF Swaps, u

(***************************************************************************)
(* What each edit does.                                                    *)
(***************************************************************************)

\* One node only is in front of m.
LEMMA InFront ==
  ASSUME NEW t \in Tree, Shape(t), NEW m \in NodeId, Live(t, m),
         NEW x \in Link, x = Null \/ Live(t, x)
  PROVE  /\ t.next[x] = m <=> x = t.prev[m]
         /\ t.next[x] \in LiveNodes(t) \cup {Null}
BY NullFacts, TreeParts DEF Shape, DoublyLinked, LiveNodes

\* The place of what is behind.
LEMMA NextPlace ==
  ASSUME NEW t, NEW r, Places(t, r), NEW x, Live(t, x), t.next[x] # Null
  PROVE  /\ Live(t, t.next[x]) /\ r[x] < r[t.next[x]]
         /\ r[x] \in Int /\ r[t.next[x]] \in Int
BY NullFacts DEF Places, Live

\* One node only is the last.
LEMMA OneIsLast ==
  ASSUME NEW t \in Tree, NEW r, Places(t, r), NEW m, Live(t, m), t.next[m] = Null,
         NEW x \in Link, x = Null \/ Live(t, x), t.next[x] = Null
  PROVE  x = m
<1>1. x # Null
  BY NullFacts DEF Places, Live
<1>2. r[x] \in Int /\ r[m] \in Int /\ r[x] <= r[m] /\ r[m] <= r[x]
  BY <1>1, NullFacts DEF Places, Live
<1>3. r[x] = r[m]
  BY <1>2
<1> QED BY <1>1, <1>3, NullFacts DEF Places, Live

\* Two movements become one.
LEMMA MergesDoes ==
  ASSUME NEW t, Sound(t), NEW u \in Tree, Shape(u),
         NEW m \in NodeId, t.node[m].type = "MOV",
         t.next[m] # Null, t.node[t.next[m]].type = "MOV", Merges(t, m, u)
  PROVE  DoesAs(t, u) /\ Factors(u)
<1> DEFINE gone == t.next[m]
           rest == t.next[gone]
           a == t.prev[m]
           S == LiveNodes(t) \ {m, gone}
           sh == [x \in Link |-> 0]
           c == t.node[m].count
           c2 == t.node[gone].count
<1>1. /\ t \in Tree /\ Shape(t) /\ Live(t, m) /\ Live(t, gone) /\ gone \in NodeId
      /\ gone # m /\ t.prev[gone] = m /\ a \in Link /\ a # gone /\ a # m
      /\ a = Null \/ Live(t, a)
      /\ c \in Int /\ c2 \in Int /\ t.next[a] = m
      /\ rest \in S \cup {Null}
  <2>1. t \in Tree /\ Shape(t) /\ Live(t, m)
    BY Kinds DEF Sound, Live
  <2>2. /\ Live(t, gone) /\ gone \in NodeId /\ gone # m /\ t.prev[gone] = m
        /\ a \in Link /\ a # gone /\ a # m /\ (a = Null \/ Live(t, a)) /\ t.next[a] = m
    BY <2>1, Neighbours
  <2>3. rest \in LiveNodes(t) \cup {Null} /\ rest # gone /\ rest # m
    BY <2>1, <2>2, Neighbours, NullFacts, TreeParts DEF LiveNodes
  <2>4. c \in Int /\ c2 \in Int
    BY <2>1, <2>2, TreeParts DEF Node
  <2> QED BY <2>1, <2>2, <2>3, <2>4
<1>2. PICK r : Places(t, r)
  BY <1>1, SoundPlaces
<1>3. /\ \A x \in Link : x # gone => u.next[x] = IF x = m THEN rest ELSE t.next[x]
      /\ \A x \in NodeId : x # m /\ x # gone => u.node[x] = t.node[x]
      /\ u.node[m].type = "MOV" /\ u.node[m].count = c + c2
      /\ u.node[gone] = FreeNode
  BY DEF Merges
<1>4. t.node[gone].type = "MOV" /\ t.node[m].type = "MOV"
  OBVIOUS
<1>5. /\ gone = t.next[m] /\ rest = t.next[gone]
      /\ c = t.node[m].count /\ c2 = t.node[gone].count
  OBVIOUS
<1> HIDE DEF gone, rest, a, c, c2
<1>6. TakesOver(t, u, S, sh)
  <2>1. \A x \in S : Taken(t, u, x, sh[x])
    <3> SUFFICES ASSUME NEW x \in S PROVE Taken(t, u, x, sh[x])
      OBVIOUS
    <3>1. x \in NodeId /\ u.node[x] = t.node[x] /\ sh[x] = 0
      BY <1>3, NullFacts DEF LiveNodes
    <3> QED BY <3>1, <1>1, TakenOver
  <2>2. \A x \in S : t.node[x].type \in Bracket => sh[t.node[x].jmp] = sh[x]
    <3> SUFFICES ASSUME NEW x \in S PROVE sh[t.node[x].jmp] = sh[x]
      OBVIOUS
    <3>1. x \in Link /\ t.node[x].jmp \in Link
      BY <1>1, TreeParts, NullFacts DEF LiveNodes, Node
    <3> QED BY <3>1
  <2> QED BY <1>4, <2>1, <2>2 DEF TakesOver
<1>7. Leads(t, m, rest, c + c2)
  <2>1. Leads(t, m, gone, c) /\ Leads(t, gone, rest, c2)
    BY <1>1, <1>2, <1>4, <1>5, LeadsBehind
  <2> QED BY <1>1, <2>1, LeadsOn
<1>8. Leads(u, m, rest, c + c2)
  <2>1. PICK q : Places(u, q)
    BY SoundPlaces
  <2>2. Live(u, m) /\ u.next[m] = rest
    BY <1>1, <1>3, NullFacts, Kinds DEF Live
  <2> QED BY <1>3, <2>1, <2>2, LeadsBehind
<1>9. ASSUME NEW x \in Link, x \in S \cup {Null} PROVE GoAlike(t, u, r, S, sh, x, 0)
  <2>1. x # m /\ x # gone /\ (x = Null \/ Live(t, x))
    BY <1>1, <1>9, NullFacts DEF LiveNodes
  <2>2. CASE x # a
    <3>1. t.next[x] \in S \cup {Null}
      BY <1>1, <2>1, <2>2, InFront
    <3>2. u.next[x] = t.next[x] /\ sh[t.next[x]] = 0
      BY <1>1, <1>3, <2>1, TreeParts
    <3> QED BY <1>1, <1>2, <2>1, <3>1, <3>2, GoSame
  <2>3. CASE x = a
    <3>1. t.next[x] = m /\ u.next[x] = m
      BY <1>1, <1>3, <2>1, <2>3
    <3>2. c + c2 \in Int /\ sh[rest] = 0 + (c + c2) - (c + c2)
      <4>1. rest \in Link /\ c + c2 \in Int
        BY <1>1, NullFacts DEF LiveNodes
      <4> QED BY <4>1
    <3>3. x # Null /\ rest # Null => r[x] < r[rest]
      <4> SUFFICES ASSUME x # Null, rest # Null PROVE r[x] < r[rest]
        OBVIOUS
      <4>1. Live(t, x) /\ m # Null /\ gone # Null
        BY <1>1, <2>1, NullFacts
      <4>2. r[x] < r[m] /\ r[m] < r[gone] /\ r[gone] < r[rest]
            /\ r[x] \in Int /\ r[m] \in Int /\ r[gone] \in Int /\ r[rest] \in Int
        BY <1>1, <1>2, <1>5, <3>1, <4>1, NextPlace
      <4> QED BY <4>2
    <3> HIDE DEF S, sh
    <3> QED BY <1>1, <1>7, <1>8, <3>1, <3>2, <3>3, GoVia
  <2> QED BY <2>2, <2>3
<1>10. Matched(t, u, S, sh) /\ S \subseteq LiveNodes(u)
  BY <1>6, TakesOverMatched
<1>11. Alike(t, u, r, S, sh)
  <2>1. S \subseteq NodeId /\ S \subseteq Link /\ \A x \in Link : sh[x] = 0
    BY NullFacts DEF LiveNodes
  <2>2. GoAlike(t, u, r, S, sh, Null, 0) /\ \A x \in S : GoAlike(t, u, r, S, sh, x, 0)
    BY <1>9, <2>1, NullFacts
  <2>3. \A x \in S : GoAlike(t, u, r, S, sh, x, sh[x])
    BY <2>1, <2>2
  <2>4. sh \in [Link -> Int]
    OBVIOUS
  <2> HIDE DEF S, sh
  <2> QED BY <1>10, <2>1, <2>2, <2>3, <2>4 DEF Alike
<1>12. DoesAs(t, u)
  <2>1. \A x \in LiveNodes(t) : t.node[x].type = "ADD" => x \in S
    BY <1>4
  <2>2. sh[Null] = 0
    BY NullFacts
  <2> HIDE DEF S, sh
  <2> QED BY <1>1, <1>2, <1>10, <1>11, <2>1, <2>2, AlikeDoes
<1>13. Factors(u)
  <2>1. \A x \in LiveNodes(u) : x \notin S => u.node[x].type = "MOV"
    BY <1>3, FreeNodeType DEF LiveNodes, Live
  <2> HIDE DEF S, sh
  <2> QED BY <1>6, <2>1, FactorsKept
<1> QED BY <1>12, <1>13

\* The last addition of a program, which nothing reads.
LEMMA DropsAddition ==
  ASSUME NEW t, Sound(t), NEW u \in Tree, Shape(u),
         NEW m \in NodeId, t.node[m].type = "ADD", t.next[m] = Null, Drops(t, m, u)
  PROVE  EndsAs(t, u) /\ Factors(u)
<1> DEFINE a == t.prev[m]
           S == LiveNodes(t) \ {m}
           sh == [x \in Link |-> 0]
<1>1. /\ t \in Tree /\ Shape(t) /\ Live(t, m)
      /\ a \in Link /\ a # m /\ (a = Null \/ Live(t, a)) /\ t.next[a] = m
  <2>1. t \in Tree /\ Shape(t) /\ Live(t, m)
    BY DEF Sound, Live
  <2> QED BY <2>1, Neighbours
<1>2. PICK r : Places(t, r)
  BY <1>1, SoundPlaces
<1>3. /\ \A x \in Link : x # m => u.next[x] = IF x = a THEN Null ELSE t.next[x]
      /\ \A x \in NodeId : x # m => u.node[x] = t.node[x]
      /\ u.node[m] = FreeNode
  BY DEF Drops
<1> HIDE DEF a
<1>4. TakesOver(t, u, S, sh)
  <2>1. \A x \in S : Taken(t, u, x, sh[x])
    <3> SUFFICES ASSUME NEW x \in S PROVE Taken(t, u, x, sh[x])
      OBVIOUS
    <3>1. x \in NodeId /\ u.node[x] = t.node[x] /\ sh[x] = 0
      BY <1>3, NullFacts DEF LiveNodes
    <3> QED BY <3>1, <1>1, TakenOver
  <2>2. \A x \in S : t.node[x].type \in Bracket => sh[t.node[x].jmp] = sh[x]
    <3> SUFFICES ASSUME NEW x \in S PROVE sh[t.node[x].jmp] = sh[x]
      OBVIOUS
    <3>1. x \in Link /\ t.node[x].jmp \in Link
      BY <1>1, TreeParts, NullFacts DEF LiveNodes, Node
    <3> QED BY <3>1
  <2> QED BY <2>1, <2>2 DEF TakesOver
<1>5. LastAdd(t, S, m)
  BY <1>1 DEF LastAdd
<1>6. ASSUME NEW x \in Link, x \in S \cup {Null} PROVE GoAlike(t, u, r, S, sh, x, 0)
  <2>1. x # m /\ (x = Null \/ Live(t, x))
    BY <1>1, <1>6, NullFacts DEF LiveNodes
  <2>2. CASE x # a
    <3>1. t.next[x] \in S \cup {Null}
      BY <1>1, <2>1, <2>2, InFront DEF a
    <3>2. u.next[x] = t.next[x] /\ sh[t.next[x]] = 0
      BY <1>1, <1>3, <2>1, <2>2, TreeParts
    <3>3. sh \in [Link -> Int]
      OBVIOUS
    <3> HIDE DEF S, sh
    <3> QED BY <1>1, <1>2, <2>1, <3>1, <3>2, <3>3, GoSame
  <2>3. CASE x = a
    <3>1. t.next[x] = m /\ u.next[x] = Null
      BY <1>1, <1>3, <2>1, <2>3
    <3>2. Leads(t, m, m, 0) /\ Leads(u, Null, Null, 0) /\ 0 \in Int
      BY LeadsNowhere
    <3> HIDE DEF S, sh
    <3> QED BY <1>5, <3>1, <3>2 DEF GoAlike
  <2> QED BY <2>2, <2>3
<1>7. Matched(t, u, S, sh) /\ S \subseteq LiveNodes(u)
  BY <1>4, TakesOverMatched
<1>8. Alike(t, u, r, S, sh)
  <2>1. S \subseteq NodeId /\ S \subseteq Link /\ \A x \in Link : sh[x] = 0
    BY NullFacts DEF LiveNodes
  <2>2. GoAlike(t, u, r, S, sh, Null, 0) /\ \A x \in S : GoAlike(t, u, r, S, sh, x, 0)
    BY <1>6, <2>1, NullFacts
  <2>3. \A x \in S : GoAlike(t, u, r, S, sh, x, sh[x])
    BY <2>1, <2>2
  <2>4. sh \in [Link -> Int]
    OBVIOUS
  <2> HIDE DEF S, sh
  <2> QED BY <1>7, <2>1, <2>2, <2>3, <2>4 DEF Alike
<1>9. Factors(u)
  <2>1. \A x \in LiveNodes(u) : x \notin S => u.node[x].type = "MOV"
    BY <1>3, FreeNodeType DEF LiveNodes, Live
  <2> HIDE DEF S, sh
  <2> QED BY <1>4, <2>1, FactorsKept
<1> HIDE DEF S, sh
<1> QED BY <1>1, <1>2, <1>7, <1>8, <1>9, AlikeEnds

\* A movement by nothing, or one at the end of the program.
LEMMA DropsMovement ==
  ASSUME NEW t, Sound(t), NEW u \in Tree, Shape(u),
         NEW m \in NodeId, t.node[m].type = "MOV",
         t.node[m].count = 0 \/ t.next[m] = Null, Drops(t, m, u)
  PROVE  /\ t.node[m].count = 0 => DoesAs(t, u)
         /\ EndsAs(t, u) /\ Factors(u)
<1> DEFINE a == t.prev[m]
           b == t.next[m]
           c == t.node[m].count
           S == LiveNodes(t) \ {m}
           sh == [x \in Link |-> IF x = Null THEN 0 - c ELSE 0]
<1>1. /\ t \in Tree /\ Shape(t) /\ Live(t, m) /\ c \in Int
      /\ a \in Link /\ a # m /\ (a = Null \/ Live(t, a)) /\ t.next[a] = m
      /\ b \in S \cup {Null}
  <2>1. t \in Tree /\ Shape(t) /\ Live(t, m)
    BY Kinds DEF Sound, Live
  <2>2. a \in Link /\ a # m /\ (a = Null \/ Live(t, a)) /\ t.next[a] = m
    BY <2>1, Neighbours
  <2>3. b \in S \cup {Null}
    BY <2>1, Neighbours DEF LiveNodes
  <2>4. c \in Int
    BY <2>1, TreeParts DEF Node
  <2> QED BY <2>1, <2>2, <2>3, <2>4
<1>2. PICK r : Places(t, r)
  BY <1>1, SoundPlaces
<1>3. /\ \A x \in Link : x # m => u.next[x] = IF x = a THEN b ELSE t.next[x]
      /\ \A x \in NodeId : x # m => u.node[x] = t.node[x]
      /\ u.node[m] = FreeNode
  BY DEF Drops
<1>4. c = 0 \/ b = Null
  OBVIOUS
<1>5. Leads(t, m, b, c)
  BY <1>1, <1>2, LeadsBehind
<1> HIDE DEF b, c
<1>6. sh \in [Link -> Int] /\ sh[Null] = 0 - c /\ \A x \in NodeId : sh[x] = 0
  BY <1>1, NullFacts
<1>7. TakesOver(t, u, S, sh)
  <2>1. \A x \in S : Taken(t, u, x, sh[x])
    <3> SUFFICES ASSUME NEW x \in S PROVE Taken(t, u, x, sh[x])
      OBVIOUS
    <3>1. x \in NodeId /\ u.node[x] = t.node[x] /\ sh[x] = 0
      BY <1>3, <1>6 DEF LiveNodes
    <3> QED BY <3>1, <1>1, TakenOver
  <2>2. \A x \in S : t.node[x].type \in Bracket => sh[t.node[x].jmp] = sh[x]
    <3> SUFFICES ASSUME NEW x \in S, t.node[x].type \in Bracket
                 PROVE  sh[t.node[x].jmp] = sh[x]
      OBVIOUS
    <3>1. x \in NodeId /\ t.node[x].jmp \in NodeId
      BY DEF LiveNodes, Sound, Content, BracketsPaired
    <3> QED BY <3>1, <1>6
  <2> QED BY <1>6, <2>1, <2>2 DEF TakesOver
<1> HIDE DEF sh
<1>8. ASSUME NEW x \in Link, x \in S \cup {Null} PROVE GoAlike(t, u, r, S, sh, x, 0)
  <2>1. x # m /\ (x = Null \/ Live(t, x))
    BY <1>1, <1>8, NullFacts DEF LiveNodes
  <2>2. CASE x # a
    <3>1. t.next[x] \in S \cup {Null}
      BY <1>1, <2>1, <2>2, InFront DEF a
    <3>2. u.next[x] = t.next[x]
      BY <1>3, <2>1, <2>2
    <3>3. sh[t.next[x]] = 0
      <4>1. CASE t.next[x] # Null
        BY <1>6, <3>1, <4>1 DEF LiveNodes
      <4>2. CASE t.next[x] = Null
        <5>1. b # Null
          BY <1>1, <1>2, <2>1, <4>2, OneIsLast DEF b
        <5>2. c = 0
          BY <1>4, <5>1
        <5> QED BY <1>6, <4>2, <5>2
      <4> QED BY <4>1, <4>2
    <3> QED BY <1>1, <1>2, <1>6, <2>1, <3>1, <3>2, <3>3, GoSame
  <2>3. CASE x = a
    <3>1. t.next[x] = m /\ u.next[x] = b
      BY <1>1, <1>3, <2>1, <2>3
    <3>2. Leads(u, b, b, 0) /\ 0 \in Int
      BY LeadsNowhere
    <3>3. sh[b] = 0 + 0 - c
      <4>1. b \in NodeId \/ b = Null
        BY <1>1 DEF LiveNodes
      <4> QED BY <1>1, <1>4, <1>6, <4>1
    <3>4. x # Null /\ b # Null => r[x] < r[b]
      <4> SUFFICES ASSUME x # Null, b # Null PROVE r[x] < r[b]
        OBVIOUS
      <4>1. Live(t, x) /\ m # Null
        BY <1>1, <2>1, NullFacts
      <4>2. r[x] < r[m] /\ r[m] < r[b] /\ r[x] \in Int /\ r[m] \in Int /\ r[b] \in Int
        BY <1>1, <1>2, <3>1, <4>1, NextPlace DEF b
      <4> QED BY <4>2
    <3> HIDE DEF S
    <3> QED BY <1>1, <1>5, <3>1, <3>2, <3>3, <3>4, GoVia
  <2> QED BY <2>2, <2>3
<1>9. Matched(t, u, S, sh) /\ S \subseteq LiveNodes(u)
  BY <1>7, TakesOverMatched
<1>10. Alike(t, u, r, S, sh)
  <2>1. S \subseteq NodeId /\ S \subseteq Link
    BY NullFacts DEF LiveNodes
  <2>2. GoAlike(t, u, r, S, sh, Null, 0) /\ \A x \in S : GoAlike(t, u, r, S, sh, x, 0)
    BY <1>8, <2>1, NullFacts
  <2>3. \A x \in S : GoAlike(t, u, r, S, sh, x, sh[x])
    BY <1>6, <2>1, <2>2
  <2> HIDE DEF S
  <2> QED BY <1>6, <1>9, <2>1, <2>2, <2>3 DEF Alike
<1>11. Factors(u)
  <2>1. \A x \in LiveNodes(u) : x \notin S => u.node[x].type = "MOV"
    BY <1>3, FreeNodeType DEF LiveNodes, Live
  <2> HIDE DEF S
  <2> QED BY <1>7, <2>1, FactorsKept
<1>12. EndsAs(t, u)
  <2> HIDE DEF S
  <2> QED BY <1>1, <1>2, <1>9, <1>10, AlikeEnds
<1>13. ASSUME c = 0 PROVE DoesAs(t, u)
  <2>1. \A x \in LiveNodes(t) : t.node[x].type = "ADD" => x \in S
    OBVIOUS
  <2>2. sh[Null] = 0
    BY <1>6, <1>13
  <2> HIDE DEF S
  <2> QED BY <1>1, <1>2, <1>9, <1>10, <2>1, <2>2, AlikeDoes
<1> QED BY <1>11, <1>12, <1>13 DEF c

\* A movement and the command behind it change places.
LEMMA SwapsDoes ==
  ASSUME NEW t, Sound(t), NEW u \in Tree, Shape(u),
         NEW m \in NodeId, t.node[m].type = "MOV", t.next[m] # Null,
         t.node[t.next[m]].type \notin Bracket \cup {"MOV"}, NEW nd,
         Same(t.node[t.next[m]], nd, 0 - t.node[m].count), Swaps(t, m, nd, u)
  PROVE  DoesAs(t, u) /\ Factors(u)
<1> DEFINE n2 == t.next[m]
           n4 == t.next[n2]
           a == t.prev[m]
           c == t.node[m].count
           S == LiveNodes(t) \ {m}
           sh == [x \in Link |-> IF x = n2 THEN 0 - c ELSE 0]
<1>1. /\ t \in Tree /\ Shape(t) /\ Live(t, m) /\ Live(t, n2) /\ n2 \in NodeId
      /\ n2 # m /\ t.prev[n2] = m /\ a \in Link /\ a # n2 /\ a # m
      /\ a = Null \/ Live(t, a)
      /\ c \in Int /\ t.next[a] = m
      /\ n4 \in S \cup {Null} /\ n4 # n2
  <2>1. t \in Tree /\ Shape(t) /\ Live(t, m)
    BY Kinds DEF Sound, Live
  <2>2. /\ Live(t, n2) /\ n2 \in NodeId /\ n2 # m /\ t.prev[n2] = m
        /\ a \in Link /\ a # n2 /\ a # m /\ (a = Null \/ Live(t, a)) /\ t.next[a] = m
    BY <2>1, Neighbours
  <2>3. n4 \in LiveNodes(t) \cup {Null} /\ n4 # n2 /\ n4 # m
    BY <2>1, <2>2, Neighbours, NullFacts, TreeParts DEF LiveNodes
  <2>4. c \in Int
    BY <2>1, TreeParts DEF Node
  <2> QED BY <2>1, <2>2, <2>3, <2>4
<1>2. PICK r : Places(t, r)
  BY <1>1, SoundPlaces
<1>3. /\ \A x \in Link : u.next[x] = IF x = m THEN n4 ELSE IF x = n2 THEN m
                                     ELSE IF x = a THEN n2 ELSE t.next[x]
      /\ \A x \in NodeId : u.node[x] = IF x = n2 THEN nd ELSE t.node[x]
  BY DEF Swaps
<1>4. /\ Same(t.node[n2], nd, 0 - c) /\ t.node[n2].type \notin Bracket \cup {"MOV"}
      /\ t.node[m].type = "MOV" /\ c = t.node[m].count
      /\ n2 = t.next[m] /\ n4 = t.next[n2]
  OBVIOUS
<1> HIDE DEF n2, n4, a, c
<1>5. sh \in [Link -> Int] /\ \A x \in Link : sh[x] = IF x = n2 THEN 0 - c ELSE 0
  BY <1>1
<1> HIDE DEF sh
<1>6. TakesOver(t, u, S, sh)
  <2>1. \A x \in S : Taken(t, u, x, sh[x])
    <3> SUFFICES ASSUME NEW x \in S PROVE Taken(t, u, x, sh[x])
      OBVIOUS
    <3>1. x \in NodeId /\ x \in Link
      BY NullFacts DEF LiveNodes
    <3>2. CASE x = n2
      BY <1>3, <1>4, <1>5, <3>1, <3>2 DEF Taken
    <3>3. CASE x # n2
      <4>1. u.node[x] = t.node[x] /\ sh[x] = 0
        BY <1>3, <1>5, <3>1, <3>3
      <4> QED BY <3>1, <4>1, <1>1, TakenOver
    <3> QED BY <3>2, <3>3
  <2>2. \A x \in S : t.node[x].type \in Bracket => sh[t.node[x].jmp] = sh[x]
    <3> SUFFICES ASSUME NEW x \in S, t.node[x].type \in Bracket
                 PROVE  sh[t.node[x].jmp] = sh[x]
      OBVIOUS
    <3>1. x \in NodeId /\ t.node[x].jmp \in NodeId /\ t.node[t.node[x].jmp].type \in Bracket
      BY Kinds DEF LiveNodes, Sound, Content, BracketsPaired, Bracket
    <3>2. x # n2 /\ t.node[x].jmp # n2
      BY <1>4, <3>1
    <3> QED BY <3>1, <3>2, <1>5, NullFacts
  <2> QED BY <1>4, <1>5, <2>1, <2>2 DEF TakesOver
<1>7. Leads(t, m, n2, c)
  BY <1>1, <1>2, <1>4, LeadsBehind
<1>8. Leads(u, m, n4, c)
  <2>1. PICK q : Places(u, q)
    BY SoundPlaces
  <2>2. Live(u, m) /\ u.next[m] = n4 /\ u.node[m] = t.node[m]
    BY <1>1, <1>3, <1>4, NullFacts, Kinds DEF Live
  <2> QED BY <1>4, <2>1, <2>2, LeadsBehind
<1>9. ASSUME NEW x \in Link, x \in S \cup {Null} PROVE GoAlike(t, u, r, S, sh, x, IF x = Null THEN 0 ELSE sh[x])
  <2>1. x # m /\ (x = Null \/ Live(t, x))
    BY <1>1, <1>9, NullFacts DEF LiveNodes
  <2>2. n2 \in S /\ n2 # Null /\ n2 \in Link /\ n4 \in Link /\ m # Null
    BY <1>1, NullFacts DEF LiveNodes
  <2>3. CASE x # a /\ x # n2
    <3>1. t.next[x] \in S \cup {Null}
      BY <1>1, <2>1, <2>3, InFront DEF a
    <3>2. t.next[x] # n2
      <4>1. t.prev[n2] = m
        BY <1>1
      <4> QED BY <1>1, <2>1, <4>1, InFront
    <3>3. u.next[x] = t.next[x] /\ sh[t.next[x]] = 0 /\ (x # Null => sh[x] = 0)
      BY <1>1, <1>3, <1>5, <2>1, <2>3, <3>2, TreeParts
    <3> HIDE DEF S
    <3> QED BY <1>1, <1>2, <1>5, <2>1, <3>1, <3>3, GoSame
  <2>4. CASE x = a
    <3>1. t.next[x] = m /\ u.next[x] = n2 /\ (x # Null => sh[x] = 0)
      BY <1>1, <1>3, <1>5, <2>1, <2>4
    <3>2. sh[n2] = 0 + 0 - c /\ 0 \in Int
      BY <1>1, <1>5, <2>2
    <3>3. Leads(u, n2, n2, 0)
      BY LeadsNowhere
    <3>4. x # Null /\ n2 # Null => r[x] < r[n2]
      <4> SUFFICES ASSUME x # Null PROVE r[x] < r[n2]
        OBVIOUS
      <4>1. r[x] < r[m] /\ r[m] < r[n2]
            /\ r[x] \in Int /\ r[m] \in Int /\ r[n2] \in Int
        BY <1>1, <1>2, <1>4, <2>1, <2>2, <3>1, NextPlace
      <4> QED BY <4>1
    <3> HIDE DEF S
    <3> QED BY <1>1, <1>7, <2>2, <3>1, <3>2, <3>3, <3>4, GoVia
  <2>5. CASE x = n2
    <3>1. t.next[x] = n4 /\ u.next[x] = m /\ sh[x] = 0 - c /\ x # Null
      BY <1>1, <1>3, <1>4, <1>5, <2>2, <2>5
    <3>2. sh[n4] = 0 - c + c - 0 /\ 0 \in Int
      BY <1>1, <1>5, <2>2
    <3>3. Leads(t, n4, n4, 0)
      BY LeadsNowhere
    <3>4. x # Null /\ n4 # Null => r[x] < r[n4]
      BY <1>1, <1>2, <1>4, <2>5, NextPlace
    <3>5. sh[n4] = sh[x] + c - 0
      BY <3>1, <3>2
    <3> HIDE DEF S
    <3>6. GoAlike(t, u, r, S, sh, x, sh[x])
      BY <1>1, <1>8, <3>1, <3>2, <3>3, <3>4, <3>5, GoVia
    <3> QED BY <3>1, <3>6
  <2> QED BY <2>3, <2>4, <2>5
<1>10. Matched(t, u, S, sh) /\ S \subseteq LiveNodes(u)
  BY <1>6, TakesOverMatched
<1>11. Alike(t, u, r, S, sh)
  <2>1. S \subseteq NodeId /\ S \subseteq Link
    BY NullFacts DEF LiveNodes
  <2>2. GoAlike(t, u, r, S, sh, Null, 0) /\ \A x \in S : GoAlike(t, u, r, S, sh, x, sh[x])
    BY <1>9, <2>1, NullFacts
  <2> HIDE DEF S
  <2> QED BY <1>5, <1>10, <2>1, <2>2 DEF Alike
<1>12. DoesAs(t, u)
  <2>1. \A x \in LiveNodes(t) : t.node[x].type = "ADD" => x \in S
    BY <1>4
  <2>2. sh[Null] = 0
    BY <1>1, <1>5, NullFacts
  <2> HIDE DEF S
  <2> QED BY <1>1, <1>2, <1>10, <1>11, <2>1, <2>2, AlikeDoes
<1>13. Factors(u)
  <2>1. \A x \in LiveNodes(u) : x \notin S => u.node[x].type = "MOV"
    BY <1>1, <1>3, <1>4 DEF LiveNodes, Live
  <2> HIDE DEF S
  <2> QED BY <1>6, <2>1, FactorsKept
<1> QED BY <1>12, <1>13

\* u is t with a new node behind p.
Adds(t, p, nd, u) ==
  LET id == t.num + 1
  IN  /\ id \in NodeId
      /\ \A x \in Link : u.next[x] = IF x = p THEN id ELSE IF x = id THEN t.next[p]
                                     ELSE t.next[x]
      /\ \A x \in NodeId : u.node[x] = IF x = id THEN nd ELSE t.node[x]
      /\ u.num = id

\* add_node_after puts in one node and leaves the others as they were.
LEMMA AddNodeAfterAdds ==
  ASSUME NEW t \in Tree, HasRoomFor(t, 1), NEW p \in NodeId, p # t.num + 1, NEW nd
  PROVE  Adds(t, p, nd, AddNodeAfter(t, p, nd))
<1> DEFINE id == t.num + 1
<1>1. t.next \in [Link -> Link] /\ t.node \in [NodeId -> Node] /\ t.num \in 0 .. MaxNode
  BY TreeParts
<1>2. id \in NodeId /\ p # Null /\ id # p
  BY <1>1, MaxNodeAssumption, NullFacts DEF HasRoomFor, NodeId
<1>3. id = t.num + 1
  OBVIOUS
<1>4. AddNodeAfter(t, p, nd).next = [t.next EXCEPT ![id] = t.next[p], ![p] = id]
  BY <1>2 DEF AddNodeAfter
<1>5. AddNodeAfter(t, p, nd).node = [t.node EXCEPT ![id] = nd] /\ AddNodeAfter(t, p, nd).num = id
  BY DEF AddNodeAfter
<1> HIDE DEF id
<1>6. \A x \in Link : AddNodeAfter(t, p, nd).next[x] =
        IF x = p THEN id ELSE IF x = id THEN t.next[p] ELSE t.next[x]
  BY <1>1, <1>2, <1>4, NullFacts
<1>7. \A x \in NodeId : AddNodeAfter(t, p, nd).node[x] = IF x = id THEN nd ELSE t.node[x]
  BY <1>1, <1>5
<1> QED BY <1>2, <1>3, <1>5, <1>6, <1>7 DEF Adds

\* u is t with the body of the loop from w to e between two movements, by c
\* and back, and the cell w tests shifted.
Braces(t, w, e, c, u) ==
  LET id1 == t.num + 1
      id2 == t.num + 2
  IN  /\ id1 \in NodeId /\ id2 \in NodeId /\ ~Live(t, id1) /\ ~Live(t, id2)
      /\ u.node[id1].type = "MOV" /\ u.node[id1].count = c
      /\ u.node[id2].type = "MOV" /\ u.node[id2].count = 0 - c
      /\ \A x \in NodeId : x # id1 /\ x # id2 => u.node[x] = ShiftedAt(t.node, w, c)[x]
      /\ u.next[w] = id1 /\ u.next[id2] = e
      /\ u.next[id1] = IF t.next[w] = e THEN id2 ELSE t.next[w]
      /\ \A x \in Link : (x = Null \/ Live(t, x)) /\ x # w =>
           u.next[x] = IF t.next[x] = e THEN id2 ELSE t.next[x]
      /\ u.num = id2

\* The body of an unbalanced loop is put between a movement and its opposite.
LEMMA BalancedBraces ==
  ASSUME NEW t \in Tree, Shape(t), BracketsPaired(t), Unallocated(t),
         HasRoomFor(t, 2),
         NEW w \in NodeId, t.node[w].type \in Openers, NEW c \in Int,
         NEW e, Ends(t, w, e)
  PROVE  Braces(t, w, e, c, Balanced(t, w, c))
<1> DEFINE h == ShiftedAt(t.node, w, c)
           shifted == Edit(t, t.next, t.prev, h)
           nd1 == At("MOV", c, 0)
           nd2 == At("MOV", -c, 0)
           opened == AddNodeAfter(shifted, w, nd1)
           p == opened.prev[e]
           u == Balanced(t, w, c)
           id1 == t.num + 1
           id2 == t.num + 2
<1>1. /\ t.next \in [Link -> Link] /\ t.prev \in [NodeId -> Link]
      /\ t.node \in [NodeId -> Node] /\ t.num \in 0 .. MaxNode
  BY TreeParts
<1>2. /\ h \in [NodeId -> Node] /\ \A x \in NodeId : x # w => h[x] = t.node[x]
      /\ h[w].type = t.node[w].type /\ h[w].jmp = t.node[w].jmp
  BY <1>1, ShiftedAtParts
<1>3. u = AddNodeAfter(opened, p, nd2)
  BY DEF Balanced, Ends
<1>4. e \in NodeId /\ t.node[e].type \in Closers /\ e # w
  BY Kinds DEF BracketsPaired, Ends
<1>5. id1 \in NodeId /\ id2 \in NodeId /\ id1 > t.num /\ id2 > t.num /\ id2 = id1 + 1 /\ id1 # id2
  BY <1>1, MaxNodeAssumption DEF HasRoomFor, NodeId
<1>6. nd1.type = "MOV" /\ nd1.count = c /\ nd2.type = "MOV" /\ nd2.count = 0 - c
      /\ nd1 \in Node /\ nd2 \in Node
  <2>1. -c \in Int /\ -c = 0 - c
    OBVIOUS
  <2>2. nd1 \in Node /\ nd1.type = "MOV" /\ nd2 \in Node /\ nd2.type = "MOV"
    BY <2>1, AtType, TokenFacts
  <2>3. nd1.count = c /\ nd2.count = -c
    BY DEF At, Blank
  <2> QED BY <2>1, <2>2, <2>3
<1>7. id1 = t.num + 1 /\ id2 = t.num + 2
  OBVIOUS
<1>8. ~Live(t, id1) /\ ~Live(t, id2)
  BY <1>5, FreeNodeType DEF Unallocated, Live
<1>9. h = ShiftedAt(t.node, w, c)
  OBVIOUS
<1>10. opened = AddNodeAfter(shifted, w, nd1) /\ nd1 = At("MOV", c, 0)
  OBVIOUS
<1> HIDE DEF h, nd1, nd2, u, id1, id2
<1>11. /\ shifted \in Tree /\ shifted.next = t.next /\ shifted.prev = t.prev
       /\ shifted.node = h /\ shifted.num = t.num
  BY <1>1, <1>2, EditParts
<1> HIDE DEF shifted, opened
<1>12. \A x \in NodeId : KindKept(t, shifted, x)
  BY <1>2, <1>11 DEF KindKept
<1>13. Shape(shifted) /\ BracketsPaired(shifted)
  BY <1>11, <1>12, ShapeByKinds
<1>14. Unallocated(shifted)
  BY <1>2, <1>11, UnallocatedIsFree, Kinds DEF Unallocated
<1>15. HasRoomFor(shifted, 1) /\ Live(shifted, w) /\ w # id1
  <2>1. Live(shifted, w) /\ Live(t, w)
    BY <1>12, Kinds DEF Live, KindKept
  <2> QED BY <1>1, <1>8, <1>11, <2>1, MaxNodeAssumption DEF HasRoomFor
<1>16. /\ opened \in Tree /\ Shape(opened) /\ opened.num = id1
       /\ \A x \in NodeId : Live(shifted, x) => opened.node[x] = h[x]
  BY <1>7, <1>10, <1>11, <1>13, <1>14, <1>15, AddNodeAfterSound
<1>17. /\ \A x \in Link : opened.next[x] = IF x = w THEN id1 ELSE IF x = id1 THEN t.next[w]
                                           ELSE t.next[x]
       /\ \A x \in NodeId : opened.node[x] = IF x = id1 THEN nd1 ELSE h[x]
  <2>1. Adds(shifted, w, nd1, opened)
    BY <1>7, <1>10, <1>11, <1>15, AddNodeAfterAdds
  <2> QED BY <1>7, <1>11, <2>1 DEF Adds
<1>18. Live(opened, e) /\ Live(opened, id1) /\ opened.node[e].type \in Closers
  <2>1. e # id1
    BY <1>4, <1>8, Kinds DEF Live
  <2>2. opened.node[e] = t.node[e] /\ opened.node[id1] = nd1
    BY <1>2, <1>4, <1>5, <1>17, <2>1
  <2> QED BY <1>4, <1>5, <1>6, <2>2, Kinds DEF Live
<1>19. p \in NodeId /\ Live(opened, p) /\ opened.next[p] = e
  <2>1. p # Null
    BY <1>4, <1>18, <1>16 DEF Shape, ClosersFollow
  <2> QED BY <1>4, <1>16, <1>18, <2>1, Neighbours
<1>20. \A x \in Link : x = Null \/ Live(opened, x) => (opened.next[x] = e <=> x = p)
  BY <1>4, <1>16, <1>18, InFront
<1> HIDE DEF p
<1>21. p # id2 /\ HasRoomFor(opened, 1)
  <2>1. t.node[id2] = FreeNode /\ id2 # w
    BY <1>5, <1>8, <1>15, <1>11, <1>12 DEF Unallocated, Live, KindKept
  <2>2. opened.node[id2] = FreeNode
    BY <1>2, <1>5, <1>17, <2>1
  <2>3. p # id2
    BY <1>19, <2>2, FreeNodeType DEF Live
  <2>4. opened.num + 1 <= MaxNode
    BY <1>5, <1>16 DEF NodeId
  <2> QED BY <2>3, <2>4 DEF HasRoomFor
<1>22. /\ \A x \in Link : u.next[x] = IF x = p THEN id2 ELSE IF x = id2 THEN e
                                      ELSE opened.next[x]
       /\ \A x \in NodeId : u.node[x] = IF x = id2 THEN nd2 ELSE opened.node[x]
       /\ u.num = id2
  <2>1. opened.num + 1 = id2
    BY <1>5, <1>16
  <2>2. Adds(opened, p, nd2, u)
    BY <1>3, <1>16, <1>19, <1>21, <2>1, AddNodeAfterAdds
  <2> QED BY <1>19, <2>1, <2>2 DEF Adds
<1>23. /\ u.node[id1] = nd1 /\ u.node[id2] = nd2
       /\ \A x \in NodeId : x # id1 /\ x # id2 => u.node[x] = h[x]
  BY <1>5, <1>17, <1>22
<1>24. w # id2 /\ w \in Link /\ id1 \in Link /\ id2 \in Link
  BY <1>5, <1>8, <1>12, <1>15, NullFacts DEF Live, KindKept
<1>25. u.next[w] = id1 /\ u.next[id2] = e
  <2>1. opened.next[w] = id1 /\ id1 # e
    BY <1>4, <1>8, <1>17, <1>24, Kinds DEF Live
  <2>2. w # p
    BY <1>19, <2>1
  <2> QED BY <1>21, <1>22, <1>24, <2>1, <2>2
<1>26. u.next[id1] = IF t.next[w] = e THEN id2 ELSE t.next[w]
  <2>1. opened.next[id1] = t.next[w]
    BY <1>15, <1>17, <1>24
  <2>2. id1 = p <=> t.next[w] = e
    BY <1>18, <1>20, <1>24, <2>1
  <2> QED BY <1>5, <1>22, <1>24, <2>1, <2>2
<1>27. ASSUME NEW x \in Link, x = Null \/ Live(t, x), x # w
       PROVE  u.next[x] = IF t.next[x] = e THEN id2 ELSE t.next[x]
  <2>1. x # id1 /\ x # id2
    BY <1>5, <1>8, <1>27, NullFacts
  <2>2. opened.next[x] = t.next[x]
    BY <1>17, <1>27, <2>1
  <2>3. x = Null \/ Live(opened, x)
    <3> SUFFICES ASSUME x # Null PROVE Live(opened, x)
      OBVIOUS
    <3>1. x \in NodeId /\ Live(shifted, x)
      BY <1>12, <1>27, NullFacts DEF Live, KindKept
    <3>2. opened.node[x] = h[x] /\ h[x].type # "FREE"
      BY <1>11, <1>16, <3>1 DEF Live
    <3> QED BY <3>1, <3>2 DEF Live
  <2>4. x = p <=> t.next[x] = e
    BY <1>20, <2>2, <2>3
  <2> QED BY <1>22, <2>1, <2>2, <2>4
<1> QED BY <1>5, <1>6, <1>7, <1>8, <1>9, <1>22, <1>23, <1>25, <1>26, <1>27 DEF Braces, u

\* u is t with m behind the loop it was in front of, which ends at e, and the
\* cell e tests shifted.
Carries(t, m, e, u) ==
  /\ \A x \in Link : u.next[x] =
       IF x = m THEN t.next[e] ELSE IF x = e THEN m
       ELSE IF x = t.prev[m] THEN t.next[m] ELSE t.next[x]
  /\ u.node = ShiftedAt(t.node, e, t.node[m].count)
  /\ u.num = t.num

\* A movement in front of a loop comes to stand behind it.
LEMMA MovedBehindCarries ==
  ASSUME NEW t \in Tree, Shape(t), BracketsPaired(t),
         NEW m \in NodeId, t.node[m].type = "MOV", t.next[m] # Null,
         t.node[t.next[m]].type \in Openers,
         NEW e \in NodeId, Ends(t, t.next[m], e),
         NEW u, IsMovedBehind(t, m, e, u)
  PROVE  Carries(t, m, e, u)
<1>1. /\ Live(t, m)
      /\ t.next[m] \in NodeId /\ t.next[m] # m /\ t.prev[m] # m
      /\ t.next[m] # t.prev[m] /\ t.prev[t.next[m]] = m
  BY TreeParts, Neighbours, Kinds DEF Live
<1>2. Live(t, e) /\ e # m /\ e # t.prev[m] /\ e # t.next[m]
  BY ClosesBehind DEF Ends
<1>3. t.next[e] # e /\ (t.next[e] # Null => t.prev[t.next[e]] = e)
  BY <1>2, Neighbours
<1>4. t.next[e] # m /\ t.next[e] # t.next[m]
  BY <1>1, <1>2, <1>3, NullFacts
<1> QED BY <1>1, <1>2, <1>3, <1>4, MovedBehindParts DEF IsMovedBehind, Carries

\* What comes of a movement m by c in front of a loop from w to e: at the start
\* of the body movements by c, at its end by -c, and behind the loop by c.
Rounds(t, m, w, e, c, u) ==
  LET a  == t.prev[m]
      b  == t.next[w]
      n3 == t.next[e]
  IN  /\ \A x \in LiveNodes(t) :
           u.node[x] = IF x = w THEN ShiftedAt(t.node, w, c)[w]
                       ELSE IF x = e THEN ShiftedAt(t.node, e, c)[e] ELSE t.node[x]
      /\ \A x \in LiveNodes(u) \ LiveNodes(t) : u.node[x].type = "MOV"
      /\ u.next[a] = w
      /\ Leads(u, u.next[w], b, IF b = e THEN 0 ELSE c)
      /\ Leads(u, u.next[e], n3, c)
      /\ \A x \in Link : (x = Null \/ Live(t, x)) /\ x # m /\ x # w /\ x # a =>
           IF t.next[x] = e THEN Leads(u, u.next[x], e, 0 - c)
           ELSE x # e => u.next[x] = t.next[x]

\* The ids new in u.
NumOnly(t, u) ==
  /\ t.num <= u.num
  /\ \A x \in NodeId : Live(u, x) => Live(t, x) \/ x > t.num

\* What is true of the tree in which a loop has been balanced, if it had to be,
\* and the movement has gone behind it: every way of the old tree is a way of the
\* new one, and what the movements on it add up to differs as said.
LEMMA RoundsLoop ==
  ASSUME NEW t \in Tree, Shape(t), BracketsPaired(t), Unallocated(t),
         NEW m \in NodeId, t.node[m].type = "MOV", t.next[m] # Null,
         t.node[t.next[m]].type \in Openers,
         NEW w, NEW e, NEW c, NEW v, IsOpened(t, m, w, e, c, v),
         c # 0 => HasRoomFor(t, 2),
         NEW u \in Tree, Shape(u), IsMovedBehind(v, m, e, u)
  PROVE  Rounds(t, m, w, e, c, u) /\ NumOnly(t, u)
<1> DEFINE a == t.prev[m]
           b == t.next[w]
           n3 == t.next[e]
           id1 == t.num + 1
           id2 == t.num + 2
<1>1. w = t.next[m] /\ e = t.node[w].jmp /\ c = t.node[m].count
  BY DEF IsOpened
<1>2. /\ w \in NodeId /\ Live(t, w) /\ w # m /\ t.node[w].type \in Openers
      /\ e \in NodeId /\ Live(t, e) /\ t.node[e].type \in Closers
      /\ e # w /\ e # m /\ c \in Int
      /\ v \in Tree /\ Shape(v) /\ BracketsPaired(v)
      /\ \A x \in NodeId : Live(t, x) => KindKept(t, v, x) /\ v.node[x].count = t.node[x].count
      /\ v.next[m] = w
  BY OpenedSound
<1>3. /\ Live(t, m) /\ m # Null /\ w # Null /\ e # Null
      /\ a \in Link /\ a # m /\ (a = Null \/ Live(t, a)) /\ t.next[a] = m
      /\ a # w /\ a # e /\ t.num \in 0 .. MaxNode
  <2>1. Live(t, m)
    BY Kinds DEF Live
  <2>2. a \in Link /\ a # m /\ (a = Null \/ Live(t, a)) /\ t.next[a] = m /\ a # w
    BY <1>1, <2>1, Neighbours
  <2>3. a # e
    BY <1>1, ClosesBehind
  <2> QED BY <1>2, <2>1, <2>2, <2>3, NullFacts, TreeParts
<1>4. b \in Link /\ b # m /\ b # w /\ n3 \in Link /\ n3 # w /\ n3 # m /\ n3 # e
  <2>1. b # w /\ t.next[w] # m /\ n3 # e
    BY <1>1, <1>2, <1>3, Neighbours
  <2>2. n3 # w
    BY <1>1, <1>2, <1>3, InFront, Neighbours
  <2>3. n3 # m
    <3>1. e \in Link /\ m \in NodeId
      BY <1>2, NullFacts
    <3> QED BY <1>2, <1>3, <3>1, InFront
  <2>4. b \in Link /\ n3 \in Link
    BY <1>2, TreeParts, NullFacts
  <2> QED BY <2>1, <2>2, <2>3, <2>4
<1>5. /\ KindKept(t, v, m) /\ KindKept(t, v, w) /\ v.node[m].count = c
      /\ v.node[m].type = "MOV" /\ v.node[w].type \in Openers /\ v.node[w].jmp = e
      /\ Live(v, m)
  BY <1>1, <1>2, <1>3 DEF KindKept, Live
<1>6. Carries(v, m, e, u)
  <2>1. v.next[m] # Null /\ v.node[v.next[m]].type \in Openers /\ Ends(v, v.next[m], e)
    BY <1>2, <1>3, <1>5 DEF Ends
  <2> QED BY <1>2, <1>5, <2>1, MovedBehindCarries
<1>7. c # 0 => Braces(t, w, e, c, v)
  <2> SUFFICES ASSUME c # 0 PROVE Braces(t, w, e, c, v)
    OBVIOUS
  <2>1. v = Balanced(t, w, c) /\ Ends(t, w, e)
    BY <1>1 DEF IsOpened, Ends
  <2> QED BY <1>2, <2>1, BalancedBraces
<1>8. c = 0 => v = t
  BY DEF IsOpened
<1> HIDE DEF a, b, n3, id1, id2
<1>9. v.next[a] = m /\ v.prev[m] = a
  <2>1. v.next[a] = m
    <3>1. CASE c = 0
      BY <1>3, <1>8, <3>1
    <3>2. CASE c # 0
      BY <1>2, <1>3, <1>7, <3>2 DEF Braces
    <3> QED BY <3>1, <3>2
  <2>2. a = Null \/ Live(v, a)
    BY <1>2, <1>3, NullFacts DEF KindKept, Live
  <2> QED BY <1>2, <1>3, <1>5, <2>1, <2>2, InFront
<1>10. /\ \A x \in Link : u.next[x] = IF x = m THEN v.next[e] ELSE IF x = e THEN m
                                      ELSE IF x = a THEN w ELSE v.next[x]
       /\ u.node = ShiftedAt(v.node, e, c) /\ u.num = v.num
  BY <1>2, <1>5, <1>6, <1>9 DEF Carries
<1>19. t.node \in [NodeId -> Node] /\ v.node \in [NodeId -> Node]
  BY <1>2, TreeParts
<1>11. \A x \in NodeId : x # e => u.node[x] = v.node[x]
  <2>1. \A x \in NodeId : x # e => ShiftedAt(v.node, e, c)[x] = v.node[x]
    BY <1>2, <1>19, ShiftedAtParts
  <2> QED BY <1>10, <2>1
<1>20. \A x \in NodeId : x # w => ShiftedAt(t.node, w, c)[x] = t.node[x]
  BY <1>2, <1>19, ShiftedAtParts
<1>12. PICK q : Places(u, q)
  BY SoundPlaces
<1>13. v.next[e] = n3
  <2>1. CASE c = 0
    BY <1>8, <2>1 DEF n3
  <2>2. CASE c # 0
    BY <1>2, <1>4, <1>7, <2>2, NullFacts DEF Braces, n3
  <2> QED BY <2>1, <2>2
<1>14. Leads(u, u.next[e], n3, c)
  <2>1. u.next[e] = m /\ u.next[m] = n3
    BY <1>2, <1>3, <1>10, <1>13, NullFacts
  <2>2. u.node[m].type = "MOV" /\ u.node[m].count = c /\ Live(u, m)
    BY <1>2, <1>5, <1>11, Kinds DEF Live
  <2> QED BY <1>12, <2>1, <2>2, LeadsBehind
<1>15. u.next[a] = w
  BY <1>3, <1>10
<1>16. \A x \in LiveNodes(t) :
         u.node[x] = IF x = w THEN ShiftedAt(t.node, w, c)[w]
                     ELSE IF x = e THEN ShiftedAt(t.node, e, c)[e] ELSE t.node[x]
  <2> SUFFICES ASSUME NEW x \in NodeId, Live(t, x)
               PROVE  u.node[x] = IF x = w THEN ShiftedAt(t.node, w, c)[w]
                                  ELSE IF x = e THEN ShiftedAt(t.node, e, c)[e] ELSE t.node[x]
    BY DEF LiveNodes
  <2>1. v.node[x] = IF x = w THEN ShiftedAt(t.node, w, c)[w] ELSE t.node[x]
    <3>1. CASE c = 0
      <4>1. ShiftedAt(t.node, w, c)[w] = t.node[w]
        <5>1. t.node \in [NodeId -> Node] /\ t.node[w] \in Node /\ t.node[w].offset \in Int
          BY <1>2, TreeParts DEF Node
        <5>2. ShiftedAt(t.node, w, c)[w] = [t.node[w] EXCEPT !.offset = @ + c]
          BY <1>2, <5>1 DEF ShiftedAt
        <5>3. t.node[w].offset + c = t.node[w].offset
          BY <3>1, <5>1
        <5> QED BY <5>1, <5>2, <5>3 DEF Node
      <4> QED BY <1>8, <3>1, <4>1
    <3>2. CASE c # 0
      <4>1. v.node[x] = ShiftedAt(t.node, w, c)[x]
        BY <1>7, <3>2 DEF Braces
      <4> QED BY <1>20, <4>1
    <3> QED BY <3>1, <3>2
  <2>2. CASE x # e
    BY <1>11, <2>1, <2>2
  <2>3. CASE x = e
    <3>1. u.node[e] = ShiftedAt(v.node, e, c)[e] /\ v.node[e] = t.node[e]
      BY <1>2, <1>10, <2>1, <2>3
    <3>2. ShiftedAt(v.node, e, c)[e] = ShiftedAt(t.node, e, c)[e]
      BY <1>2, <1>19, <3>1 DEF ShiftedAt
    <3> QED BY <1>2, <2>3, <3>1, <3>2
  <2> QED BY <2>2, <2>3
<1>17. CASE c = 0
  <2>1. \A x \in Link : x # m /\ x # e /\ x # a => u.next[x] = t.next[x]
    BY <1>8, <1>10, <1>17
  <2>2. \A x : Leads(u, x, x, 0)
    BY LeadsNowhere
  <2>3. u.next[w] = b /\ w \in Link
    BY <1>2, <1>3, <2>1, NullFacts DEF b
  <2>4. 0 = 0 - c /\ 0 = c
    BY <1>17
  <2>5. \A x \in Link : x # m /\ x # e /\ x # a /\ t.next[x] = e => Leads(u, u.next[x], e, 0 - c)
    BY <2>1, <2>2, <2>4
  <2>6. t.next[e] # e
    BY <1>4 DEF n3
  <2>7. NumOnly(t, u)
    <3>1. \A x \in NodeId : Live(u, x) => Live(t, x)
      <4> SUFFICES ASSUME NEW x \in NodeId, Live(u, x) PROVE Live(t, x)
        OBVIOUS
      <4> QED BY <1>2, <1>8, <1>11, <1>17 DEF Live
    <3> QED BY <1>3, <1>8, <1>10, <1>17, <3>1 DEF NumOnly
  <2>8. LiveNodes(u) \ LiveNodes(t) = {}
    <3>1. \A x \in NodeId : Live(u, x) => Live(t, x)
      <4> SUFFICES ASSUME NEW x \in NodeId, Live(u, x) PROVE Live(t, x)
        OBVIOUS
      <4> QED BY <1>2, <1>8, <1>11, <1>17 DEF Live
    <3> QED BY <3>1 DEF LiveNodes
  <2>9. Leads(u, u.next[w], b, IF b = e THEN 0 ELSE c)
    BY <2>2, <2>3, <2>4
  <2> QED BY <1>14, <1>15, <1>16, <2>1, <2>5, <2>6, <2>7, <2>8, <2>9 DEF Rounds, a, b, n3
<1>18. CASE c # 0
  <2>1. /\ id1 \in NodeId /\ id2 \in NodeId /\ ~Live(t, id1) /\ ~Live(t, id2)
        /\ v.node[id1].type = "MOV" /\ v.node[id1].count = c
        /\ v.node[id2].type = "MOV" /\ v.node[id2].count = 0 - c
        /\ \A x \in NodeId : x # id1 /\ x # id2 => v.node[x] = ShiftedAt(t.node, w, c)[x]
        /\ v.next[w] = id1 /\ v.next[id2] = e
        /\ v.next[id1] = IF b = e THEN id2 ELSE b
        /\ \A x \in Link : (x = Null \/ Live(t, x)) /\ x # w =>
             v.next[x] = IF t.next[x] = e THEN id2 ELSE t.next[x]
        /\ v.num = id2
    BY <1>7, <1>18 DEF Braces, id1, id2, b
  <2>2. /\ id1 # m /\ id1 # e /\ id1 # a /\ id2 # m /\ id2 # e /\ id2 # a
        /\ id1 \in Link /\ id2 \in Link /\ w \in Link /\ id1 # w /\ id2 # w
    BY <1>2, <1>3, <2>1, NullFacts
  <2>3. u.next[w] = id1 /\ u.next[id2] = e /\ u.next[id1] = IF b = e THEN id2 ELSE b
    BY <1>2, <1>3, <1>10, <2>1, <2>2
  <2>4. Leads(u, id1, u.next[id1], c) /\ Leads(u, id2, e, 0 - c)
    <3>1. /\ u.node[id1].type = "MOV" /\ u.node[id1].count = c
          /\ u.node[id2].type = "MOV" /\ u.node[id2].count = 0 - c
          /\ Live(u, id1) /\ Live(u, id2)
      BY <1>11, <2>1, <2>2, Kinds DEF Live
    <3> QED BY <1>12, <2>3, <3>1, LeadsBehind
  <2>5. Leads(u, u.next[w], b, IF b = e THEN 0 ELSE c)
    <3>1. CASE b = e
      <4>1. c \in Int /\ 0 - c \in Int /\ c + (0 - c) = 0
        BY <1>2
      <4>2. Leads(u, id1, id2, c) /\ Leads(u, id2, e, 0 - c)
        BY <2>3, <2>4, <3>1
      <4>3. Leads(u, id1, e, c + (0 - c))
        BY <4>1, <4>2, LeadsOn
      <4> QED BY <2>3, <3>1, <4>1, <4>3
    <3>2. CASE b # e
      BY <2>3, <2>4, <3>2
    <3> QED BY <3>1, <3>2
  <2>6. ASSUME NEW x \in Link, x = Null \/ Live(t, x), x # m, x # w, x # a
        PROVE  IF t.next[x] = e THEN Leads(u, u.next[x], e, 0 - c)
               ELSE x # e => u.next[x] = t.next[x]
    <3>1. CASE x = e
      <4>1. t.next[x] # e
        BY <1>4, <3>1 DEF n3
      <4> QED BY <3>1, <4>1
    <3>2. CASE x # e
      <4>1. u.next[x] = IF t.next[x] = e THEN id2 ELSE t.next[x]
        BY <1>10, <2>1, <2>6, <3>2
      <4> QED BY <2>4, <4>1
    <3> QED BY <3>1, <3>2
  <2>7. ASSUME NEW x \in NodeId, Live(u, x), ~Live(t, x)
        PROVE  u.node[x].type = "MOV" /\ x > t.num
    <3>1. x # e /\ x # w /\ u.node[x] = v.node[x]
      BY <1>2, <1>11, <2>7
    <3>2. x = id1 \/ x = id2
      <4> SUFFICES ASSUME x # id1, x # id2 PROVE FALSE
        OBVIOUS
      <4>1. v.node[x] = t.node[x]
        BY <1>20, <2>1, <3>1
      <4> QED BY <2>7, <3>1, <4>1 DEF Live
    <3>3. id1 > t.num /\ id2 > t.num
      BY <1>3 DEF id1, id2
    <3> QED BY <2>1, <3>1, <3>2, <3>3
  <2>8. NumOnly(t, u)
    <3>1. t.num <= u.num
      BY <1>3, <1>10, <2>1 DEF id2
    <3> QED BY <2>7, <3>1 DEF NumOnly
  <2>9. \A x \in LiveNodes(u) \ LiveNodes(t) : u.node[x].type = "MOV"
    BY <2>7 DEF LiveNodes
  <2> QED BY <1>14, <1>15, <1>16, <2>5, <2>6, <2>8, <2>9 DEF Rounds, a, b, n3
<1> QED BY <1>17, <1>18

\* A bracket whose cell is shifted tests the same cell.
LEMMA ShiftedTaken ==
  ASSUME NEW t \in Tree, NEW x \in NodeId, t.node[x].type \in Bracket, NEW c \in Int, NEW u,
         u.node[x] = ShiftedAt(t.node, x, c)[x]
  PROVE  Taken(t, u, x, 0 - c)
<1>1. t.node \in [NodeId -> Node] /\ t.node[x] \in Node
  BY TreeParts
<1>2. u.node[x] = [t.node[x] EXCEPT !.offset = @ + c]
  BY <1>1 DEF ShiftedAt
<1>3. /\ u.node[x].type = t.node[x].type /\ u.node[x].offset = t.node[x].offset + c
      /\ u.node[x].jmp = t.node[x].jmp /\ u.node[x].count = t.node[x].count
      /\ u.node[x].count2 = t.node[x].count2 /\ u.node[x].count3 = t.node[x].count3
      /\ t.node[x].offset \in Int
  BY <1>1, <1>2 DEF Node
<1>4. u.node[x].offset = t.node[x].offset - (0 - c)
  BY <1>3
<1>5. t.node[x].type \notin Calc /\ t.node[x].type # "MOV"
  BY Kinds
<1> QED BY <1>3, <1>4, <1>5 DEF Taken, Same

\* A movement is taken round a loop.
LEMMA RoundsDoes ==
  ASSUME NEW t, Sound(t), NEW u \in Tree, Shape(u),
         NEW m \in NodeId, t.node[m].type = "MOV", t.next[m] # Null,
         t.node[t.next[m]].type \in Openers,
         NEW w, NEW e, NEW c, w = t.next[m], Ends(t, w, e), c = t.node[m].count,
         Rounds(t, m, w, e, c, u)
  PROVE  DoesAs(t, u) /\ Factors(u)
<1> DEFINE b  == t.next[w]
           n3 == t.next[e]
           a  == t.prev[m]
           S  == LiveNodes(t) \ {m}
           sh == [x \in Link |-> IF x \in {w, e} THEN 0 - c ELSE 0]
<1>1. /\ t \in Tree /\ Shape(t) /\ BracketsPaired(t) /\ Live(t, m) /\ Live(t, w) /\ w \in NodeId
      /\ w # m /\ a \in Link /\ a # w /\ a # m /\ (a = Null \/ Live(t, a)) /\ t.next[a] = m
      /\ c \in Int /\ e \in NodeId /\ Live(t, e) /\ t.node[e].type \in Closers
      /\ e # w /\ e # m /\ e # a /\ t.node[w].jmp = e /\ t.node[e].jmp = w
  <2>1. t \in Tree /\ Shape(t) /\ BracketsPaired(t) /\ Live(t, m)
    BY Kinds DEF Sound, Content, Live
  <2>2. /\ Live(t, w) /\ w \in NodeId /\ w # m
        /\ a \in Link /\ a # w /\ a # m /\ (a = Null \/ Live(t, a)) /\ t.next[a] = m
    BY <2>1, Neighbours
  <2>3. c \in Int
    BY <2>1, TreeParts DEF Node
  <2>4. e \in NodeId /\ Live(t, e) /\ t.node[e].type \in Closers /\ e # m /\ e # a /\ e # w
    BY <2>1, ClosesBehind DEF Ends
  <2>5. t.node[w].jmp = e /\ t.node[e].jmp = w
    BY <2>1, <2>2, Kinds DEF Ends, BracketsPaired
  <2> QED BY <2>1, <2>2, <2>3, <2>4, <2>5
<1>2. /\ b \in S \cup {Null} /\ b # w /\ b # Null
      /\ n3 \in S \cup {Null} /\ n3 # w /\ n3 # e
      /\ w \in S /\ e \in S /\ w \in Link /\ e \in Link /\ m # Null /\ w # Null /\ e # Null
  <2>1. w \in Link /\ e \in Link /\ m # Null /\ w # Null /\ e # Null /\ w \in S /\ e \in S
    BY <1>1, NullFacts DEF LiveNodes
  <2>2. b \in S \cup {Null} /\ n3 \in S \cup {Null}
    BY <1>1, <2>1, InFront
  <2>3. b # w /\ n3 # e
    BY <1>1, Neighbours
  <2>4. n3 # w
    <3>1. t.prev[w] = m
      BY <1>1, Neighbours
    <3> QED BY <1>1, <2>1, <3>1, InFront
  <2>5. b # Null
    <3>1. PICK r \in [NodeId -> Int] : Ordered(t, r)
      BY <1>1 DEF Shape
    <3>2. \E s2 : Places(t, s2) /\ NestedBy(t, s2)
      <4>1. Ranks(t, r) /\ DoublyLinked(t) /\ NestedBy(t, r)
        BY <1>1, <3>1 DEF Ordered, Ascends, LiveNodes, Ranks, Shape
      <4>2. Complete(t) /\ Nested(t)
        BY <1>1, <4>1, RankedComplete, RankedNested
      <4> QED BY <1>1, <4>2, CompletePlaces
    <3>3. PICK s2 : Places(t, s2) /\ NestedBy(t, s2)
      BY <3>2
    <3>4. s2[w] < s2[e] /\ s2[e] \in Int /\ s2[w] \in Int
      BY <1>1, <3>3 DEF NestedBy, Places
    <3>5. b = Null => s2[e] <= s2[w]
      BY <1>1, <3>3 DEF Places
    <3> QED BY <3>4, <3>5
  <2> QED BY <2>1, <2>2, <2>3, <2>4, <2>5
<1>3. PICK r : Places(t, r)
  BY <1>1, SoundPlaces
<1>4. /\ \A x \in LiveNodes(t) :
           u.node[x] = IF x = w THEN ShiftedAt(t.node, w, c)[w]
                       ELSE IF x = e THEN ShiftedAt(t.node, e, c)[e] ELSE t.node[x]
      /\ \A x \in LiveNodes(u) \ LiveNodes(t) : u.node[x].type = "MOV"
      /\ u.next[a] = w
      /\ Leads(u, u.next[w], b, IF b = e THEN 0 ELSE c)
      /\ Leads(u, u.next[e], n3, c)
      /\ \A x \in Link : (x = Null \/ Live(t, x)) /\ x # m /\ x # w /\ x # a =>
           IF t.next[x] = e THEN Leads(u, u.next[x], e, 0 - c)
           ELSE x # e => u.next[x] = t.next[x]
  BY DEF Rounds
<1>5. /\ t.node[m].type = "MOV" /\ w = t.next[m] /\ b = t.next[w] /\ n3 = t.next[e]
      /\ c = t.node[m].count /\ t.node[w].type \in Openers
  OBVIOUS
<1> HIDE DEF a, b, n3
<1>6. sh \in [Link -> Int] /\ \A x \in Link : sh[x] = IF x \in {w, e} THEN 0 - c ELSE 0
  BY <1>1
<1> HIDE DEF sh
<1>7. TakesOver(t, u, S, sh)
  <2>1. \A x \in S : Taken(t, u, x, sh[x])
    <3> SUFFICES ASSUME NEW x \in S PROVE Taken(t, u, x, sh[x])
      OBVIOUS
    <3>1. x \in NodeId /\ x \in Link /\ x \in LiveNodes(t)
      BY NullFacts DEF LiveNodes
    <3>2. CASE x \in {w, e}
      <4>1. u.node[x] = ShiftedAt(t.node, x, c)[x] /\ t.node[x].type \in Bracket
        BY <1>1, <1>4, <1>5, <3>1, <3>2, Kinds
      <4>2. Taken(t, u, x, 0 - c)
        BY <1>1, <3>1, <4>1, ShiftedTaken
      <4> QED BY <1>6, <3>1, <3>2, <4>2
    <3>3. CASE x \notin {w, e}
      <4>1. u.node[x] = t.node[x] /\ sh[x] = 0
        BY <1>4, <1>6, <3>1, <3>3
      <4> QED BY <3>1, <4>1, <1>1, TakenOver
    <3> QED BY <3>2, <3>3
  <2>2. \A x \in S : t.node[x].type \in Bracket => sh[t.node[x].jmp] = sh[x]
    <3> SUFFICES ASSUME NEW x \in S, t.node[x].type \in Bracket
                 PROVE  sh[t.node[x].jmp] = sh[x]
      OBVIOUS
    <3>1. x \in NodeId /\ t.node[x].jmp \in NodeId /\ t.node[t.node[x].jmp].jmp = x
      BY <1>1 DEF LiveNodes, BracketsPaired
    <3>2. x \in {w, e} <=> t.node[x].jmp \in {w, e}
      BY <1>1, <3>1
    <3> QED BY <3>1, <3>2, <1>6, NullFacts
  <2> QED BY <1>5, <1>6, <2>1, <2>2 DEF TakesOver
<1>8. Leads(t, m, w, c)
  BY <1>1, <1>3, <1>5, LeadsBehind
<1>9. ASSUME NEW x \in Link, x \in S \cup {Null}
      PROVE  GoAlike(t, u, r, S, sh, x, IF x = Null THEN 0 ELSE sh[x])
  <2>1. x # m /\ (x = Null \/ Live(t, x))
    BY <1>1, <1>2, <1>9 DEF LiveNodes
  <2>2. CASE x = a
    <3>1. t.next[x] = m /\ u.next[x] = w /\ (x # Null => sh[x] = 0)
      BY <1>1, <1>4, <1>6, <2>2
    <3>2. sh[w] = 0 + 0 - c /\ 0 \in Int
      BY <1>1, <1>2, <1>6
    <3>3. Leads(u, w, w, 0)
      BY LeadsNowhere
    <3>4. x # Null /\ w # Null => r[x] < r[w]
      <4> SUFFICES ASSUME x # Null PROVE r[x] < r[w]
        OBVIOUS
      <4>1. r[x] < r[m] /\ r[m] < r[w]
            /\ r[x] \in Int /\ r[m] \in Int /\ r[w] \in Int
        BY <1>1, <1>2, <1>3, <1>5, <2>1, <3>1, NextPlace
      <4> QED BY <4>1
    <3>5. GoAlike(t, u, r, S, sh, x, 0)
      <4> HIDE DEF S
      <4> QED BY <1>1, <1>2, <1>8, <3>1, <3>2, <3>3, <3>4, GoVia
    <3> QED BY <3>1, <3>5
  <2>3. CASE x = w
    <3> DEFINE s2 == IF b = e THEN 0 ELSE c
    <3>1. sh[x] = 0 - c /\ x # Null /\ t.next[x] = b
      BY <1>2, <1>5, <1>6, <2>3
    <3>2. s2 \in Int /\ 0 \in Int
      BY <1>1
    <3>3. sh[b] = sh[x] + s2 - 0
      <4>1. b \in Link
        BY <1>2, NullFacts DEF LiveNodes
      <4>2. sh[b] = IF b = e THEN 0 - c ELSE 0
        BY <1>2, <1>6, <4>1
      <4>3. c \in Int
        BY <1>1
      <4>4. CASE b = e
        BY <3>1, <4>2, <4>3, <4>4
      <4>5. CASE b # e
        BY <3>1, <4>2, <4>3, <4>5
      <4> QED BY <4>4, <4>5
    <3>4. Leads(t, b, b, 0)
      BY LeadsNowhere
    <3>5. x # Null /\ b # Null => r[x] < r[b]
      BY <1>1, <1>3, <1>5, <2>3, NextPlace
    <3>6. Leads(u, u.next[x], b, s2)
      BY <1>4, <2>3
    <3>7. GoAlike(t, u, r, S, sh, x, sh[x])
      <4> HIDE DEF S, s2
      <4> QED BY <1>1, <1>2, <3>1, <3>2, <3>3, <3>4, <3>5, <3>6, GoVia
    <3> QED BY <3>1, <3>7
  <2>4. CASE x = e
    <3>1. sh[x] = 0 - c /\ x # Null /\ t.next[x] = n3
      BY <1>2, <1>5, <1>6, <2>4
    <3>2. sh[n3] = sh[x] + c - 0 /\ 0 \in Int
      <4>1. n3 \in Link
        BY <1>2, NullFacts DEF LiveNodes
      <4>2. sh[n3] = 0
        BY <1>2, <1>6, <4>1
      <4>3. c \in Int
        BY <1>1
      <4> QED BY <3>1, <4>2, <4>3
    <3>3. Leads(t, n3, n3, 0)
      BY LeadsNowhere
    <3>4. x # Null /\ n3 # Null => r[x] < r[n3]
      BY <1>1, <1>3, <1>5, <2>4, NextPlace
    <3>5. Leads(u, u.next[x], n3, c)
      BY <1>4, <2>4
    <3>6. GoAlike(t, u, r, S, sh, x, sh[x])
      <4> HIDE DEF S
      <4> QED BY <1>1, <1>2, <3>1, <3>2, <3>3, <3>4, <3>5, GoVia
    <3> QED BY <3>1, <3>6
  <2>5. CASE x # a /\ x # w /\ x # e /\ t.next[x] = e
    <3>1. Leads(u, u.next[x], e, 0 - c)
      BY <1>4, <2>1, <2>5
    <3>2. x # Null => sh[x] = 0
      BY <1>6, <2>5
    <3>3. sh[e] = 0 + (0 - c) - 0 /\ 0 \in Int /\ 0 - c \in Int
      BY <1>1, <1>2, <1>6
    <3>4. Leads(t, e, e, 0)
      BY LeadsNowhere
    <3>5. x # Null /\ e # Null => r[x] < r[e]
      BY <1>1, <1>3, <2>1, <2>5, NextPlace
    <3>6. GoAlike(t, u, r, S, sh, x, 0)
      <4> HIDE DEF S
      <4> QED BY <1>1, <1>2, <2>5, <3>1, <3>3, <3>4, <3>5, GoVia
    <3> QED BY <3>2, <3>6
  <2>6. CASE x # a /\ x # w /\ x # e /\ t.next[x] # e
    <3>1. u.next[x] = t.next[x]
      BY <1>4, <2>1, <2>6
    <3>2. t.next[x] \in S \cup {Null}
      BY <1>1, <2>1, <2>6, InFront DEF a
    <3>3. t.next[x] # w
      <4>1. t.prev[w] = m
        BY <1>1, <1>2, <1>5, Neighbours
      <4> QED BY <1>1, <2>1, <4>1, InFront
    <3>4. sh[t.next[x]] = 0 /\ (x # Null => sh[x] = 0)
      BY <1>1, <1>6, <2>6, <3>3, TreeParts
    <3> HIDE DEF S
    <3> QED BY <1>1, <1>3, <1>6, <2>1, <3>1, <3>2, <3>4, GoSame
  <2> QED BY <2>2, <2>3, <2>4, <2>5, <2>6
<1>10. Matched(t, u, S, sh) /\ S \subseteq LiveNodes(u)
  BY <1>7, TakesOverMatched
<1>11. Alike(t, u, r, S, sh)
  <2>1. S \subseteq NodeId /\ S \subseteq Link
    BY NullFacts DEF LiveNodes
  <2>2. GoAlike(t, u, r, S, sh, Null, 0) /\ \A x \in S : GoAlike(t, u, r, S, sh, x, sh[x])
    BY <1>9, <2>1, NullFacts
  <2> HIDE DEF S
  <2> QED BY <1>6, <1>10, <2>1, <2>2 DEF Alike
<1>12. DoesAs(t, u)
  <2>1. \A x \in LiveNodes(t) : t.node[x].type = "ADD" => x \in S
    BY <1>5
  <2>2. sh[Null] = 0
    BY <1>2, <1>6, NullFacts
  <2> HIDE DEF S
  <2> QED BY <1>1, <1>3, <1>10, <1>11, <2>1, <2>2, AlikeDoes
<1>13. Factors(u)
  <2>1. u.node[m] = t.node[m]
    BY <1>1, <1>4 DEF LiveNodes
  <2>2. \A x \in LiveNodes(u) : x \notin S => u.node[x].type = "MOV"
    BY <1>4, <1>5, <2>1
  <2> HIDE DEF S
  <2> QED BY <1>7, <2>2, FactorsKept
<1> QED BY <1>12, <1>13

(***************************************************************************)
(* What each step does.                                                    *)
(***************************************************************************)

\* Nothing comes to life but new nodes.
LEMMA NoneNew ==
  ASSUME NEW t \in Tree, NEW u, u.num = t.num, \A x \in NodeId : Live(u, x) => Live(t, x)
  PROVE  NumOnly(t, u)
<1>1. t.num <= t.num
  BY TreeParts
<1> QED BY <1>1 DEF NumOnly

\* What stays sound as to its links has a sound tree.
LEMMA InvSound ==
  ASSUME IInv, Factors(tree)
  PROVE  /\ Sound(tree) /\ tree \in Tree /\ Shape(tree) /\ Content(tree)
         /\ BracketsPaired(tree) /\ Unallocated(tree)
         /\ n # Null => n \in NodeId /\ Live(tree, n)
BY DEF IInv, TypeOK, Sound, Content, Live

\* What a step that is no trimming does.
Keeps(t, u) == DoesAs(t, u) /\ Factors(u) /\ NumOnly(t, u)

\* case T_MOV.
LEMMA MergeKeeps ==
  ASSUME IInv, Factors(tree), MergeMovements
  PROVE  Keeps(tree, tree')
<1> DEFINE merged == Absorb(tree, n)
<1>1. /\ n \in NodeId /\ tree.node[n].type = "MOV" /\ tree.next[n] # Null
      /\ tree.node[tree.next[n]].type = "MOV" /\ Sound(tree) /\ tree \in Tree
      /\ Shape(tree) /\ Content(tree) /\ tree.next[n] \in NodeId
  <2>1. n \in NodeId /\ Live(tree, n) /\ tree.next[n] # Null
    BY InvSound DEF MergeMovements, MovBefore, Follower
  <2> QED BY <2>1, InvSound, Neighbours DEF MergeMovements, MovBefore, Follower
<1>2. /\ merged \in Tree /\ Shape(merged) /\ Content(merged)
      /\ merged.node[n].type = "MOV" /\ merged.prev[n] = tree.prev[n]
  BY <1>1, AbsorbSound
<1>3. Merges(tree, n, merged)
  BY <1>1, AbsorbMerges
<1>4. \/ tree' = merged
      \/ /\ tree' = Unlinked(merged, n) /\ merged.node[n].count = 0
         /\ merged.prev[n] # Null
  BY <1>2 DEF MergeMovements
<1> HIDE DEF merged
<1>5. DoesAs(tree, merged) /\ Factors(merged)
  BY <1>1, <1>2, <1>3, MergesDoes
<1>6. merged.num = tree.num /\ \A x \in NodeId : Live(merged, x) => Live(tree, x)
  <2>1. merged.num = tree.num
    BY <1>3 DEF Merges
  <2>2. ASSUME NEW x \in NodeId, Live(merged, x) PROVE Live(tree, x)
    <3>1. x # tree.next[n]
      BY <1>3, <2>2, FreeNodeType DEF Merges, Live
    <3>2. CASE x = n
      BY <1>1, <3>2, Kinds DEF Live
    <3>3. CASE x # n
      BY <1>3, <2>2, <3>1, <3>3 DEF Merges, Live
    <3> QED BY <3>2, <3>3
  <2> QED BY <2>1, <2>2
<1>7. CASE tree' = merged
  <2>1. NumOnly(tree, merged)
    BY <1>1, <1>6, NoneNew
  <2> QED BY <1>5, <1>7, <2>1 DEF Keeps
<1>8. CASE tree' = Unlinked(merged, n) /\ merged.node[n].count = 0 /\ merged.prev[n] # Null
  <2>1. Sound(merged)
    BY <1>2, <1>5 DEF Sound
  <2>2. tree' \in Tree /\ Shape(tree')
    BY <1>1, <1>2, <1>8, UnlinkedSound
  <2>3. Drops(merged, n, tree')
    BY <1>1, <1>2, <1>8, UnlinkedDrops
  <2>4. DoesAs(merged, tree') /\ Factors(tree')
    BY <1>1, <1>2, <1>8, <2>1, <2>2, <2>3, DropsMovement
  <2>5. DoesAs(tree, tree')
    BY <1>5, <2>4, DoesAsBoth
  <2>6. NumOnly(tree, tree')
    <3>1. tree'.num = tree.num
      BY <1>6, <2>3 DEF Drops
    <3>2. ASSUME NEW x \in NodeId, Live(tree', x) PROVE Live(tree, x)
      <4>1. x # n /\ Live(merged, x)
        BY <2>3, <3>2, FreeNodeType DEF Drops, Live
      <4> QED BY <1>6, <4>1
    <3> QED BY <1>1, <3>1, <3>2, NoneNew
  <2> QED BY <2>4, <2>5, <2>6 DEF Keeps
<1> QED BY <1>4, <1>7, <1>8

\* A command that the movement is pushed past.
LEMMA SwapKeeps ==
  ASSUME IInv, Factors(tree), NEW nd \in Node, MovBefore(Simple \cup Calc),
         Same(tree.node[Follower], nd, 0 - tree.node[n].count),
         tree' = Swapped(tree, n, nd), tree' \in Tree, Shape(tree)'
  PROVE  Keeps(tree, tree')
<1> DEFINE u == Swapped(tree, n, nd)
<1>1. /\ n \in NodeId /\ tree.node[n].type = "MOV" /\ tree.next[n] # Null
      /\ tree.node[tree.next[n]].type \in Simple \cup Calc
      /\ Same(tree.node[tree.next[n]], nd, 0 - tree.node[n].count)
      /\ Sound(tree) /\ tree \in Tree /\ Shape(tree) /\ Live(tree, n)
  BY InvSound DEF MovBefore, Follower
<1>2. tree.node[tree.next[n]].type \notin Bracket \cup {"MOV", "FREE"}
  BY <1>1, Kinds DEF Simple, Calc
<1>3. Swaps(tree, n, nd, u)
  BY <1>1, SwappedSwaps
<1>4. u \in Tree /\ Shape(u) /\ tree' = u
  BY DEF Shape
<1> HIDE DEF u
<1>5. DoesAs(tree, u) /\ Factors(u)
  BY <1>1, <1>2, <1>3, <1>4, SwapsDoes
<1>6. NumOnly(tree, u)
  <2>1. u.num = tree.num
    BY <1>3 DEF Swaps
  <2>2. ASSUME NEW x \in NodeId, Live(u, x) PROVE Live(tree, x)
    <3>1. CASE x = tree.next[n]
      BY <1>2, <3>1 DEF Live
    <3>2. CASE x # tree.next[n]
      BY <1>3, <2>2, <3>2 DEF Swaps, Live
    <3> QED BY <3>1, <3>2
  <2> QED BY <1>1, <2>1, <2>2, NoneNew
<1> QED BY <1>4, <1>5, <1>6 DEF Keeps

\* The command goes with its offset shifted,
LEMMA CommandKeeps ==
  ASSUME IInv, Factors(tree), PushPastCommand, IInv'
  PROVE  Keeps(tree, tree')
<1> DEFINE a  == tree.node[Follower]
           c  == tree.node[n].count
           nd == [a EXCEPT !.offset = @ + c]
<1>1. a \in Node /\ c \in Int /\ MovBefore(Simple \cup Calc) /\ a.type \in Simple
  BY CommandParts DEF PushPastCommand, MovBefore
<1>2. a.type \notin Calc /\ a.type # "MOV" /\ a.offset \in Int
  BY <1>1 DEF Simple, Calc, Node
<1>3. /\ nd.type = a.type /\ nd.jmp = a.jmp /\ nd.count = a.count /\ nd.count2 = a.count2
      /\ nd.count3 = a.count3 /\ nd.offset = a.offset + c /\ nd \in Node
  BY <1>1 DEF Node
<1>4. tree' = Swapped(tree, n, nd)
  BY DEF PushPastCommand
<1>5. tree' \in Tree /\ Shape(tree)'
  BY DEF IInv, TypeOK
<1> HIDE DEF a, c, nd
<1>6. nd.offset = a.offset - (0 - c)
  BY <1>1, <1>2, <1>3
<1>7. Same(a, nd, 0 - c)
  BY <1>2, <1>3, <1>6 DEF Same
<1> QED BY <1>1, <1>3, <1>4, <1>5, <1>7, SwapKeeps DEF a, c

\* and a calculation with those of the operands it uses.
LEMMA ShiftedSame ==
  ASSUME NEW a \in Node, a.type \in Calc, NEW c \in Int
  PROVE  Same(a, Shifted(a, c), 0 - c)
<1> DEFINE o2 == IF a.count2 # 0 THEN a.offset2 + c ELSE a.offset2
           o3 == IF a.count3 # 0 THEN a.offset3 + c ELSE a.offset3
           nd == [a EXCEPT !.offset = a.offset + c, !.offset2 = o2, !.offset3 = o3]
<1>1. a.offset \in Int /\ a.offset2 \in Int /\ a.offset3 \in Int
  BY DEF Node
<1>2. Shifted(a, c) = nd
  BY DEF Shifted
<1>3. a.count2 # 0 => o2 = a.offset2 - (0 - c)
  BY <1>1
<1>4. a.count3 # 0 => o3 = a.offset3 - (0 - c)
  BY <1>1
<1> HIDE DEF o2, o3
<1>5. /\ nd.type = a.type /\ nd.jmp = a.jmp /\ nd.count = a.count /\ nd.count2 = a.count2
      /\ nd.count3 = a.count3 /\ nd.offset = a.offset + c
      /\ nd.offset2 = o2 /\ nd.offset3 = o3
  BY DEF Node
<1> HIDE DEF nd
<1>6. nd.offset = a.offset - (0 - c)
  BY <1>1, <1>5
<1>7. Same(a, nd, 0 - c)
  BY <1>3, <1>4, <1>5, <1>6 DEF Same
<1> QED BY <1>2, <1>7

\* A movement that passes a T_CALC, all of whose offsets shift, keeps the
\* meaning.
LEMMA CalcKeeps ==
  ASSUME IInv, Factors(tree), PushPastCalc, IInv'
  PROVE  Keeps(tree, tree')
<1> DEFINE a  == tree.node[Follower]
           c  == tree.node[n].count
           nd == Shifted(a, c)
<1>1. a \in Node /\ c \in Int /\ MovBefore(Simple \cup Calc) /\ a.type \in Calc
  BY CommandParts DEF PushPastCalc, MovBefore
<1>2. nd \in Node /\ Same(a, nd, 0 - c)
  <2> HIDE DEF a, c
  <2> QED BY <1>1, ShiftedParts, ShiftedSame
<1>3. tree' = Swapped(tree, n, nd)
  BY DEF PushPastCalc
<1>4. tree' \in Tree /\ Shape(tree)'
  BY DEF IInv, TypeOK
<1> HIDE DEF nd
<1> QED BY <1>1, <1>2, <1>3, <1>4, SwapKeeps

\* A loop is gone round.
LEMMA RoundKeeps ==
  ASSUME IInv, Factors(tree), PushRoundLoop, IInv'
  PROVE  Keeps(tree, tree')
<1> DEFINE c == tree.node[n].count
           w == tree.next[n]
           e == tree.node[w].jmp
           v == IF c # 0 THEN Balanced(tree, w, c) ELSE tree
<1>1. /\ Sound(tree) /\ tree \in Tree /\ Shape(tree) /\ BracketsPaired(tree) /\ Unallocated(tree)
      /\ n \in NodeId /\ tree.node[n].type = "MOV" /\ tree.next[n] # Null
      /\ tree.node[tree.next[n]].type \in Openers
      /\ c # 0 => HasRoomFor(tree, 2)
  BY InvSound DEF PushRoundLoop, MovBefore, Follower
<1>2. IsOpened(tree, n, w, e, c, v) /\ Ends(tree, w, e)
  BY DEF IsOpened, Ends
<1>3. IsMovedBehind(v, n, e, tree')
  BY DEF PushRoundLoop, Follower, IsMovedBehind
<1>4. tree' \in Tree /\ Shape(tree)'
  BY DEF IInv, TypeOK
<1>5. w = tree.next[n] /\ c = tree.node[n].count
  OBVIOUS
<1>6. \A u : u = tree' => u \in Tree /\ Shape(u) /\ IsMovedBehind(v, n, e, u)
  BY <1>3, <1>4 DEF Shape
<1> HIDE DEF c, w, e, v
<1>7. PICK u : u = tree'
  OBVIOUS
<1>8. u \in Tree /\ Shape(u) /\ IsMovedBehind(v, n, e, u)
  BY <1>6, <1>7
<1>9. Rounds(tree, n, w, e, c, u) /\ NumOnly(tree, u)
  BY <1>1, <1>2, <1>8, RoundsLoop
<1>10. DoesAs(tree, u) /\ Factors(u)
  BY <1>1, <1>2, <1>5, <1>8, <1>9, RoundsDoes
<1> QED BY <1>7, <1>9, <1>10 DEF Keeps

\* The end of the program is trimmed.
LEMMA TrimEnds ==
  ASSUME IInv, Factors(tree), TrimLast, IInv'
  PROVE  /\ EndsAs(tree, tree') /\ Factors(tree') /\ NumOnly(tree, tree')
         /\ n \in NodeId /\ Live(tree, n) /\ n <= tree.num /\ ~Live(tree', n)
         /\ tree'.num = tree.num
<1>1. /\ Sound(tree) /\ tree \in Tree /\ Shape(tree) /\ n \in NodeId /\ Live(tree, n)
      /\ tree.node[n].type \in {"MOV", "ADD"} /\ tree.next[n] = Null
      /\ tree' = Trimmed(tree, n) /\ Unallocated(tree)
  <2>1. n # Null /\ tree.next[n] = Null /\ tree.node[n].type \in {"MOV", "ADD"}
    BY DEF TrimLast, Trimmable, IInv
  <2> QED BY <2>1, InvSound DEF TrimLast
<1>2. n <= tree.num
  <2>1. tree.num \in Int /\ n \in Int
    BY <1>1, TreeParts DEF NodeId
  <2> QED BY <1>1, <2>1, UnallocatedIsFree DEF Live
<1>3. Drops(tree, n, tree')
  BY <1>1, TrimmedDrops
<1>4. tree' \in Tree /\ Shape(tree)'
  BY DEF IInv, TypeOK
<1>5. \A u : u = tree' => u \in Tree /\ Shape(u) /\ Drops(tree, n, u)
  BY <1>3, <1>4 DEF Shape
<1>6. PICK u : u = tree'
  OBVIOUS
<1>7. u \in Tree /\ Shape(u) /\ Drops(tree, n, u)
  BY <1>5, <1>6
<1>8. EndsAs(tree, u) /\ Factors(u)
  <2>1. CASE tree.node[n].type = "MOV"
    BY <1>1, <1>7, <2>1, DropsMovement
  <2>2. CASE tree.node[n].type = "ADD"
    BY <1>1, <1>7, <2>2, DropsAddition
  <2> QED BY <1>1, <2>1, <2>2
<1>9. ~Live(u, n) /\ u.num = tree.num /\ \A x \in NodeId : Live(u, x) => Live(tree, x)
  <2>1. ~Live(u, n) /\ u.num = tree.num
    BY <1>7, FreeNodeType DEF Drops, Live
  <2>2. ASSUME NEW x \in NodeId, Live(u, x) PROVE Live(tree, x)
    BY <1>7, <2>1, <2>2 DEF Drops, Live
  <2> QED BY <2>1, <2>2
<1>10. NumOnly(tree, u)
  BY <1>1, <1>9, NoneNew
<1> QED BY <1>1, <1>2, <1>6, <1>8, <1>9, <1>10

(***************************************************************************)
(* The whole pass.  Each node that is trimmed may let the program end one  *)
(* command sooner; no id is trimmed twice.                                 *)
(***************************************************************************)

\* After k commands t does what t0 did, or it is over and t0 is l commands on.
Stage(t0, t, whole, tape, k, l) ==
  LET old  == Ran(t0, tape, k)
      new  == Ran(t, tape, k)
      late == Ran(t0, tape, k + l)
  IN  \/ /\ AsBefore(old, new)
         /\ whole /\ old.status = "done" => new.p = old.p
      \/ /\ ~whole /\ new.status = "done" /\ late.status = "done"
         /\ new.io = old.io /\ late.io = old.io

Stages(t0, t, whole, l) == \A tape \in Tapes, k \in Nat : Stage(t0, t, whole, tape, k, l)

\* An edit that keeps the meaning keeps the stage.
LEMMA StagesKept ==
  ASSUME NEW t0, NEW t, NEW u, NEW whole, NEW l \in Nat, Stages(t0, t, whole, l), DoesAs(t, u)
  PROVE  Stages(t0, u, whole, l)
<1> SUFFICES ASSUME NEW tape \in Tapes, NEW k \in Nat
             PROVE  Stage(t0, u, whole, tape, k, l)
  BY DEF Stages
<1> DEFINE a == Ran(t, tape, k)
           b == Ran(u, tape, k)
<1>1. Stage(t0, t, whole, tape, k, l) /\ Matches(a, b, 0)
  BY DEF Stages, DoesAs
<1>2. /\ b.status = a.status /\ b.io = a.io /\ b.tape = a.tape /\ b.stdin = a.stdin
      /\ a.status = "done" => b.p = a.p
  BY <1>1 DEF Matches
<1> QED BY <1>1, <1>2 DEF Stage, AsBefore

\* Once over, the run goes on no further.
LEMMA RanOver ==
  ASSUME NEW t, NEW tape, NEW k \in Nat, NEW l \in Nat, k <= l, Ran(t, tape, k).status = "done"
  PROVE  Ran(t, tape, l) = Ran(t, tape, k)
BY StaysOver DEF Ran

\* A trim lets the program end one command sooner than before, at most.
LEMMA StagesTrimmed ==
  ASSUME NEW t0, NEW t, NEW u, NEW l \in Nat, Stages(t0, t, FALSE, l), EndsAs(t, u)
  PROVE  Stages(t0, u, FALSE, l + 1)
<1> SUFFICES ASSUME NEW tape \in Tapes, NEW k \in Nat
             PROVE  Stage(t0, u, FALSE, tape, k, l + 1)
  BY DEF Stages
<1> DEFINE o(i) == Ran(t0, tape, i)
           a(i) == Ran(t, tape, i)
           b    == Ran(u, tape, k)
<1>1. \A i \in Nat : \/ AsBefore(o(i), a(i))
                     \/ /\ a(i).status = "done" /\ o(i + l).status = "done"
                        /\ a(i).io = o(i).io /\ o(i + l).io = o(i).io
  BY DEF Stages, Stage
<1>2. \/ \E e \in Int : Matches(a(k), b, e)
      \/ /\ b.status = "done" /\ a(k + 1).status = "done"
         /\ b.io = a(k).io /\ a(k + 1).io = a(k).io
  BY DEF EndsAs
<1>3. \A i, j \in Nat : i <= j /\ o(i).status = "done" => o(j) = o(i)
  BY RanOver
<1>4. k + 1 \in Nat /\ k + l \in Nat /\ k + (l + 1) \in Nat /\ (k + 1) + l = k + (l + 1)
      /\ k + l <= k + (l + 1) /\ k + 1 <= k + (l + 1)
  OBVIOUS
<1>5. \/ AsBefore(o(k), b)
      \/ /\ b.status = "done" /\ o(k + (l + 1)).status = "done"
         /\ b.io = o(k).io /\ o(k + (l + 1)).io = o(k).io
      => Stage(t0, u, FALSE, tape, k, l + 1)
  BY DEF Stage
<1>6. a(k).io = o(k).io
  BY <1>1 DEF AsBefore
<1> HIDE DEF o, a, b
<1>7. CASE \E e \in Int : Matches(a(k), b, e)
  <2>1. b.status = a(k).status /\ b.io = a(k).io /\ b.tape = a(k).tape /\ b.stdin = a(k).stdin
    BY <1>7 DEF Matches
  <2>2. CASE AsBefore(o(k), a(k))
    <3>1. AsBefore(o(k), b)
      BY <2>1, <2>2 DEF AsBefore
    <3> QED BY <3>1, <1>5
  <2>3. CASE /\ a(k).status = "done" /\ o(k + l).status = "done"
             /\ a(k).io = o(k).io /\ o(k + l).io = o(k).io
    <3>1. o(k + (l + 1)) = o(k + l)
      BY <1>3, <1>4, <2>3
    <3> QED BY <1>5, <2>1, <2>3, <3>1
  <2> QED BY <1>1, <2>2, <2>3
<1>8. CASE /\ b.status = "done" /\ a(k + 1).status = "done"
           /\ b.io = a(k).io /\ a(k + 1).io = a(k).io
  <2>1. o(k + (l + 1)).status = "done" /\ o(k + (l + 1)).io = a(k + 1).io
    <3>1. CASE AsBefore(o(k + 1), a(k + 1))
      <4>1. o(k + 1).status = "done" /\ o(k + 1).io = a(k + 1).io
        BY <1>8, <3>1 DEF AsBefore
      <4>2. o(k + (l + 1)) = o(k + 1)
        BY <1>3, <1>4, <4>1
      <4> QED BY <4>1, <4>2
    <3>2. CASE /\ a(k + 1).status = "done" /\ o((k + 1) + l).status = "done"
               /\ a(k + 1).io = o(k + 1).io /\ o((k + 1) + l).io = o(k + 1).io
      BY <1>4, <3>2
    <3> QED BY <1>1, <1>4, <3>1, <3>2
  <2> QED BY <1>5, <1>6, <1>8, <2>1
<1> QED BY <1>2, <1>7, <1>8

\* The ids that have been trimmed.
Gone(t, G) == G \in SUBSET NodeId /\ \A x \in G : x <= t.num /\ ~Live(t, x)

\* No more ids can be trimmed than there are.
LEMMA GoneFinite ==
  ASSUME NEW G \in SUBSET NodeId
  PROVE  IsFiniteSet(G) /\ Cardinality(G) \in Nat /\ Cardinality(G) <= MaxNode
<1>1. IsFiniteSet(NodeId) /\ Cardinality(NodeId) = MaxNode
  <2>1. 1 \in Int /\ MaxNode \in Int /\ MaxNode >= 1
    BY MaxNodeAssumption
  <2>2. /\ IsFiniteSet(1 .. MaxNode)
        /\ Cardinality(1 .. MaxNode) = IF 1 > MaxNode THEN 0 ELSE MaxNode - 1 + 1
    BY <2>1, FS_Interval
  <2>3. (IF 1 > MaxNode THEN 0 ELSE MaxNode - 1 + 1) = MaxNode
    BY <2>1
  <2> QED BY <2>2, <2>3 DEF NodeId
<1>2. IsFiniteSet(G) /\ Cardinality(G) <= Cardinality(NodeId)
  BY <1>1, FS_Subset
<1> QED BY <1>1, <1>2, FS_CardinalityType

\* A trimmed id does not come back: new nodes take new ids.
LEMMA StillGone ==
  ASSUME NEW t, NEW u, NEW G, Gone(t, G), NumOnly(t, u), t.num \in Int, u.num \in Int
  PROVE  Gone(u, G)
<1> SUFFICES ASSUME NEW x \in G PROVE x <= u.num /\ ~Live(u, x)
  BY DEF Gone
<1>1. x \in NodeId /\ x \in Int /\ x <= t.num /\ ~Live(t, x)
  BY DEF Gone, NodeId
<1> QED BY <1>1 DEF NumOnly

\* The tree is a stage of the program, as many commands behind it at most as
\* ids have been trimmed; only a whole program is trimmed.
MeaningInv ==
  /\ Factors(tree)
  /\ trimming => fragment = FALSE
  /\ \E G : Gone(tree, G) /\ Stages(given, tree, fragment, Cardinality(G))

\* The pass begins with the tree it was given.
LEMMA InitMeaning == Init => MeaningInv
<1> SUFFICES ASSUME Init PROVE MeaningInv
  OBVIOUS
<1>1. Factors(tree) /\ trimming = FALSE /\ given = tree
  BY StartTreesAssumption DEF Init, Factors
<1>2. Gone(tree, {})
  BY DEF Gone
<1>3. \A l : Stages(tree, tree, fragment, l)
  BY DEF Stages, Stage, AsBefore
<1> QED BY <1>1, <1>2, <1>3 DEF MeaningInv

\* A step that does as before keeps what the steps before it kept.
LEMMA KeepsMeaning ==
  ASSUME MeaningInv, tree \in Tree, tree' \in Tree,
         Keeps(tree, tree') \/ tree' = tree, fragment' = fragment, given' = given,
         trimming' => trimming \/ fragment = FALSE
  PROVE  MeaningInv'
<1>1. PICK G : Gone(tree, G) /\ Stages(given, tree, fragment, Cardinality(G))
  BY DEF MeaningInv
<1>2. Cardinality(G) \in Nat /\ tree.num \in Int /\ tree'.num \in Int
  BY <1>1, GoneFinite, TreeParts DEF Gone
<1>3. trimming' => fragment' = FALSE
  BY DEF MeaningInv
<1>4. \A u : u = tree' /\ (Keeps(tree, u) \/ u = tree) =>
        Factors(u) /\ Gone(u, G) /\ Stages(given, u, fragment, Cardinality(G))
  <2> SUFFICES ASSUME NEW u, u = tree', Keeps(tree, u) \/ u = tree
               PROVE  Factors(u) /\ Gone(u, G) /\ Stages(given, u, fragment, Cardinality(G))
    OBVIOUS
  <2>1. CASE u = tree
    BY <1>1, <2>1 DEF MeaningInv
  <2>2. CASE Keeps(tree, u)
    <3>1. Gone(u, G)
      BY <1>1, <1>2, <2>2, StillGone DEF Keeps
    <3>2. Stages(given, u, fragment, Cardinality(G))
      BY <1>1, <1>2, <2>2, StagesKept DEF Keeps
    <3> QED BY <2>2, <3>1, <3>2 DEF Keeps
  <2> QED BY <2>1, <2>2
<1>5. PICK u : u = tree'
  OBVIOUS
<1>6. Factors(u) /\ Gone(u, G) /\ Stages(given, u, fragment, Cardinality(G))
  BY <1>4, <1>5
<1>7. Factors(tree') /\ Gone(tree', G) /\ Stages(given', tree', fragment', Cardinality(G))
  BY <1>5, <1>6
<1> QED BY <1>3, <1>7 DEF MeaningInv, Factors, Gone, Stages, Stage, Ran, AsBefore, Live

\* Trimming a node adds its id.
LEMMA TrimMeaning ==
  ASSUME IInv, IInv', MeaningInv, TrimLast, UNCHANGED <<fragment, given>>
  PROVE  MeaningInv'
<1>1. PICK G : Gone(tree, G) /\ Stages(given, tree, fragment, Cardinality(G))
  BY DEF MeaningInv
<1>2. trimming /\ fragment = FALSE /\ Factors(tree)
  BY DEF TrimLast, MeaningInv
<1>3. /\ EndsAs(tree, tree') /\ Factors(tree') /\ NumOnly(tree, tree')
      /\ n \in NodeId /\ Live(tree, n) /\ n <= tree.num /\ ~Live(tree', n)
      /\ tree'.num = tree.num
  BY <1>2, TrimEnds
<1>4. tree \in Tree /\ tree.num \in Int
  BY TreeParts DEF IInv, TypeOK
<1>5. \A u : u = tree' => /\ EndsAs(tree, u) /\ Factors(u) /\ NumOnly(tree, u)
                          /\ ~Live(u, n) /\ u.num = tree.num
  BY <1>3
<1>6. PICK u : u = tree'
  OBVIOUS
<1>7. /\ EndsAs(tree, u) /\ Factors(u) /\ NumOnly(tree, u)
      /\ ~Live(u, n) /\ u.num = tree.num
  BY <1>5, <1>6
<1> DEFINE H == G \cup {n}
<1>8. Gone(u, H)
  <2>1. Gone(u, G)
    BY <1>1, <1>4, <1>7, StillGone
  <2> QED BY <1>3, <1>7, <2>1 DEF Gone
<1>9. Cardinality(H) = Cardinality(G) + 1
  <2>1. n \notin G
    BY <1>1, <1>3 DEF Gone
  <2>2. IsFiniteSet(G)
    BY <1>1, GoneFinite DEF Gone
  <2> QED BY <2>1, <2>2, FS_AddElement
<1>10. Cardinality(G) \in Nat
  BY <1>1, GoneFinite DEF Gone
<1> HIDE DEF H
<1>11. Stages(given, u, FALSE, Cardinality(H))
  BY <1>1, <1>2, <1>7, <1>9, <1>10, StagesTrimmed
<1>12. /\ Factors(tree') /\ Gone(tree', H)
       /\ Stages(given', tree', fragment', Cardinality(H)) /\ fragment' = FALSE
  BY <1>2, <1>6, <1>7, <1>8, <1>11
<1> QED BY <1>12 DEF MeaningInv, Factors, Gone, Stages, Stage, Ran, AsBefore, Live

\* Every step of the pass, the trims at its end included, keeps the invariant.
LEMMA NextMeaning == IInv /\ MeaningInv /\ [Next]_vars => MeaningInv'
<1> SUFFICES ASSUME IInv, MeaningInv, [Next]_vars PROVE MeaningInv'
  OBVIOUS
<1>1. IInv'
  BY NextIInv
<1>2. tree \in Tree /\ tree' \in Tree /\ Factors(tree)
  BY <1>1 DEF IInv, TypeOK, MeaningInv
<1>3. CASE TrimLast /\ UNCHANGED <<fragment, given>>
  BY <1>1, <1>3, TrimMeaning
<1>4. ASSUME Keeps(tree, tree') \/ tree' = tree, UNCHANGED <<fragment, given>>,
             trimming' => trimming \/ fragment = FALSE
      PROVE  MeaningInv'
  BY <1>2, <1>4, KeepsMeaning
<1>5. CASE UNCHANGED vars
  BY <1>4, <1>5 DEF vars
<1>6. ASSUME UNCHANGED <<fragment, given>>, ScanStep, ~TrimLast PROVE MeaningInv'
  <2>1. CASE MergeMovements
    <3>1. Keeps(tree, tree') /\ trimming' = trimming
      BY <1>2, <2>1, MergeKeeps DEF MergeMovements
    <3> QED BY <1>4, <1>6, <3>1
  <2>2. CASE PushPastCommand
    <3>1. Keeps(tree, tree') /\ trimming' = trimming
      BY <1>1, <1>2, <2>2, CommandKeeps DEF PushPastCommand
    <3> QED BY <1>4, <1>6, <3>1
  <2>3. CASE PushPastCalc
    <3>1. Keeps(tree, tree') /\ trimming' = trimming
      BY <1>1, <1>2, <2>3, CalcKeeps DEF PushPastCalc
    <3> QED BY <1>4, <1>6, <3>1
  <2>4. CASE PushRoundLoop
    <3>1. Keeps(tree, tree') /\ trimming' = trimming
      BY <1>1, <1>2, <2>4, RoundKeeps DEF PushRoundLoop
    <3> QED BY <1>4, <1>6, <3>1
  <2>5. CASE StuckBeforeEnd
    <3>1. tree' = tree /\ trimming' = trimming
      BY <2>5 DEF StuckBeforeEnd
    <3> QED BY <1>4, <1>6, <3>1
  <2>6. CASE PushedOffTheEnd
    <3>1. tree' = tree /\ fragment = FALSE
      BY <2>6 DEF PushedOffTheEnd, IInv, TypeOK
    <3> QED BY <1>4, <1>6, <3>1
  <2>7. CASE TrimDone
    <3>1. tree' = tree /\ trimming' = FALSE
      BY <2>7 DEF TrimDone
    <3> QED BY <1>4, <1>6, <3>1
  <2>8. CASE PassOver
    <3>1. tree' = tree /\ trimming' = trimming
      BY <2>8 DEF PassOver
    <3> QED BY <1>4, <1>6, <3>1
  <2> QED BY <1>6, <2>1, <2>2, <2>3, <2>4, <2>5, <2>6, <2>7, <2>8 DEF ScanStep
<1> QED BY <1>3, <1>5, <1>6 DEF Next

\* What the invariant says is what MeaningKept says.
LEMMA MeaningInvGives == IInv /\ MeaningInv => MeaningKept
<1> SUFFICES ASSUME IInv, MeaningInv, NEW tape \in Tapes
             PROVE  LET old  == Ran(given, tape, Fuel)
                        new  == Ran(tree, tape, Fuel)
                        late == Ran(given, tape, Fuel + MaxNode)
                    IN  \/ /\ AsBefore(old, new)
                           /\ fragment /\ old.status = "done" => new.p = old.p
                        \/ /\ ~fragment /\ new.status = "done" /\ late.status = "done"
                           /\ new.io = old.io /\ late.io = old.io
  BY DEF MeaningKept
<1>1. PICK G : Gone(tree, G) /\ Stages(given, tree, fragment, Cardinality(G))
  BY DEF MeaningInv
<1> DEFINE l == Cardinality(G)
<1>2. l \in Nat /\ l <= MaxNode /\ Fuel \in Nat
  BY <1>1, GoneFinite, InputAssumption DEF Gone
<1>3. Stage(given, tree, fragment, tape, Fuel, l)
  BY <1>1, <1>2 DEF Stages
<1> HIDE DEF l
<1>4. Fuel + l \in Nat /\ Fuel + MaxNode \in Nat /\ Fuel + l <= Fuel + MaxNode
  BY <1>2, MaxNodeAssumption
<1>5. Ran(given, tape, Fuel + l).status = "done" =>
        Ran(given, tape, Fuel + MaxNode) = Ran(given, tape, Fuel + l)
  BY <1>4, RanOver
<1> QED BY <1>3, <1>5 DEF Stage

\* Both invariants hold.
LEMMA Staying == Spec => [](IInv /\ MeaningInv)
<1>1. Init => IInv /\ MeaningInv
  BY InitIInv, InitMeaning
<1>2. (IInv /\ MeaningInv) /\ [Next]_vars => (IInv /\ MeaningInv)'
  BY NextIInv, NextMeaning
<1> QED BY <1>1, <1>2, PTL DEF Spec

\* Whatever tree the loader leaves, after every step it is one of those that a
\* second pointer_scan and pointer_regen take for granted.
THEOREM HandsOn ==
  Spec => [](tree \in Tree /\ WellFormed(tree) /\ Complete(tree) /\ Nested(tree)
             /\ Factors(tree))
<1>1. IInv /\ MeaningInv => tree \in Tree /\ WellFormed(tree) /\ Factors(tree)
  BY WellFormedParts DEF IInv, TypeOK, Shape, Content, MeaningInv
<1> QED BY <1>1, Staying, ListStaysWhole, PTL DEF ListWhole

\* Whatever tree the loader leaves, whatever the tape and the input, and however
\* long the program runs: after every step of pointer_scan it reads and writes
\* the same and has the same tape, command by command; it only ends sooner when
\* all that was left to do was to add to cells.
THEOREM MeaningStays == Spec => []MeaningKept
  BY Staying, MeaningInvGives, PTL
=============================================================================
