--------------------------- MODULE LoadFileProofs ---------------------------
(***************************************************************************)
(* Whatever is read, in whatever files, with whatever brackets: the tree   *)
(* load_file hands to the optimiser is one that pointer_scan is proved to  *)
(* keep sound (PointerScanProofs), so that the two proofs compose.         *)
(*                                                                         *)
(* The invariant tells the list from the brackets. The list: nodes stand   *)
(* in the order of their allocation, none but the last, p, has no next     *)
(* one, and between a node and the one that prev leads to there is no      *)
(* other (this makes p's predecessor the last node when p is taken away    *)
(* again). The brackets: those that are open are just those whose jmp      *)
(* leads outwards, and they lie on the stack in order; all others have     *)
(* their partner, and what is opened between two partners is closed        *)
(* between them. So identities are positions, and the list is whole and    *)
(* its loops nest (BFTreeProofs).                                          *)
(*                                                                         *)
(* The second part counts: the loops that the text has opened and not      *)
(* closed are those in the tree that are open, the one kept back, and      *)
(* those inside a comment loop. LoopsIn is a recursive function, so its    *)
(* value after one character more is proved from there being such depths   *)
(* at all, and from any two of them agreeing as far as the texts do.       *)
(***************************************************************************)
EXTENDS LoadFile, BFTreeProofs

USE Ids

LoaderState ==
  [ p : Link, mov : Int, jst : Link, dld : Int, inp : BOOLEAN,
    rle : BOOLEAN, num : Int, ov : BOOLEAN, z : 0 .. 3 ]

Linked(t, p) ==
  /\ t \in Tree
  /\ p \in 0 .. t.num
  /\ p = Null \/ Live(t, p)
  /\ t.next[p] = Null
  /\ DoublyLinked(t)
  /\ Unallocated(t)
  /\ \A x \in Link : (x = Null \/ Live(t, x)) /\ t.next[x] = Null => x = p
  /\ \A x \in NodeId : Live(t, x) => x <= p /\ t.prev[x] < x
  /\ \A x, y \in NodeId : Live(t, x) /\ Live(t, y) /\ x < y => x <= t.prev[y]

\* A bracket whose end has not been read.
Open(t, x) == t.node[x].type \in Openers /\ t.node[x].jmp < x

Stacked(t, jst) ==
  /\ jst \in Link
  /\ jst # Null => Open(t, jst)
  /\ \A x \in NodeId : Open(t, x) =>
       /\ x <= jst
       /\ t.node[x].jmp = Null \/ Open(t, t.node[x].jmp)
  /\ \A x, y \in NodeId : Open(t, x) /\ Open(t, y) /\ y < x => y <= t.node[x].jmp

Closed(t) ==
  \A x \in NodeId : t.node[x].type \in Bracket =>
    /\ t.node[x].offset = 0
    /\ t.node[x].type \in Closers => t.prev[x] # Null
    /\ ~Open(t, x) =>
         LET y == t.node[x].jmp IN
         /\ y \in NodeId /\ t.node[y].type \in Bracket /\ ~Open(t, y)
         /\ t.node[y].jmp = x
         /\ t.node[x].type \in Openers => t.node[y].type \in Closers
         /\ t.node[x].type \in Closers => t.node[y].type \in Openers

\* What is opened inside a closed loop has been closed there.
Shut(t) ==
  \A x, y \in NodeId :
    /\ t.node[x].type \in Openers /\ ~Open(t, x)
    /\ t.node[y].type \in Openers /\ x < y /\ y < t.node[x].jmp
    => ~Open(t, y) /\ t.node[y].jmp < t.node[x].jmp

\* The loader makes no comparisons.
NoneCompares(t) == \A x \in NodeId : t.node[x].type # "LT"

Sound(t, p, jst) ==
  Linked(t, p) /\ Stacked(t, jst) /\ Closed(t) /\ Shut(t) /\ NoneCompares(t)

Ready(s) ==
  s \in [t : Tree, l : LoaderState] /\ Sound(s.t, s.l.p, s.l.jst)

(***************************************************************************)
(* The operations on the tree.                                             *)
(***************************************************************************)

\* A record of four fields of the right types is a tree.
LEMMA MadeOf ==
  ASSUME NEW f \in [Link -> Link], NEW g \in [NodeId -> Link],
         NEW h \in [NodeId -> Node], NEW k \in 0 .. MaxNode
  PROVE  [next |-> f, prev |-> g, node |-> h, num |-> k] \in Tree
  BY DEF Tree

\* Edit assigns three fields and keeps the fourth.
LEMMA Edited ==
  ASSUME NEW t \in Tree, NEW f \in [Link -> Link], NEW g \in [NodeId -> Link],
         NEW h \in [NodeId -> Node]
  PROVE  /\ Edit(t, f, g, h) \in Tree
         /\ Edit(t, f, g, h).next = f /\ Edit(t, f, g, h).prev = g
         /\ Edit(t, f, g, h).node = h /\ Edit(t, f, g, h).num = t.num
  BY DEF Edit, Tree

\* A node appended behind the last one becomes the last one.
LEMMA ListGrows ==
  ASSUME NEW t, NEW p, Linked(t, p), t.num < MaxNode, NEW nd \in Node, nd.type # "FREE"
  PROVE  LET u == AddNodeAfter(t, p, nd) IN
         /\ Linked(u, t.num + 1)
         /\ u.prev = [t.prev EXCEPT ![t.num + 1] = p]
         /\ u.node = [t.node EXCEPT ![t.num + 1] = nd]
         /\ u.num = t.num + 1
  <1> DEFINE u == AddNodeAfter(t, p, nd)
             id == t.num + 1
  <1>1. id \in NodeId /\ p \in Link /\ p < id /\ t \in Tree
    BY DEF Linked, Tree
  <1>2. /\ u.next = [t.next EXCEPT ![id] = Null, ![p] = id]
        /\ u.prev = [t.prev EXCEPT ![id] = p]
        /\ u.node = [t.node EXCEPT ![id] = nd]
        /\ u.num = id
    BY DEF Linked, AddNodeAfter, SetPrev
  <1>3. u \in Tree
    <2>1. u = [ next |-> [t.next EXCEPT ![id] = Null, ![p] = id],
                prev |-> [t.prev EXCEPT ![id] = p],
                node |-> [t.node EXCEPT ![id] = nd],
                num  |-> id ]
      BY <1>2 DEF AddNodeAfter
    <2>2. t.next \in [Link -> Link] /\ t.prev \in [NodeId -> Link] /\ t.node \in [NodeId -> Node]
      BY <1>1 DEF Tree
    <2>3. [t.next EXCEPT ![id] = Null, ![p] = id] \in [Link -> Link]
      BY <1>1, <2>2
    <2>4. /\ [t.prev EXCEPT ![id] = p] \in [NodeId -> Link]
          /\ [t.node EXCEPT ![id] = nd] \in [NodeId -> Node]
      BY <1>1, <2>2
    <2>5. QED BY <1>1, <2>1, <2>3, <2>4, MadeOf
  <1>4. ~Live(t, id) /\ \A x \in NodeId : Live(u, x) <=> x = id \/ Live(t, x)
    BY <1>1, <1>2 DEF Linked, Live, Unallocated, FreeNode, Blank, Tree
  <1>5. /\ u.next[id] = Null /\ u.next[p] = id /\ u.prev[id] = p
        /\ \A x \in Link : x # id /\ x # p => u.next[x] = t.next[x]
        /\ \A x \in NodeId : x # id => u.prev[x] = t.prev[x]
    BY <1>1, <1>2 DEF Tree
  <1>6. DoublyLinked(u)
    <2>1. \A x \in Link : (x = Null \/ Live(t, x)) /\ t.next[x] # Null =>
             Live(t, t.next[x]) /\ t.prev[t.next[x]] = x
      BY DEF Linked, DoublyLinked
    <2>2. \A x \in NodeId : Live(t, x) =>
             (t.prev[x] # Null => Live(t, t.prev[x])) /\ t.next[t.prev[x]] = x
      BY DEF Linked, DoublyLinked
    <2>3. ASSUME NEW x \in Link, x = Null \/ Live(u, x), u.next[x] # Null
          PROVE  Live(u, u.next[x]) /\ u.prev[u.next[x]] = x
      BY <1>1, <1>4, <1>5, <2>1, <2>3 DEF Live
    <2>4. ASSUME NEW x \in NodeId, Live(u, x)
          PROVE  (u.prev[x] # Null => Live(u, u.prev[x])) /\ u.next[u.prev[x]] = x
      <3>1. CASE x = id
        BY <1>1, <1>4, <1>5, <3>1 DEF Linked
      <3>2. CASE x # id
        <4>1. Live(t, x) /\ u.prev[x] = t.prev[x] /\ t.prev[x] \in Link
          BY <1>1, <1>4, <1>5, <2>4, <3>2 DEF Tree
        <4>2. t.prev[x] # id /\ t.prev[x] # p
          BY <1>1, <2>2, <4>1 DEF Linked
        <4>3. QED BY <1>4, <1>5, <2>2, <4>1, <4>2
      <3>3. QED BY <3>1, <3>2
    <2>5. QED BY <2>3, <2>4 DEF DoublyLinked
  <1>7. Unallocated(u)
    <2>1. \A x \in NodeId : x > t.num => t.node[x] = FreeNode
      BY DEF Linked, Unallocated
    <2>2. ASSUME NEW x \in NodeId, x > u.num  PROVE u.node[x] = FreeNode
      BY <1>1, <1>2, <2>1, <2>2 DEF Tree
    <2>3. QED BY <2>2 DEF Unallocated
  <1>8. \A x \in NodeId : Live(u, x) => x <= id /\ u.prev[x] < x
    BY <1>1, <1>4, <1>5 DEF Linked
  <1>9. \A x, y \in NodeId : Live(u, x) /\ Live(u, y) /\ x < y => x <= u.prev[y]
    BY <1>1, <1>4, <1>5 DEF Linked
  <1>10. \A x \in Link : (x = Null \/ Live(u, x)) /\ u.next[x] = Null => x = id
    BY <1>1, <1>4, <1>5 DEF Linked, Live
  <1>11. QED BY <1>1, <1>2, <1>3, <1>4, <1>5, <1>6, <1>7, <1>8, <1>9, <1>10 DEF Linked

\* The contents of nodes may change, as long as none is freed or allocated.
LEMMA ListStays ==
  ASSUME NEW t, NEW p, Linked(t, p), NEW f \in [NodeId -> Node],
         \A x \in NodeId : f[x].type = "FREE" <=> t.node[x].type = "FREE",
         \A x \in NodeId : x > t.num => f[x] = FreeNode
  PROVE  Linked([t EXCEPT !.node = f], p)
  <1> DEFINE u == [t EXCEPT !.node = f]
  <1>1. u \in Tree /\ u.next = t.next /\ u.prev = t.prev /\ u.num = t.num /\ u.node = f
    BY DEF Linked, Tree
  <1>2. \A x : Live(u, x) <=> Live(t, x)
    BY <1>1 DEF Live
  <1>3. DoublyLinked(u)
    BY <1>1, <1>2 DEF Linked, DoublyLinked
  <1>4. Unallocated(u)
    BY <1>1 DEF Unallocated
  <1>5. QED BY <1>1, <1>2, <1>3, <1>4 DEF Linked

\* The last node may be taken away again, if it is no bracket.
Shortened(t, p) == Freed([t EXCEPT !.next[t.prev[p]] = Null], p)

\* Freeing the last node leaves a list that ends with the one before it.
LEMMA ListShrinks ==
  ASSUME NEW t, NEW p \in NodeId, Linked(t, p)
  PROVE  /\ Linked(Shortened(t, p), t.prev[p])
         /\ Shortened(t, p).node = [t.node EXCEPT ![p] = FreeNode]
         /\ \A x \in NodeId : x # p => Shortened(t, p).prev[x] = t.prev[x]
         /\ Shortened(t, p).num = t.num
  <1> DEFINE u == Shortened(t, p)
             b == t.prev[p]
  <1>1. t \in Tree /\ Live(t, p) /\ b \in Link /\ b < p /\ p <= t.num /\ t.num <= MaxNode
    BY DEF Linked, Tree
  <1>2. FreeNode \in Node /\ FreeNode.type = "FREE"
    BY DEF FreeNode, Blank, Node, Token
  <1>3. /\ u \in Tree
        /\ u.next = [t.next EXCEPT ![b] = Null, ![p] = Null]
        /\ u.prev = [t.prev EXCEPT ![p] = Null]
        /\ u.node = [t.node EXCEPT ![p] = FreeNode]
        /\ u.num = t.num
    <2> DEFINE v == [t EXCEPT !.next[b] = Null]
               f == [v.next EXCEPT ![p] = Null]
               g == [v.prev EXCEPT ![p] = Null]
               h == [v.node EXCEPT ![p] = FreeNode]
    <2>1. /\ v \in Tree /\ v.next = [t.next EXCEPT ![b] = Null]
          /\ v.prev = t.prev /\ v.node = t.node /\ v.num = t.num
      BY <1>1 DEF Tree
    <2>2. f \in [Link -> Link] /\ g \in [NodeId -> Link] /\ h \in [NodeId -> Node]
      BY <1>1, <1>2, <2>1 DEF Tree
    <2>3. u = Edit(v, f, g, h)
      BY DEF Shortened, Freed
    <2> HIDE DEF f, g, h, v
    <2>4. /\ u \in Tree /\ u.next = f /\ u.prev = g /\ u.node = h /\ u.num = v.num
      BY <2>1, <2>2, <2>3, Edited
    <2>5. QED BY <2>1, <2>4 DEF f, g, h
  <1>6. \A x \in NodeId : Live(u, x) <=> x # p /\ Live(t, x)
    BY <1>1, <1>2, <1>3 DEF Live, Tree
  <1>7. /\ \A x \in Link : x # b /\ x # p => u.next[x] = t.next[x]
        /\ u.next[b] = Null
        /\ \A x \in NodeId : x # p => u.prev[x] = t.prev[x]
    BY <1>1, <1>3 DEF Tree
  <1>8. /\ \A x \in Link : (x = Null \/ Live(t, x)) /\ t.next[x] # Null =>
             Live(t, t.next[x]) /\ t.prev[t.next[x]] = x
        /\ \A x \in NodeId : Live(t, x) =>
             (t.prev[x] # Null => Live(t, t.prev[x])) /\ t.next[t.prev[x]] = x
    BY DEF Linked, DoublyLinked
  <1>9. DoublyLinked(u)
    <2>1. ASSUME NEW x \in Link, x = Null \/ Live(u, x), u.next[x] # Null
          PROVE  Live(u, u.next[x]) /\ u.prev[u.next[x]] = x
      <3>1. x # b /\ x # p /\ u.next[x] = t.next[x] /\ (x = Null \/ Live(t, x))
        BY <1>1, <1>6, <1>7, <2>1
      <3>2. t.next[x] \in NodeId /\ t.next[x] # p
        BY <1>1, <1>8, <2>1, <3>1 DEF Tree
      <3>3. QED BY <1>6, <1>7, <1>8, <2>1, <3>1, <3>2
    <2>2. ASSUME NEW x \in NodeId, Live(u, x)
          PROVE  (u.prev[x] # Null => Live(u, u.prev[x])) /\ u.next[u.prev[x]] = x
      <3>1. x # p /\ Live(t, x) /\ u.prev[x] = t.prev[x] /\ t.prev[x] \in Link
        BY <1>1, <1>6, <1>7, <2>2 DEF Tree
      <3>2. t.next[t.prev[x]] = x /\ t.next[b] = p /\ t.next[p] = Null
        BY <1>1, <1>8, <3>1 DEF Linked
      <3>3. t.prev[x] # b /\ t.prev[x] # p
        BY <3>1, <3>2
      <3>4. QED BY <1>6, <1>7, <1>8, <3>1, <3>2, <3>3
    <2>3. QED BY <2>1, <2>2 DEF DoublyLinked
  <1>10. Unallocated(u)
    <2>1. \A x \in NodeId : x > t.num => t.node[x] = FreeNode
      BY DEF Linked, Unallocated
    <2>2. ASSUME NEW x \in NodeId, x > u.num  PROVE u.node[x] = FreeNode
      BY <1>1, <1>3, <2>1, <2>2 DEF Tree
    <2>3. QED BY <2>2 DEF Unallocated
  <1>11. b = Null \/ Live(u, b)
    BY <1>1, <1>6, <1>8
  <1>12. \A x \in NodeId : Live(u, x) => x <= b /\ u.prev[x] < x
    BY <1>1, <1>6, <1>7 DEF Linked
  <1>13. \A x, y \in NodeId : Live(u, x) /\ Live(u, y) /\ x < y => x <= u.prev[y]
    BY <1>6, <1>7 DEF Linked
  <1>14. b \in 0 .. u.num
    <2>1. t.num \in Nat /\ u.num = t.num /\ b \in Nat /\ b < p /\ p <= t.num
      BY <1>1, <1>3 DEF Tree
    <2>2. QED BY <2>1
  <1>15. \A x \in Link : (x = Null \/ Live(u, x)) /\ u.next[x] = Null => x = b
    BY <1>1, <1>6, <1>7 DEF Linked, Live
  <1>16. Linked(u, b)
    BY <1>3, <1>7, <1>9, <1>10, <1>11, <1>12, <1>13, <1>14, <1>15 DEF Linked
  <1>17. QED BY <1>3, <1>7, <1>16

(***************************************************************************)
(* The brackets.                                                           *)
(***************************************************************************)

\* They depend on the brackets' contents and on what precedes the closing.
LEMMA BracketsStay ==
  ASSUME NEW t \in Tree, NEW u, NEW jst, Stacked(t, jst), Closed(t), Shut(t),
         \A x \in NodeId : u.node[x].type \in Bracket <=> t.node[x].type \in Bracket,
         \A x \in NodeId : t.node[x].type \in Bracket =>
           u.node[x] = t.node[x] /\ u.prev[x] = t.prev[x]
  PROVE  Stacked(u, jst) /\ Closed(u) /\ Shut(u)
  <1>1. \A x \in NodeId : Open(u, x) <=> Open(t, x)
    BY DEF Open, Bracket
  <1>2. \A x \in NodeId : Open(t, x) => t.node[x].type \in Bracket
    BY DEF Open, Bracket
  <1>3. Stacked(u, jst)
    <2>1. jst \in Link /\ (jst # Null => Open(u, jst))
      BY <1>1 DEF Stacked
    <2>2. ASSUME NEW x \in NodeId, Open(u, x)
          PROVE  x <= jst /\ (u.node[x].jmp = Null \/ Open(u, u.node[x].jmp))
      <3>1. /\ x <= jst /\ (t.node[x].jmp = Null \/ Open(t, t.node[x].jmp))
            /\ u.node[x] = t.node[x]
        BY <1>1, <1>2, <2>2 DEF Stacked
      <3>2. t.node[x].jmp \in Link
        BY DEF Tree, Node
      <3>3. QED BY <1>1, <2>2, <3>1, <3>2
    <2>3. QED BY <1>1, <1>2, <2>1, <2>2 DEF Stacked
  <1>4. Closed(u)
    BY <1>1 DEF Closed, Bracket
  <1>5. \A x \in NodeId : u.node[x].type \in Openers =>
          t.node[x].type \in Openers /\ u.node[x].jmp = t.node[x].jmp
    BY DEF Bracket
  <1>6. Shut(u)
    BY <1>1, <1>5 DEF Shut
  <1>7. QED BY <1>3, <1>4, <1>6

\* Any node but a bracket may be appended,
LEMMA Appended ==
  ASSUME NEW t, NEW p, NEW jst, Sound(t, p, jst), t.num < MaxNode,
         NEW nd \in Node, nd.type # "FREE", nd.type \notin Bracket, nd.type # "LT"
  PROVE  Sound(AddNodeAfter(t, p, nd), t.num + 1, jst)
  <1> DEFINE u == AddNodeAfter(t, p, nd)
             id == t.num + 1
  <1>1. /\ Linked(u, id)
        /\ u.prev = [t.prev EXCEPT ![id] = p] /\ u.node = [t.node EXCEPT ![id] = nd]
    BY ListGrows DEF Sound
  <1>2. t \in Tree /\ id \in NodeId /\ t.node[id].type = "FREE"
    <2>1. t \in Tree /\ Unallocated(t) /\ t.num \in Nat /\ id \in NodeId
      BY DEF Sound, Linked, Tree
    <2>2. QED BY <2>1 DEF Unallocated, FreeNode, Blank
  <1>3. "FREE" \notin Bracket
    BY DEF Bracket, Openers, Closers
  <1>4. \A x \in NodeId : x # id => u.node[x] = t.node[x] /\ u.prev[x] = t.prev[x]
    BY <1>1, <1>2 DEF Tree
  <1>5. u.node[id].type \notin Bracket /\ u.node[id].type # "LT"
    BY <1>1, <1>2 DEF Tree
  <1> HIDE DEF u, id
  <1>6. \A x \in NodeId : u.node[x].type \in Bracket <=> t.node[x].type \in Bracket
    BY <1>2, <1>3, <1>4, <1>5
  <1>7. \A x \in NodeId : t.node[x].type \in Bracket =>
           u.node[x] = t.node[x] /\ u.prev[x] = t.prev[x]
    BY <1>2, <1>3, <1>4
  <1>8. Stacked(u, jst) /\ Closed(u) /\ Shut(u)
    BY <1>2, <1>6, <1>7, BracketsStay DEF Sound
  <1>9. NoneCompares(u)
    BY <1>4, <1>5 DEF Sound, NoneCompares
  <1>10. QED BY <1>1, <1>8, <1>9 DEF Sound, u, id

\* its count may change,
LEMMA Recounted ==
  ASSUME NEW t, NEW p \in NodeId, NEW jst, Sound(t, p, jst), NEW c \in Int,
         t.node[p].type \notin Bracket
  PROVE  Sound([t EXCEPT !.node[p].count = c], p, jst)
  <1> DEFINE f == [t.node EXCEPT ![p].count = c]
             u == [t EXCEPT !.node = f]
  <1>1. t \in Tree /\ Live(t, p) /\ Unallocated(t) /\ p <= t.num /\ t.num \in Nat
    BY DEF Sound, Linked, Tree
  <1>2. [t EXCEPT !.node[p].count = c] = u
    BY <1>1 DEF Tree
  <1>3. /\ f \in [NodeId -> Node] /\ f[p].type = t.node[p].type
        /\ \A x \in NodeId : x # p => f[x] = t.node[x]
    BY <1>1 DEF Tree, Node
  <1>4. u.node = f /\ u.prev = t.prev
    BY <1>1 DEF Tree
  <1> HIDE DEF f
  <1>5. Linked(u, p)
    <2>1. \A x \in NodeId : x > t.num => f[x] = FreeNode
      BY <1>1, <1>3 DEF Unallocated
    <2>2. \A x \in NodeId : f[x].type = "FREE" <=> t.node[x].type = "FREE"
      BY <1>3
    <2>3. QED BY <1>3, <2>1, <2>2, ListStays DEF Sound
  <1> HIDE DEF u
  <1>6. Stacked(u, jst) /\ Closed(u) /\ Shut(u)
    <2>1. /\ \A x \in NodeId : u.node[x].type \in Bracket <=> t.node[x].type \in Bracket
          /\ \A x \in NodeId : t.node[x].type \in Bracket =>
               u.node[x] = t.node[x] /\ u.prev[x] = t.prev[x]
      BY <1>3, <1>4
    <2>2. QED BY <1>1, <2>1, BracketsStay DEF Sound
  <1>7. NoneCompares(u)
    BY <1>3, <1>4 DEF Sound, NoneCompares
  <1>8. QED BY <1>2, <1>5, <1>6, <1>7 DEF Sound

\* and it may be taken back.
LEMMA TakenBack ==
  ASSUME NEW t, NEW p \in NodeId, NEW jst, Sound(t, p, jst),
         t.node[p].type \notin Bracket
  PROVE  Sound(Shortened(t, p), t.prev[p], jst)
  <1> DEFINE u == Shortened(t, p)
  <1>1. /\ Linked(u, t.prev[p]) /\ u.node = [t.node EXCEPT ![p] = FreeNode]
        /\ \A x \in NodeId : x # p => u.prev[x] = t.prev[x]
    BY ListShrinks DEF Sound
  <1>2. t \in Tree
    BY DEF Sound, Linked
  <1>3. FreeNode.type \notin Bracket /\ FreeNode.type # "LT"
    BY DEF FreeNode, Blank, Bracket, Openers, Closers
  <1>4. \A x \in NodeId : IF x = p THEN u.node[x] = FreeNode ELSE u.node[x] = t.node[x]
    BY <1>1, <1>2 DEF Tree
  <1> HIDE DEF u
  <1>5. /\ \A x \in NodeId : u.node[x].type \in Bracket <=> t.node[x].type \in Bracket
        /\ \A x \in NodeId : t.node[x].type \in Bracket =>
             u.node[x] = t.node[x] /\ u.prev[x] = t.prev[x]
    BY <1>1, <1>3, <1>4
  <1>6. Stacked(u, jst) /\ Closed(u) /\ Shut(u)
    BY <1>2, <1>5, BracketsStay DEF Sound
  <1>7. NoneCompares(u)
    BY <1>3, <1>4 DEF Sound, NoneCompares
  <1>8. QED BY <1>1, <1>6, <1>7 DEF Sound, u

\* What the stack is for: its top is the last bracket that is open.
LEMMA TopOpen ==
  ASSUME NEW t, NEW p, NEW jst, Sound(t, p, jst), jst # Null
  PROVE  /\ jst \in NodeId /\ Live(t, jst) /\ jst <= p /\ p \in NodeId
         /\ t.node[jst].type \in Openers /\ t.node[jst].jmp < jst
         /\ t.node[jst].jmp \in Link
  <1>1. jst \in NodeId /\ Open(t, jst)
    BY DEF Sound, Stacked
  <1>2. t.node[jst].type # "FREE"
    BY <1>1 DEF Open, Openers
  <1>3. Live(t, jst)
    BY <1>1, <1>2 DEF Live
  <1>4. jst <= p /\ p \in 0 .. t.num /\ t.num \in 0 .. MaxNode /\ t \in Tree
    BY <1>1, <1>3 DEF Sound, Linked, Tree
  <1>5. p \in NodeId
    BY <1>1, <1>4
  <1>6. t.node[jst].jmp \in Link
    BY <1>1, <1>4 DEF Tree, Node
  <1>7. QED BY <1>1, <1>3, <1>4, <1>5, <1>6 DEF Open

\* A loop is opened.
LEMMA Opened ==
  ASSUME NEW t, NEW p, NEW jst, Sound(t, p, jst), t.num < MaxNode
  PROVE  Sound(AddNodeAfter(t, p, [Blank("WHL") EXCEPT !.jmp = jst]),
               t.num + 1, t.num + 1)
  <1> DEFINE nd == [Blank("WHL") EXCEPT !.jmp = jst]
             u == AddNodeAfter(t, p, nd)
             id == t.num + 1
  <1>1. t \in Tree /\ id \in NodeId /\ jst \in Link /\ t.node[id] = FreeNode
    <2>1. t \in Tree /\ Unallocated(t) /\ t.num \in Nat /\ id \in NodeId /\ jst \in Link
      BY DEF Sound, Linked, Stacked, Tree
    <2>2. QED BY <2>1 DEF Unallocated
  <1>2. nd \in Node /\ nd.type = "WHL" /\ nd.jmp = jst /\ nd.offset = 0
    BY <1>1 DEF Blank, Node, Token, Bracket, Openers
  <1> HIDE DEF nd
  <1>3. /\ Linked(u, id)
        /\ u.prev = [t.prev EXCEPT ![id] = p] /\ u.node = [t.node EXCEPT ![id] = nd]
    BY <1>2, ListGrows DEF Sound
  <1>4. /\ u.node[id] = nd
        /\ \A x \in NodeId : x # id => u.node[x] = t.node[x] /\ u.prev[x] = t.prev[x]
    BY <1>1, <1>3 DEF Tree
  <1>5. jst < id
    <2>1. CASE jst = Null
      BY <1>1, <2>1
    <2>2. CASE jst # Null
      <3>1. jst <= p /\ p \in 0 .. t.num /\ t.num \in Nat
        BY <2>2, TopOpen DEF Sound, Linked, Tree
      <3>2. QED BY <1>1, <3>1
    <2>3. QED BY <2>1, <2>2
  <1> HIDE DEF u, id
  <1>6. FreeNode.type \notin Bracket
    BY DEF FreeNode, Blank, Bracket, Openers, Closers
  <1>7. \A x \in NodeId : x # id => (Open(u, x) <=> Open(t, x))
    BY <1>4 DEF Open
  <1>8. Open(u, id) /\ ~Open(t, id)
    BY <1>1, <1>2, <1>4, <1>5, <1>6 DEF Open, Openers, Bracket
  <1>9. /\ \A x \in NodeId : Open(t, x) =>
             x <= jst /\ (t.node[x].jmp = Null \/ Open(t, t.node[x].jmp))
        /\ \A x, y \in NodeId : Open(t, x) /\ Open(t, y) /\ y < x => y <= t.node[x].jmp
        /\ jst # Null => Open(t, jst)
    BY DEF Sound, Stacked
  <1>10. \A x \in NodeId : t.node[x].jmp \in Link
    BY <1>1 DEF Tree, Node
  <1>11. Stacked(u, id)
    <2>1. id \in Link /\ id # Null
      BY <1>1
    <2>2. ASSUME NEW x \in NodeId, Open(u, x)
          PROVE  x <= id /\ (u.node[x].jmp = Null \/ Open(u, u.node[x].jmp))
      <3>1. CASE x = id
        BY <1>1, <1>2, <1>4, <1>5, <1>7, <1>9, <3>1
      <3>2. CASE x # id
        <4>1. Open(t, x) /\ x <= jst /\ u.node[x] = t.node[x]
          BY <1>4, <1>7, <1>9, <2>2, <3>2
        <4>2. CASE t.node[x].jmp = Null
          BY <1>1, <1>5, <4>1, <4>2
        <4>3. CASE t.node[x].jmp # Null
          BY <1>1, <1>5, <1>7, <1>8, <1>9, <1>10, <4>1, <4>3
        <4>4. QED BY <4>2, <4>3
      <3>3. QED BY <3>1, <3>2
    <2>3. ASSUME NEW x \in NodeId, NEW y \in NodeId, Open(u, x), Open(u, y), y < x
          PROVE  y <= u.node[x].jmp
      <3>1. CASE x = id
        BY <1>2, <1>4, <1>7, <1>9, <2>3, <3>1
      <3>2. CASE x # id
        <4>1. Open(t, x) /\ x <= jst /\ u.node[x] = t.node[x]
          BY <1>4, <1>7, <1>9, <2>3, <3>2
        <4>2. y # id
          BY <1>1, <1>5, <2>3, <4>1
        <4>3. QED BY <1>7, <1>9, <2>3, <4>1, <4>2
      <3>3. QED BY <3>1, <3>2
    <2>4. QED BY <1>8, <2>1, <2>2, <2>3 DEF Stacked
  <1>12. Closed(u)
    <2>1. ASSUME NEW x \in NodeId, u.node[x].type \in Bracket
          PROVE  /\ u.node[x].offset = 0
                 /\ u.node[x].type \in Closers => u.prev[x] # Null
      BY <1>2, <1>4, <2>1 DEF Sound, Closed, Closers
    <2>2. ASSUME NEW x \in NodeId, u.node[x].type \in Bracket, ~Open(u, x),
                 NEW y, y = u.node[x].jmp
          PROVE  /\ y \in NodeId /\ u.node[y].type \in Bracket /\ ~Open(u, y)
                 /\ u.node[y].jmp = x
                 /\ u.node[x].type \in Openers => u.node[y].type \in Closers
                 /\ u.node[x].type \in Closers => u.node[y].type \in Openers
      <3>1. x # id /\ u.node[x] = t.node[x] /\ ~Open(t, x)
        BY <1>4, <1>7, <1>8, <2>2
      <3>2. /\ y \in NodeId /\ t.node[y].type \in Bracket /\ ~Open(t, y)
            /\ t.node[y].jmp = x
            /\ t.node[x].type \in Openers => t.node[y].type \in Closers
            /\ t.node[x].type \in Closers => t.node[y].type \in Openers
        BY <2>2, <3>1 DEF Sound, Closed
      <3>3. y # id
        BY <1>1, <1>6, <3>2
      <3>4. QED BY <1>4, <1>7, <3>1, <3>2, <3>3
    <2>3. QED BY <2>1, <2>2 DEF Closed
  <1>13. Shut(u)
    <2>1. SUFFICES ASSUME NEW x \in NodeId, u.node[x].type \in Openers, ~Open(u, x),
                          NEW y \in NodeId, u.node[y].type \in Openers,
                          x < y, y < u.node[x].jmp
                   PROVE  ~Open(u, y) /\ u.node[y].jmp < u.node[x].jmp
      BY DEF Shut
    <2>2. x # id /\ u.node[x] = t.node[x] /\ ~Open(t, x)
      BY <1>4, <1>7, <1>8, <2>1
    <2>3. t.node[x].jmp \in NodeId /\ t.node[t.node[x].jmp].type \in Bracket
      BY <2>1, <2>2 DEF Sound, Closed, Bracket
    <2>4. t.node[x].jmp <= t.num /\ t.num \in Nat
      BY <1>1, <1>6, <2>3 DEF Sound, Linked, Unallocated, Tree
    <2>5. y # id
      BY <2>1, <2>2, <2>3, <2>4 DEF id
    <2>6. QED BY <1>4, <1>7, <2>1, <2>2, <2>5 DEF Sound, Shut
  <1>14. NoneCompares(u)
    BY <1>2, <1>4 DEF Sound, NoneCompares
  <1>15. QED BY <1>3, <1>11, <1>12, <1>13, <1>14 DEF Sound, u, id, nd

\* The innermost open loop is closed.
LEMMA ClosedOff ==
  ASSUME NEW t, NEW p, NEW jst, Sound(t, p, jst), jst # Null, t.num < MaxNode,
         NEW tok \in Closers
  PROVE  LET u == AddNodeAfter(t, p, [Blank(tok) EXCEPT !.jmp = jst]) IN
         /\ u.node[jst] = t.node[jst]
         /\ Sound([u EXCEPT !.node[jst].jmp = t.num + 1], t.num + 1, t.node[jst].jmp)
  <1> DEFINE nd == [Blank(tok) EXCEPT !.jmp = jst]
             u == AddNodeAfter(t, p, nd)
             id == t.num + 1
             f == [u.node EXCEPT ![jst].jmp = id]
             v == [u EXCEPT !.node = f]
             out == t.node[jst].jmp
  <1>1. t \in Tree /\ id \in NodeId /\ t.node[id] = FreeNode /\ p \in 0 .. t.num /\ t.num \in Nat
    <2>1. t \in Tree /\ Unallocated(t) /\ t.num \in Nat /\ id \in NodeId /\ p \in 0 .. t.num
      BY DEF Sound, Linked, Stacked, Tree
    <2>2. QED BY <2>1 DEF Unallocated
  <1>2. /\ jst \in NodeId /\ Live(t, jst) /\ jst <= p /\ p \in NodeId /\ out \in Link
        /\ t.node[jst].type \in Openers /\ out < jst
    BY TopOpen
  <1>3. jst < id /\ jst # id
    BY <1>1, <1>2
  <1>4. /\ nd \in Node /\ nd.type = tok /\ nd.jmp = jst /\ nd.offset = 0
        /\ tok # "FREE" /\ tok # "LT"
    BY <1>2 DEF Blank, Node, Token, Bracket, Closers
  <1> HIDE DEF nd
  <1>5. /\ Linked(u, id) /\ u.num = id /\ u \in Tree
        /\ u.prev = [t.prev EXCEPT ![id] = p] /\ u.node = [t.node EXCEPT ![id] = nd]
    <2>1. /\ Linked(u, id) /\ u.num = id
          /\ u.prev = [t.prev EXCEPT ![id] = p] /\ u.node = [t.node EXCEPT ![id] = nd]
      BY <1>4, ListGrows DEF Sound
    <2>2. Linked(u, id) => u \in Tree
      BY DEF Linked
    <2>3. QED BY <2>1, <2>2
  <1>6. /\ u.node[id] = nd /\ u.prev[id] = p /\ u.node[jst] = t.node[jst]
        /\ \A x \in NodeId : x # id => u.node[x] = t.node[x] /\ u.prev[x] = t.prev[x]
    BY <1>1, <1>2, <1>3, <1>5 DEF Tree
  <1> HIDE DEF u, id
  <1>7. /\ f \in [NodeId -> Node]
        /\ f[jst].type = t.node[jst].type /\ f[jst].offset = t.node[jst].offset
        /\ f[jst].jmp = id /\ f[id] = nd
        /\ \A x \in NodeId : x # id /\ x # jst => f[x] = t.node[x]
    <2>1. u.node \in [NodeId -> Node] /\ id \in Link
      BY <1>1, <1>5 DEF Tree
    <2>2. u.node[jst] \in Node /\ [u.node[jst] EXCEPT !.jmp = id] \in Node
      BY <1>2, <2>1 DEF Node
    <2>3. f[jst] = [u.node[jst] EXCEPT !.jmp = id]
      BY <1>2, <2>1
    <2>4. f \in [NodeId -> Node]
      BY <1>2, <2>1, <2>2
    <2>5. /\ f[jst].type = u.node[jst].type /\ f[jst].offset = u.node[jst].offset
          /\ f[jst].jmp = id
      BY <2>2, <2>3 DEF Node
    <2>6. \A x \in NodeId : x # jst => f[x] = u.node[x]
      BY <1>2, <2>1
    <2>7. QED BY <1>1, <1>3, <1>6, <2>4, <2>5, <2>6
  <1>8. v.node = f /\ v.prev = u.prev /\ [u EXCEPT !.node[jst].jmp = id] = v
    BY <1>5 DEF Tree
  <1> HIDE DEF f
  <1>9. Linked(v, id)
    <2>1. \A x \in NodeId : x > u.num => u.node[x] = FreeNode
      BY <1>5 DEF Linked, Unallocated
    <2>2. \A x \in NodeId : x > u.num => f[x] = FreeNode
      BY <1>1, <1>3, <1>5, <1>6, <1>7, <2>1
    <2>3. \A x \in NodeId : f[x].type = "FREE" <=> u.node[x].type = "FREE"
      BY <1>6, <1>7
    <2>4. Linked(u, id) /\ f \in [NodeId -> Node]
      BY <1>5, <1>7
    <2>5. QED BY <2>2, <2>3, <2>4, ListStays
  <1> HIDE DEF v
  <1>10. FreeNode.type \notin Bracket /\ tok \notin Openers /\ tok \in Bracket
         /\ Openers \cap Closers = {}
    BY DEF FreeNode, Blank, Bracket, Openers, Closers
  <1>11. \A x \in NodeId : Open(v, x) <=> x # jst /\ Open(t, x)
    <2>1. ~Open(v, jst)
      BY <1>1, <1>2, <1>3, <1>7, <1>8 DEF Open
    <2>2. ~Open(v, id) /\ ~Open(t, id)
      BY <1>1, <1>4, <1>7, <1>8, <1>10 DEF Open, Bracket
    <2>3. \A x \in NodeId : x # id /\ x # jst => (Open(v, x) <=> Open(t, x))
      BY <1>7, <1>8 DEF Open
    <2>4. QED BY <2>1, <2>2, <2>3
  <1>12. /\ \A x \in NodeId : Open(t, x) =>
             x <= jst /\ (t.node[x].jmp = Null \/ Open(t, t.node[x].jmp))
         /\ \A x, y \in NodeId : Open(t, x) /\ Open(t, y) /\ y < x => y <= t.node[x].jmp
         /\ Open(t, jst) /\ (out = Null \/ Open(t, out))
    BY <1>2 DEF Sound, Stacked
  <1>13. \A x \in NodeId : t.node[x].jmp \in Link
    BY <1>1 DEF Tree, Node
  <1>14. Stacked(v, out)
    <2>1. out \in Link /\ (out # Null => Open(v, out))
      BY <1>2, <1>11, <1>12
    <2>2. ASSUME NEW x \in NodeId, Open(v, x)
          PROVE  x <= out /\ (v.node[x].jmp = Null \/ Open(v, v.node[x].jmp))
      <3>1. Open(t, x) /\ x # jst /\ x < jst /\ x # id /\ v.node[x] = t.node[x]
        BY <1>1, <1>2, <1>3, <1>7, <1>8, <1>11, <1>12, <2>2
      <3>2. x <= out
        BY <1>2, <1>12, <3>1
      <3>3. CASE t.node[x].jmp = Null
        BY <3>1, <3>2, <3>3
      <3>4. CASE t.node[x].jmp # Null
        <4>1. t.node[x].jmp < x
          BY <3>1 DEF Open
        <4>2. t.node[x].jmp \in NodeId /\ t.node[x].jmp # jst
          BY <1>2, <1>13, <3>1, <3>4, <4>1
        <4>3. QED BY <1>11, <1>12, <3>1, <3>2, <3>4, <4>2
      <3>5. QED BY <3>3, <3>4
    <2>3. ASSUME NEW x \in NodeId, NEW y \in NodeId, Open(v, x), Open(v, y), y < x
          PROVE  y <= v.node[x].jmp
      <3>1. x # jst /\ x # id /\ Open(t, x) /\ Open(t, y)
        BY <1>1, <1>2, <1>3, <1>11, <1>12, <2>3
      <3>2. QED BY <1>7, <1>8, <1>12, <2>3, <3>1
    <2>4. QED BY <2>1, <2>2, <2>3 DEF Stacked
  <1>15. Closed(v)
    <2>1. ASSUME NEW x \in NodeId, v.node[x].type \in Bracket
          PROVE  /\ v.node[x].offset = 0
                 /\ v.node[x].type \in Closers => v.prev[x] # Null
      <3>1. CASE x = id
        BY <1>1, <1>2, <1>4, <1>6, <1>7, <1>8, <3>1
      <3>2. CASE x = jst
        <4>1. t.node[jst].offset = 0
          BY <1>2 DEF Sound, Closed, Bracket
        <4>2. QED BY <1>2, <1>7, <1>8, <1>10, <3>2, <4>1
      <3>3. CASE x # id /\ x # jst
        BY <1>6, <1>7, <1>8, <2>1, <3>3 DEF Sound, Closed
      <3>4. QED BY <3>1, <3>2, <3>3
    <2>2. ASSUME NEW x \in NodeId, v.node[x].type \in Bracket, ~Open(v, x),
                 NEW y, y = v.node[x].jmp
          PROVE  /\ y \in NodeId /\ v.node[y].type \in Bracket /\ ~Open(v, y)
                 /\ v.node[y].jmp = x
                 /\ v.node[x].type \in Openers => v.node[y].type \in Closers
                 /\ v.node[x].type \in Closers => v.node[y].type \in Openers
      <3>1. CASE x = id
        BY <1>2, <1>4, <1>7, <1>8, <1>10, <1>11, <2>2, <3>1 DEF Bracket
      <3>2. CASE x = jst
        BY <1>1, <1>2, <1>3, <1>4, <1>7, <1>8, <1>10, <1>11, <1>12, <2>2, <3>2
      <3>3. CASE x # id /\ x # jst
        <4>1. v.node[x] = t.node[x] /\ ~Open(t, x)
          BY <1>7, <1>8, <1>11, <2>2, <3>3
        <4>2. /\ y \in NodeId /\ t.node[y].type \in Bracket /\ ~Open(t, y)
              /\ t.node[y].jmp = x
              /\ t.node[x].type \in Openers => t.node[y].type \in Closers
              /\ t.node[x].type \in Closers => t.node[y].type \in Openers
          BY <2>2, <4>1 DEF Sound, Closed
        <4>3. y # id /\ y # jst
          BY <1>1, <1>10, <1>12, <4>2
        <4>4. QED BY <1>7, <1>8, <1>11, <4>1, <4>2, <4>3
      <3>4. QED BY <3>1, <3>2, <3>3
    <2>3. QED BY <2>1, <2>2 DEF Closed
  <1>16. Shut(v)
    <2>1. SUFFICES ASSUME NEW x \in NodeId, v.node[x].type \in Openers, ~Open(v, x),
                          NEW y \in NodeId, v.node[y].type \in Openers,
                          x < y, y < v.node[x].jmp
                   PROVE  ~Open(v, y) /\ v.node[y].jmp < v.node[x].jmp
      BY DEF Shut
    <2>2. \A z \in NodeId : v.node[z].type \in Openers =>
            /\ z # id /\ t.node[z].type \in Openers
            /\ z # jst => v.node[z] = t.node[z] /\ (Open(v, z) <=> Open(t, z))
            /\ t.node[z].jmp < id
      <3>1. SUFFICES ASSUME NEW z \in NodeId, v.node[z].type \in Openers
                     PROVE  /\ z # id /\ t.node[z].type \in Openers
                            /\ z # jst => v.node[z] = t.node[z] /\ (Open(v, z) <=> Open(t, z))
                            /\ t.node[z].jmp < id
        OBVIOUS
      <3>2. z # id /\ t.node[z].type \in Openers
        BY <1>2, <1>4, <1>7, <1>8, <1>10, <3>1
      <3>3. t.node[z].jmp < id
        <4>1. CASE Open(t, z)
          <5>1. t.node[z].jmp < z /\ z <= jst
            BY <1>12, <4>1 DEF Open
          <5>2. t.node[z].jmp \in Nat /\ jst < id /\ id \in Nat /\ jst \in Nat
            BY <1>1, <1>2, <1>3, <1>13
          <5>3. QED BY <5>1, <5>2
        <4>2. CASE ~Open(t, z)
          <5>1. t.node[z].jmp \in NodeId /\ t.node[t.node[z].jmp].type \in Bracket
            BY <3>2, <4>2 DEF Sound, Closed, Bracket
          <5>2. t.node[z].jmp <= t.num
            BY <1>1, <1>10, <5>1 DEF Sound, Linked, Unallocated
          <5>3. QED BY <1>1, <5>1, <5>2 DEF id
        <4>3. QED BY <4>1, <4>2
      <3>4. QED BY <1>7, <1>8, <1>11, <3>2, <3>3
    <2>3. v.node[jst].jmp = id /\ ~Open(v, jst)
      BY <1>2, <1>7, <1>8, <1>11
    <2>4. CASE x = jst
      <3>1. y # jst /\ ~Open(t, y)
        BY <1>2, <1>12, <2>1, <2>4
      <3>2. QED BY <2>1, <2>2, <2>3, <2>4, <3>1
    <2>5. CASE x # jst
      <3>1. v.node[x] = t.node[x] /\ ~Open(t, x)
        BY <2>1, <2>2, <2>5
      <3>2. ~Open(t, y) /\ t.node[y].jmp < t.node[x].jmp
        BY <2>1, <2>2, <3>1 DEF Sound, Shut
      <3>3. y # jst
        BY <1>12, <3>2
      <3>4. QED BY <2>1, <2>2, <3>1, <3>2, <3>3
    <2>6. QED BY <2>4, <2>5
  <1>17. NoneCompares(v)
    <2>1. f[id].type # "LT" /\ f[jst].type # "LT"
      BY <1>2, <1>4, <1>7 DEF Sound, NoneCompares
    <2> QED BY <1>7, <1>8, <2>1 DEF Sound, NoneCompares
  <1>18. QED
    BY <1>6, <1>8, <1>9, <1>14, <1>15, <1>16, <1>17 DEF Sound, u, id, nd

\* A loop that ends the list is open, and the innermost one.
LEMMA LastIsTop ==
  ASSUME NEW t, NEW p \in NodeId, NEW jst, Sound(t, p, jst),
         t.node[p].type \in Openers
  PROVE  jst = p
  <1>1. t \in Tree /\ (\A x \in NodeId : Live(t, x) => x <= p)
    BY DEF Sound, Linked
  <1>2. Open(t, p)
    <2>1. SUFFICES ASSUME ~Open(t, p) PROVE FALSE
      OBVIOUS
    <2>2. PICK y : y = t.node[p].jmp
      OBVIOUS
    <2>3. y \in NodeId /\ t.node[y].type \in Bracket /\ ~(y < p) /\ t.node[y].type \in Closers
      BY <2>1, <2>2 DEF Sound, Closed, Open, Bracket
    <2>4. Live(t, y) /\ y # p
      BY <2>3 DEF Live, Closers, Openers
    <2>5. QED BY <1>1, <2>3, <2>4
  <1>3. p <= jst /\ jst \in Link
    BY <1>2 DEF Sound, Stacked
  <1>4. jst # Null
    BY <1>3
  <1>5. QED BY <1>3, <1>4, TopOpen

\* The top of the stack may change its kind, as in a [] that becomes an IF,
LEMMA TurnedIf ==
  ASSUME NEW t, NEW p, NEW jst, Sound(t, p, jst), jst # Null
  PROVE  Sound([t EXCEPT !.node[jst].type = "IF"], p, jst)
  <1> DEFINE f == [t.node EXCEPT ![jst].type = "IF"]
             v == [t EXCEPT !.node = f]
  <1>1. t \in Tree /\ Unallocated(t) /\ t.num \in Nat /\ p \in 0 .. t.num
    BY DEF Sound, Linked, Tree
  <1>2. /\ jst \in NodeId /\ jst <= p /\ Live(t, jst)
        /\ t.node[jst].type \in Openers /\ t.node[jst].jmp < jst
    BY TopOpen
  <1>3. /\ f \in [NodeId -> Node]
        /\ f[jst].type = "IF" /\ f[jst].jmp = t.node[jst].jmp
        /\ f[jst].offset = t.node[jst].offset
        /\ \A x \in NodeId : x # jst => f[x] = t.node[x]
    <2>1. t.node \in [NodeId -> Node] /\ "IF" \in Token
      BY <1>1 DEF Tree, Token, Bracket, Openers
    <2>2. t.node[jst] \in Node /\ [t.node[jst] EXCEPT !.type = "IF"] \in Node
      BY <1>2, <2>1 DEF Node
    <2>3. f[jst] = [t.node[jst] EXCEPT !.type = "IF"]
      BY <1>2, <2>1
    <2>4. f \in [NodeId -> Node]
      BY <1>2, <2>1, <2>2
    <2>5. /\ f[jst].type = "IF" /\ f[jst].jmp = t.node[jst].jmp
          /\ f[jst].offset = t.node[jst].offset
      BY <2>2, <2>3 DEF Node
    <2>6. \A x \in NodeId : x # jst => f[x] = t.node[x]
      BY <1>2, <2>1
    <2>7. QED BY <2>4, <2>5, <2>6
  <1>4. v.node = f /\ v.prev = t.prev /\ [t EXCEPT !.node[jst].type = "IF"] = v
    BY <1>1 DEF Tree
  <1> HIDE DEF f
  <1>5. Linked(v, p)
    <2>1. \A x \in NodeId : x > t.num => f[x] = FreeNode
      BY <1>1, <1>2, <1>3 DEF Unallocated
    <2>2. \A x \in NodeId : f[x].type = "FREE" <=> t.node[x].type = "FREE"
      BY <1>2, <1>3 DEF Live
    <2>3. Linked(t, p) /\ f \in [NodeId -> Node]
      BY <1>3 DEF Sound
    <2>4. QED BY <2>1, <2>2, <2>3, ListStays
  <1> HIDE DEF v
  <1>6. /\ "IF" \in Openers /\ Openers \cap Closers = {} /\ Bracket = Openers \cup Closers
    BY DEF Bracket, Openers, Closers
  <1>7. \A x \in NodeId :
          /\ v.node[x].jmp = t.node[x].jmp /\ v.node[x].offset = t.node[x].offset
          /\ v.node[x].type \in Openers <=> t.node[x].type \in Openers
          /\ v.node[x].type \in Closers <=> t.node[x].type \in Closers
    BY <1>2, <1>3, <1>4, <1>6
  <1>8. \A x \in NodeId : Open(v, x) <=> Open(t, x)
    BY <1>7 DEF Open
  <1>9. \A x \in NodeId : t.node[x].jmp \in Link
    BY <1>1 DEF Tree, Node
  <1>10. Stacked(v, jst)
    <2>1. jst \in Link /\ Open(v, jst)
      BY <1>2, <1>8 DEF Sound, Stacked
    <2>2. ASSUME NEW x \in NodeId, Open(v, x)
          PROVE  x <= jst /\ (v.node[x].jmp = Null \/ Open(v, v.node[x].jmp))
      BY <1>7, <1>8, <1>9, <2>2 DEF Sound, Stacked
    <2>3. ASSUME NEW x \in NodeId, NEW y \in NodeId, Open(v, x), Open(v, y), y < x
          PROVE  y <= v.node[x].jmp
      BY <1>7, <1>8, <2>3 DEF Sound, Stacked
    <2>4. QED BY <2>1, <2>2, <2>3 DEF Stacked
  <1>11. Closed(v)
    BY <1>4, <1>6, <1>7, <1>8 DEF Sound, Closed
  <1>12. Shut(v)
    BY <1>7, <1>8 DEF Sound, Shut
  <1>13. NoneCompares(v)
    BY <1>3, <1>4 DEF Sound, NoneCompares
  <1>14. QED BY <1>4, <1>5, <1>10, <1>11, <1>12, <1>13 DEF Sound

\* or be given up.
LEMMA GivenUp ==
  ASSUME NEW t, NEW p, NEW jst, Sound(t, p, jst), jst # Null
  PROVE  Sound(AsNop(t, jst), p, t.node[jst].jmp)
  <1> DEFINE nop == [t.node[jst] EXCEPT !.type = "NOP", !.jmp = Null]
             f == [t.node EXCEPT ![jst] = nop]
             v == [t EXCEPT !.node = f]
             out == t.node[jst].jmp
  <1>1. t \in Tree /\ Unallocated(t) /\ t.num \in Nat /\ p \in 0 .. t.num
    BY DEF Sound, Linked, Tree
  <1>2. /\ jst \in NodeId /\ jst <= p /\ Live(t, jst) /\ out \in Link
        /\ t.node[jst].type \in Openers /\ out < jst
    BY TopOpen
  <1>3. nop \in Node /\ nop.type = "NOP"
    <2>1. t.node[jst] \in Node /\ "NOP" \in Token
      BY <1>1, <1>2 DEF Tree, Token
    <2>2. QED BY <2>1 DEF Node
  <1>4. AsNop(t, jst) = v
    <2>1. t.node \in [NodeId -> Node] /\ t.node[jst] \in Node
      BY <1>1, <1>2 DEF Tree
    <2>2. [[t.node EXCEPT ![jst].type = "NOP"] EXCEPT ![jst].jmp = Null] = f
      BY <1>2, <2>1 DEF Node
    <2>3. QED BY <1>1, <2>2 DEF Tree, AsNop
  <1> HIDE DEF nop
  <1>5. /\ f \in [NodeId -> Node] /\ f[jst] = nop
        /\ \A x \in NodeId : x # jst => f[x] = t.node[x]
    BY <1>1, <1>2, <1>3 DEF Tree
  <1>6. v.node = f /\ v.prev = t.prev
    BY <1>1 DEF Tree
  <1> HIDE DEF f
  <1>7. Linked(v, p)
    <2>1. \A x \in NodeId : x > t.num => f[x] = FreeNode
      BY <1>1, <1>2, <1>5 DEF Unallocated
    <2>2. \A x \in NodeId : f[x].type = "FREE" <=> t.node[x].type = "FREE"
      BY <1>2, <1>3, <1>5 DEF Live
    <2>3. Linked(t, p) /\ f \in [NodeId -> Node]
      BY <1>5 DEF Sound
    <2>4. QED BY <2>1, <2>2, <2>3, ListStays
  <1> HIDE DEF v
  <1>8. "NOP" \notin Bracket /\ Bracket = Openers \cup Closers
    BY DEF Bracket, Openers, Closers
  <1>9. \A x \in NodeId : Open(v, x) <=> x # jst /\ Open(t, x)
    BY <1>2, <1>3, <1>5, <1>6, <1>8 DEF Open
  <1>10. \A x \in NodeId : t.node[x].jmp \in Link
    BY <1>1 DEF Tree, Node
  <1>11. /\ \A x \in NodeId : Open(t, x) =>
             x <= jst /\ (t.node[x].jmp = Null \/ Open(t, t.node[x].jmp))
         /\ \A x, y \in NodeId : Open(t, x) /\ Open(t, y) /\ y < x => y <= t.node[x].jmp
         /\ Open(t, jst) /\ (out = Null \/ Open(t, out))
    BY <1>2 DEF Sound, Stacked
  <1>12. Stacked(v, out)
    <2>1. out \in Link /\ (out # Null => Open(v, out))
      BY <1>2, <1>9, <1>11
    <2>2. ASSUME NEW x \in NodeId, Open(v, x)
          PROVE  x <= out /\ (v.node[x].jmp = Null \/ Open(v, v.node[x].jmp))
      <3>1. Open(t, x) /\ x # jst /\ x < jst /\ v.node[x] = t.node[x]
        BY <1>2, <1>5, <1>6, <1>9, <1>11, <2>2
      <3>2. x <= out
        BY <1>2, <1>11, <3>1
      <3>3. CASE t.node[x].jmp = Null
        BY <3>1, <3>2, <3>3
      <3>4. CASE t.node[x].jmp # Null
        <4>1. t.node[x].jmp < x
          BY <3>1 DEF Open
        <4>2. t.node[x].jmp \in NodeId /\ t.node[x].jmp # jst
          BY <1>2, <1>10, <3>1, <3>4, <4>1
        <4>3. QED BY <1>9, <1>11, <3>1, <3>2, <3>4, <4>2
      <3>5. QED BY <3>3, <3>4
    <2>3. ASSUME NEW x \in NodeId, NEW y \in NodeId, Open(v, x), Open(v, y), y < x
          PROVE  y <= v.node[x].jmp
      BY <1>5, <1>6, <1>9, <1>11, <2>3
    <2>4. QED BY <2>1, <2>2, <2>3 DEF Stacked
  <1>13. Closed(v)
    <2>1. ASSUME NEW x \in NodeId, v.node[x].type \in Bracket
          PROVE  /\ x # jst /\ v.node[x] = t.node[x] /\ v.node[x].offset = 0
                 /\ v.node[x].type \in Closers => v.prev[x] # Null
      BY <1>3, <1>5, <1>6, <1>8, <2>1 DEF Sound, Closed
    <2>2. ASSUME NEW x \in NodeId, v.node[x].type \in Bracket, ~Open(v, x),
                 NEW y, y = v.node[x].jmp
          PROVE  /\ y \in NodeId /\ v.node[y].type \in Bracket /\ ~Open(v, y)
                 /\ v.node[y].jmp = x
                 /\ v.node[x].type \in Openers => v.node[y].type \in Closers
                 /\ v.node[x].type \in Closers => v.node[y].type \in Openers
      <3>1. x # jst /\ v.node[x] = t.node[x] /\ ~Open(t, x)
        BY <1>9, <2>1, <2>2
      <3>2. /\ y \in NodeId /\ t.node[y].type \in Bracket /\ ~Open(t, y)
            /\ t.node[y].jmp = x
            /\ t.node[x].type \in Openers => t.node[y].type \in Closers
            /\ t.node[x].type \in Closers => t.node[y].type \in Openers
        BY <2>2, <3>1 DEF Sound, Closed
      <3>3. y # jst
        BY <1>11, <3>2
      <3>4. QED BY <1>5, <1>6, <1>9, <3>1, <3>2, <3>3
    <2>3. QED BY <2>1, <2>2 DEF Closed
  <1>14. Shut(v)
    <2>1. \A x \in NodeId : v.node[x].type \in Openers => x # jst /\ v.node[x] = t.node[x]
      BY <1>3, <1>5, <1>6, <1>8
    <2>2. QED BY <1>9, <2>1 DEF Sound, Shut
  <1>15. NoneCompares(v)
    BY <1>3, <1>5, <1>6 DEF Sound, NoneCompares
  <1>16. QED BY <1>4, <1>7, <1>12, <1>13, <1>14, <1>15 DEF Sound

\* With no loop open the tree is what the optimiser may be given.
LEMMA NoneOpen ==
  ASSUME NEW t, NEW p, Sound(t, p, Null)
  PROVE  t \in Tree /\ WellFormed(t) /\ Complete(t) /\ Nested(t) /\ Factors(t)
  <1>1. t \in Tree /\ DoublyLinked(t) /\ Unallocated(t)
    BY DEF Sound, Linked
  <1>2. \A x \in NodeId : ~Open(t, x)
    BY DEF Sound, Stacked
  <1>3. ASSUME NEW x \in NodeId, t.node[x].type \in Bracket
        PROVE  LET y == t.node[x].jmp IN
               /\ y \in NodeId /\ t.node[y].jmp = x
               /\ t.node[x].type \in Openers => t.node[y].type \in Closers
               /\ t.node[x].type \in Closers => t.node[y].type \in Openers
               /\ t.node[x].offset = 0 /\ t.node[y].offset = 0
    BY <1>2, <1>3 DEF Sound, Closed
  <1>4. BracketsPaired(t) /\ OffsetsPaired(t)
    BY <1>3 DEF BracketsPaired, OffsetsPaired
  <1>5. ClosersFollow(t)
    BY DEF ClosersFollow, Sound, Closed, Bracket
  <1> DEFINE r == [x \in NodeId |-> x]
  <1>6. Ranks(t, r)
    <2>1. ASSUME NEW x \in NodeId, Live(t, x), t.next[x] # Null
          PROVE  r[x] < r[t.next[x]]
      <3>1. t.next[x] \in NodeId /\ Live(t, t.next[x]) /\ t.prev[t.next[x]] = x
        BY <1>1, <2>1 DEF DoublyLinked, Tree
      <3>2. QED BY <3>1 DEF Sound, Linked
    <2>2. r \in [NodeId -> Int]
      OBVIOUS
    <2> HIDE DEF r
    <2>3. QED BY <2>1, <2>2 DEF Ranks
  <1>7. NestedBy(t, r)
    <2>1. ASSUME NEW x \in NodeId, t.node[x].type \in Openers
          PROVE  t.node[x].jmp \in NodeId /\ x < t.node[x].jmp
      <3>1. t.node[x].jmp \in NodeId /\ t.node[t.node[x].jmp].type \in Closers
        BY <1>3, <2>1 DEF Bracket
      <3>2. t.node[x].jmp # x
        BY <2>1, <3>1 DEF Openers, Closers
      <3>3. QED BY <1>2, <2>1, <3>1, <3>2 DEF Open
    <2>2. QED BY <1>2, <2>1 DEF NestedBy, Inside, Sound, Shut
  <1> HIDE DEF r
  <1>8. Complete(t) /\ Nested(t)
    BY <1>1, <1>4, <1>6, <1>7, RankedComplete, RankedNested
  <1>9. Factors(t)
    BY DEF Sound, NoneCompares, Factors
  <1>10. QED BY <1>1, <1>4, <1>5, <1>8, <1>9 DEF WellFormed

(***************************************************************************)
(* The loader's operations, on the pair of the tree and its variables.     *)
(***************************************************************************)

\* Nodes as the loader makes them.
Plain(nd) ==
  nd \in Node /\ nd.type # "FREE" /\ nd.type \notin Bracket /\ nd.type # "LT"

\* The tokens of its nodes but for brackets, which OpenNode and CloseNode append.
PlainToks == {"MOV", "ADD", "SET", "PRT", "PRTI", "INP", "INPI", "CHR", "DUMP", "STOP", "NOP"}

\* A node that is made for a plain token is plain.
LEMMA MadePlain ==
  ASSUME NEW tok \in PlainToks, NEW c \in Int, NEW off \in Int
  PROVE  /\ Plain(At(tok, c, off)) /\ At(tok, c, off).type = tok
         /\ Plain(Blank(tok)) /\ Blank(tok).type = tok
  <1>1. tok \in Token /\ tok \notin Bracket /\ tok # "FREE" /\ tok # "LT"
    BY DEF Token, Bracket, Openers, Closers, Simple, PlainToks
  <1>2. Blank(tok) \in Node /\ Blank(tok).type = tok
    BY <1>1 DEF Blank, Node
  <1>3. At(tok, c, off) \in Node /\ At(tok, c, off).type = tok
    BY <1>2 DEF At, Node
  <1>4. QED BY <1>1, <1>2, <1>3 DEF Plain

\* What the loader makes, brackets aside.
LEMMA PlainTokens ==
  /\ "MOV" \in PlainToks /\ "ADD" \in PlainToks /\ "SET" \in PlainToks
  /\ "PRT" \in PlainToks /\ "PRTI" \in PlainToks /\ "CHR" \in PlainToks
  /\ "INP" \in PlainToks /\ "INPI" \in PlainToks /\ "DUMP" \in PlainToks
  /\ "STOP" \in PlainToks /\ "NOP" \in PlainToks
  BY DEF PlainToks

\* Assignments through the pair are assignments to its parts.
LEMMA PairEdits ==
  ASSUME NEW A, NEW B, NEW x
  PROVE  /\ [[t |-> A, l |-> B] EXCEPT !.l.p = x] = [t |-> A, l |-> [B EXCEPT !.p = x]]
         /\ [[t |-> A, l |-> B] EXCEPT !.l.jst = x] = [t |-> A, l |-> [B EXCEPT !.jst = x]]
         /\ [[t |-> A, l |-> B] EXCEPT !.l.mov = x] = [t |-> A, l |-> [B EXCEPT !.mov = x]]
         /\ [[t |-> A, l |-> B] EXCEPT !.l.z = x] = [t |-> A, l |-> [B EXCEPT !.z = x]]
         /\ [[t |-> A, l |-> B] EXCEPT !.l.inp = x] = [t |-> A, l |-> [B EXCEPT !.inp = x]]
  OBVIOUS

\* Editing a node in a pair of a tree and a state edits the tree.
LEMMA PairNodeEdits ==
  ASSUME NEW A, NEW B, NEW i, NEW x
  PROVE  /\ [[t |-> A, l |-> B] EXCEPT !.t.node[i].jmp = x]
              = [t |-> [A EXCEPT !.node[i].jmp = x], l |-> B]
         /\ [[t |-> A, l |-> B] EXCEPT !.t.node[i].type = x]
              = [t |-> [A EXCEPT !.node[i].type = x], l |-> B]
         /\ [[t |-> A, l |-> B] EXCEPT !.t.node[i].count = x]
              = [t |-> [A EXCEPT !.node[i].count = x], l |-> B]
  OBVIOUS

\* The variables stay typed whatever is assigned to them, if it is typed.
LEMMA StateKept ==
  ASSUME NEW l \in LoaderState
  PROVE  /\ \A x \in Link : [l EXCEPT !.p = x] \in LoaderState
         /\ \A x \in Link : [l EXCEPT !.jst = x] \in LoaderState
         /\ \A x \in Int : [l EXCEPT !.mov = x] \in LoaderState
         /\ \A x \in 0 .. 3 : [l EXCEPT !.z = x] \in LoaderState
         /\ \A x \in BOOLEAN : [l EXCEPT !.inp = x] \in LoaderState
  BY DEF LoaderState

\* What an operation that appends k nodes at most makes of a state.
Grown(s, r, k) ==
  /\ Ready(r)
  /\ r.t.num <= s.t.num + k

\* The types of a state that is ready.
LEMMA NumIsNat ==
  ASSUME NEW s, Ready(s)
  PROVE  /\ s.t \in Tree /\ s.l \in LoaderState /\ s.t.num \in Nat
         /\ s.l.mov \in Int /\ s.l.jst \in Link /\ s.l.p \in Link /\ s.l.z \in 0 .. 3
         /\ s = [t |-> s.t, l |-> s.l]
  BY DEF Ready, Tree, LoaderState

\* A node that is added at the end is the last one allocated.
LEMMA LastAdded ==
  ASSUME NEW t, NEW p, Linked(t, p), t.num < MaxNode, NEW nd \in Node, nd.type # "FREE"
  PROVE  /\ AddNodeAfter(t, p, nd).num = t.num + 1
         /\ AddNodeAfter(t, p, nd).node[t.num + 1] = nd
         /\ AddNodeAfter(t, p, nd) \in Tree
  <1> DEFINE u == AddNodeAfter(t, p, nd)
  <1>1. /\ Linked(u, t.num + 1)
        /\ u.prev = [t.prev EXCEPT ![t.num + 1] = p]
        /\ u.node = [t.node EXCEPT ![t.num + 1] = nd]
        /\ u.num = t.num + 1
    BY ListGrows
  <1>2. t \in Tree /\ t.num + 1 \in NodeId
    BY DEF Linked, Tree
  <1>3. AddNodeAfter(t, p, nd).node[t.num + 1] = nd
    BY <1>1, <1>2 DEF Tree
  <1>4. QED BY <1>1, <1>3 DEF Linked

\* The function of the loader that adds a plain node.
LEMMA NewNodeReady ==
  ASSUME NEW s, Ready(s), s.t.num < MaxNode, NEW nd, Plain(nd)
  PROVE  /\ Grown(s, NewNode(s, nd), 1)
         /\ LET l == NewNode(s, nd).l IN
            l.mov = s.l.mov /\ l.jst = s.l.jst /\ l.z = s.l.z /\ l.inp = s.l.inp
         /\ NewNode(s, nd) = [t |-> NewNode(s, nd).t, l |-> NewNode(s, nd).l]
  <1> DEFINE id == s.t.num + 1
             u == AddNodeAfter(s.t, s.l.p, nd)
             k == [s.l EXCEPT !.p = id]
             r == NewNode(s, nd)
  <1>1. r = [t |-> u, l |-> k]
    BY DEF NewNode
  <1>2. Sound(s.t, s.l.p, s.l.jst) /\ id \in NodeId /\ s.l \in LoaderState /\ s.t \in Tree
    BY NumIsNat DEF Ready
  <1>3. /\ k \in LoaderState /\ k.p = id
        /\ k.mov = s.l.mov /\ k.jst = s.l.jst /\ k.z = s.l.z /\ k.inp = s.l.inp
    BY <1>2 DEF LoaderState
  <1>4. Sound(u, id, s.l.jst)
    BY <1>2, Appended DEF Plain
  <1>5. u.num = id /\ u.node[id] = nd /\ u \in Tree
    <2>1. Linked(s.t, s.l.p) /\ nd \in Node /\ nd.type # "FREE"
      BY <1>2 DEF Plain, Sound
    <2>2. QED BY <2>1, LastAdded
  <1> HIDE DEF u, k
  <1>6. Ready(r)
    BY <1>1, <1>3, <1>4, <1>5 DEF Ready
  <1>7. r.t = u /\ id <= id
    BY <1>1, <1>2
  <1>8. QED BY <1>1, <1>3, <1>5, <1>6, <1>7 DEF Grown

\* A loop is opened: its node goes on the stack of open loops.
LEMMA OpenNodeReady ==
  ASSUME NEW s, Ready(s), s.t.num < MaxNode
  PROVE  /\ Grown(s, OpenNode(s), 1)
         /\ OpenNode(s).l.mov = s.l.mov /\ OpenNode(s).l.jst # Null
         /\ OpenNode(s) = [t |-> OpenNode(s).t, l |-> OpenNode(s).l]
  <1> DEFINE id == s.t.num + 1
             nd == [Blank("WHL") EXCEPT !.jmp = s.l.jst]
             u == AddNodeAfter(s.t, s.l.p, nd)
             k == [s.l EXCEPT !.p = id, !.jst = id]
             r == OpenNode(s)
  <1>1. r = [t |-> u, l |-> k]
    <2> DEFINE h == [s.l EXCEPT !.p = id]
    <2>1. NewNode(s, nd) = [t |-> u, l |-> h]
      BY DEF NewNode
    <2>2. h.p = id /\ k = [h EXCEPT !.jst = id]
      BY NumIsNat DEF LoaderState
    <2> HIDE DEF h, u, k
    <2>3. r = [[t |-> u, l |-> h] EXCEPT !.l.jst = id]
      BY <2>1, <2>2 DEF OpenNode
    <2> HIDE DEF id
    <2>4. QED BY <2>2, <2>3, PairEdits
  <1>2. Sound(s.t, s.l.p, s.l.jst) /\ id \in NodeId /\ s.l \in LoaderState /\ s.t \in Tree
    BY NumIsNat DEF Ready
  <1>3. k \in LoaderState /\ k.p = id /\ k.jst = id /\ k.mov = s.l.mov
    BY <1>2 DEF LoaderState
  <1>4. Sound(u, id, id)
    BY <1>2, Opened
  <1>5. u.num = id
    <2>1. nd \in Node /\ nd.type # "FREE"
      BY NumIsNat DEF Blank, Node, Token, Bracket, Openers
    <2>2. Linked(s.t, s.l.p)
      BY <1>2 DEF Sound
    <2> HIDE DEF nd
    <2>3. QED BY <2>1, <2>2, LastAdded
  <1>6. u \in Tree
    BY <1>4 DEF Sound, Linked
  <1> HIDE DEF u, k
  <1>7. Ready(r)
    BY <1>1, <1>3, <1>4, <1>6 DEF Ready
  <1>8. r.t = u /\ id <= id
    BY <1>1, <1>2
  <1>9. QED BY <1>1, <1>2, <1>3, <1>5, <1>7, <1>8 DEF Grown

\* A loop is closed: the innermost open one gets its partner.
LEMMA CloseNodeReady ==
  ASSUME NEW s, Ready(s), s.t.num < MaxNode, s.l.jst # Null, NEW tok \in Closers
  PROVE  /\ Grown(s, CloseNode(s, tok), 1)
         /\ CloseNode(s, tok).l.mov = s.l.mov
  <1> DEFINE id == s.t.num + 1
             jst == s.l.jst
             out == s.t.node[jst].jmp
             nd == [Blank(tok) EXCEPT !.jmp = jst]
             u == AddNodeAfter(s.t, s.l.p, nd)
             v == [u EXCEPT !.node[jst].jmp = id]
             k == [s.l EXCEPT !.p = id, !.jst = out]
             r == CloseNode(s, tok)
  <1>1. Sound(s.t, s.l.p, jst) /\ id \in NodeId /\ s.l \in LoaderState /\ s.t \in Tree
    BY NumIsNat DEF Ready
  <1>2. u.node[jst] = s.t.node[jst] /\ Sound(v, id, out)
    BY <1>1, ClosedOff
  <1>3. out \in Link
    BY <1>1, TopOpen
  <1>4. r = [t |-> v, l |-> k]
    <2> DEFINE h == [s.l EXCEPT !.p = id]
    <2>1. NewNode(s, nd) = [t |-> u, l |-> h]
      BY DEF NewNode
    <2>2. h.p = id /\ k = [h EXCEPT !.jst = out] /\ u.node[jst].jmp = out
      BY <1>2, NumIsNat DEF LoaderState
    <2> HIDE DEF h, u, k
    <2>3. NewNode(s, nd).t = u /\ NewNode(s, nd).l = h
      BY <2>1
    <2>4. r = [ t |-> [u EXCEPT !.node[jst].jmp = h.p],
                l |-> [h EXCEPT !.jst = u.node[jst].jmp] ]
      BY <2>3 DEF CloseNode
    <2>5. QED BY <2>2, <2>4
  <1>5. k \in LoaderState /\ k.p = id /\ k.jst = out /\ k.mov = s.l.mov
    BY <1>1, <1>3 DEF LoaderState
  <1>6. v.num = id
    <2>1. nd \in Node /\ nd.type # "FREE"
      BY NumIsNat DEF Blank, Node, Token, Bracket, Closers
    <2>2. Linked(s.t, s.l.p)
      BY <1>1 DEF Sound
    <2> HIDE DEF nd
    <2>3. u.num = id /\ u \in Tree
      BY <2>1, <2>2, LastAdded
    <2> HIDE DEF u
    <2>4. QED BY <2>3 DEF Tree
  <1>7. v \in Tree
    BY <1>2 DEF Sound, Linked
  <1> HIDE DEF v, k
  <1>8. Ready(r)
    BY <1>2, <1>4, <1>5, <1>7 DEF Ready
  <1>9. r.t = v /\ id <= id
    BY <1>1, <1>4
  <1>10. QED BY <1>4, <1>5, <1>6, <1>8, <1>9 DEF Grown

\* The other variables have no part in it.
LEMMA OthersFree ==
  ASSUME NEW s, Ready(s), NEW k \in LoaderState, k.p = s.l.p, k.jst = s.l.jst
  PROVE  Ready([t |-> s.t, l |-> k])
  BY NumIsNat DEF Ready

\* A pending movement becomes a node.
LEMMA FlushMovReady ==
  ASSUME NEW s, Ready(s), s.t.num < MaxNode
  PROVE  /\ Grown(s, FlushMov(s), 1)
         /\ FlushMov(s).l.mov = 0 /\ FlushMov(s).l.jst = s.l.jst
         /\ FlushMov(s).l.z = s.l.z
         /\ s.l.mov = 0 => FlushMov(s) = s
  <1>1. s.l \in LoaderState /\ s.l.mov \in Int /\ s.t.num \in Nat
    BY NumIsNat
  <1>2. CASE s.l.mov = 0
    <2>1. FlushMov(s) = s /\ s.t.num <= s.t.num + 1
      BY <1>1, <1>2 DEF FlushMov
    <2>2. QED BY <1>2, <2>1 DEF Grown
  <1>3. CASE s.l.mov # 0
    <2> DEFINE nd == At("MOV", s.l.mov, 0)
               m == NewNode(s, nd)
               k == [m.l EXCEPT !.mov = 0]
    <2>1. Plain(nd)
      BY <1>1, MadePlain, PlainTokens
    <2> HIDE DEF nd
    <2>2. /\ Grown(s, m, 1) /\ m.l.jst = s.l.jst /\ m.l.z = s.l.z
          /\ m = [t |-> m.t, l |-> m.l]
      BY <2>1, NewNodeReady
    <2>3. FlushMov(s) = [m EXCEPT !.l.mov = 0]
      BY <1>3 DEF FlushMov, nd
    <2> HIDE DEF m
    <2>4. m.l \in LoaderState
      BY <2>2, NumIsNat DEF Grown
    <2>5. k \in LoaderState /\ k.p = m.l.p /\ k.jst = m.l.jst /\ k.z = m.l.z /\ k.mov = 0
      BY <2>4 DEF LoaderState
    <2> HIDE DEF k
    <2>6. FlushMov(s) = [t |-> m.t, l |-> k]
      BY <2>2, <2>3, PairEdits DEF k
    <2>7. Ready([t |-> m.t, l |-> k])
      BY <2>2, <2>5, OthersFree DEF Grown
    <2>8. QED BY <1>3, <2>2, <2>5, <2>6, <2>7 DEF Grown
  <1>4. QED BY <1>2, <1>3

\* What was kept back was no clearing loop after all.
LEMMA FlushZReady ==
  ASSUME NEW s, Ready(s), s.t.num + 3 <= MaxNode
  PROVE  /\ Grown(s, FlushZ(s), 3)
         /\ FlushZ(s) = s \/ FlushZ(s).l.mov = 0
  <1>1. s.l \in LoaderState /\ s.l.z \in 0 .. 3 /\ s.t.num \in Nat
    BY NumIsNat
  <1>2. \A c \in Int : Plain(At("ADD", c, 0))
    BY MadePlain, PlainTokens
  <1>3. CASE s.l.z = 0
    <2>1. FlushZ(s) = s /\ s.t.num <= s.t.num + 3
      BY <1>1, <1>3 DEF FlushZ
    <2>2. QED BY <2>1 DEF Grown
  <1>4. CASE s.l.z # 0
    <2> DEFINE m == FlushMov(s)
               w == OpenNode(m)
               a == CASE s.l.z = 1 -> w
                      [] s.l.z = 2 -> NewNode(w, At("ADD", -1, 0))
                      [] s.l.z = 3 -> NewNode(w, At("ADD", 1, 0))
               k == [a.l EXCEPT !.z = 0]
    <2>1. Grown(s, m, 1) /\ m.l.mov = 0
      BY <1>1, FlushMovReady
    <2>2. FlushZ(s) = [a EXCEPT !.l.z = 0]
      BY <1>4 DEF FlushZ
    <2> HIDE DEF m
    <2>3. /\ Ready(m) /\ m.l \in LoaderState /\ m.t.num \in Nat
          /\ m.t.num <= s.t.num + 1 /\ m.t.num < MaxNode
      BY <1>1, <2>1, NumIsNat DEF Grown
    <2>4. /\ s.l.z = 1 => a = w
          /\ s.l.z = 2 => a = NewNode(w, At("ADD", -1, 0))
          /\ s.l.z = 3 => a = NewNode(w, At("ADD", 1, 0))
      OBVIOUS
    <2> HIDE DEF a
    <2>5. Grown(m, w, 1) /\ w.l.mov = m.l.mov /\ w = [t |-> w.t, l |-> w.l]
      BY <2>3, OpenNodeReady
    <2> HIDE DEF w
    <2>6. /\ Ready(w) /\ w.t.num \in Nat /\ w.l.mov = 0
          /\ w.t.num <= s.t.num + 2 /\ w.t.num < MaxNode
      <3>1. Ready(w) /\ w.t.num <= m.t.num + 1 /\ w.t.num \in Nat
        BY <2>5, NumIsNat DEF Grown
      <3>2. QED BY <1>1, <2>1, <2>3, <2>5, <3>1
    <2>7. ASSUME NEW c \in Int, a = NewNode(w, At("ADD", c, 0))
          PROVE  Ready(a) /\ a.t.num <= s.t.num + 3 /\ a.l.mov = 0 /\ a = [t |-> a.t, l |-> a.l]
      <3> DEFINE nd == At("ADD", c, 0)
      <3>1. Plain(nd)
        BY <1>2
      <3> HIDE DEF nd
      <3>2. Grown(w, a, 1) /\ a.l.mov = w.l.mov /\ a = [t |-> a.t, l |-> a.l]
        BY <2>6, <2>7, <3>1, NewNodeReady DEF nd
      <3>3. a.t.num \in Nat /\ a.t.num <= w.t.num + 1 /\ Ready(a)
        BY <3>2, NumIsNat DEF Grown
      <3>4. QED BY <1>1, <2>6, <3>2, <3>3
    <2>8. Ready(a) /\ a.t.num <= s.t.num + 3 /\ a.l.mov = 0 /\ a = [t |-> a.t, l |-> a.l]
      <3>1. CASE s.l.z = 1
        BY <1>1, <2>4, <2>5, <2>6, <3>1
      <3>2. CASE s.l.z = 2
        BY <2>4, <2>7, <3>2
      <3>3. CASE s.l.z = 3
        BY <2>4, <2>7, <3>3
      <3>4. QED BY <1>1, <1>4, <3>1, <3>2, <3>3
    <2>9. a.l \in LoaderState
      BY <2>8, NumIsNat
    <2>10. k \in LoaderState /\ k.p = a.l.p /\ k.jst = a.l.jst /\ k.mov = 0
      BY <2>8, <2>9 DEF LoaderState
    <2> HIDE DEF k
    <2>11. FlushZ(s) = [t |-> a.t, l |-> k]
      BY <2>2, <2>8, PairEdits DEF k
    <2>12. Ready([t |-> a.t, l |-> k])
      BY <2>8, <2>10, OthersFree
    <2>13. QED BY <2>8, <2>10, <2>11, <2>12 DEF Grown
  <1>5. QED BY <1>3, <1>4

\* What a character stands for.
LEMMA Commanded ==
  ASSUME NEW ch, NEW l \in LoaderState
  PROVE  /\ Command(ch, l).tok \in PlainToks \cup {"WHL", "END"}
         /\ Command(ch, l).c \in Int
  <1> DEFINE given == IF l.ov \/ l.num < 0 THEN -1 ELSE l.num
             k == IF given < 0 THEN (IF ch = "=" THEN 0 ELSE 1) ELSE given
  <1>1. l.num \in Int
    BY DEF LoaderState
  <1>2. given \in Int
    BY <1>1
  <1> HIDE DEF given
  <1>3. k \in Int /\ -k \in Int
    BY <1>2
  <1> HIDE DEF k
  <1>4. Command(ch, l) \in { Cmd("MOV", k), Cmd("MOV", -k), Cmd("ADD", k), Cmd("ADD", -k),
          Cmd("WHL", 0), Cmd("END", 0), Cmd("PRT", 0), Cmd("INP", 0), Cmd("DUMP", 0),
          Cmd("SET", k), Cmd("PRTI", 0), Cmd("INPI", 0), Cmd("NOP", 0) }
    BY DEF Command, If, k, given
  <1>5. QED BY <1>3, <1>4 DEF Cmd, PlainToks

\* The state of the loop, as the operations above take it.
Now == [t |-> tree, l |-> ld]

\* The count of the last command is a matter of its own.
LEMMA CountGone ==
  ASSUME ld \in LoaderState
  PROVE  /\ CountUsed \in LoaderState /\ CountUsed.p = ld.p /\ CountUsed.jst = ld.jst
         /\ CountUsed.mov = ld.mov /\ CountUsed.z = ld.z
  <1>1. PICK m \in Int : m = -1
    OBVIOUS
  <1> DEFINE k == [ld EXCEPT !.rle = FALSE, !.num = m, !.ov = FALSE]
  <1>2. k \in LoaderState /\ k.p = ld.p /\ k.jst = ld.jst /\ k.mov = ld.mov /\ k.z = ld.z
    BY DEF LoaderState
  <1>3. CountUsed = k
    BY <1>1 DEF CountUsed
  <1> HIDE DEF k
  <1>4. QED BY <1>2, <1>3

\* What was kept back comes before a command.
LEMMA PlacedReady ==
  ASSUME Ready(Now), HasRoomFor(tree, 6), NEW tok
  PROVE  Ready(Placed(tok)) /\ Placed(tok).t.num + 3 <= MaxNode
  <1> DEFINE s == [t |-> tree, l |-> CountUsed]
  <1>1. /\ ld \in LoaderState /\ tree.num \in Nat /\ tree.num + 6 <= MaxNode
        /\ Now.t = tree /\ Now.l = ld
    BY NumIsNat DEF HasRoomFor, Now
  <1>2. CountUsed \in LoaderState /\ CountUsed.p = ld.p /\ CountUsed.jst = ld.jst
    BY <1>1, CountGone
  <1>3. Ready(s) /\ s.t = tree
    BY <1>1, <1>2, OthersFree DEF Now
  <1>4. /\ Ready(Flushed) /\ Flushed.t.num \in Nat /\ Flushed.t.num <= tree.num + 3
        /\ Flushed.t.num <= tree.num \/ Flushed.l.mov = 0
    <2>1. CASE opt_enable_rle
      <3>1. Flushed = FlushZ(s)
        BY <2>1 DEF Flushed
      <3>2. Grown(s, FlushZ(s), 3) /\ (FlushZ(s) = s \/ FlushZ(s).l.mov = 0)
        BY <1>1, <1>3, FlushZReady
      <3>3. FlushZ(s).t.num \in Nat
        BY <3>2, NumIsNat DEF Grown
      <3> HIDE DEF s
      <3>4. QED BY <1>1, <1>3, <3>1, <3>2, <3>3 DEF Grown
    <2>2. CASE ~opt_enable_rle
      <3>1. Flushed = s
        BY <2>2 DEF Flushed
      <3> HIDE DEF s
      <3>2. QED BY <1>1, <1>3, <3>1
    <2>3. QED BY <2>1, <2>2
  <1>5. CASE Placed(tok) = Flushed
    BY <1>1, <1>4, <1>5
  <1>6. CASE Placed(tok) = FlushMov(Flushed)
    <2>1. /\ Grown(Flushed, FlushMov(Flushed), 1)
          /\ Flushed.l.mov = 0 => FlushMov(Flushed) = Flushed
      BY <1>1, <1>4, FlushMovReady
    <2>2. FlushMov(Flushed).t.num \in Nat
      BY <2>1, NumIsNat DEF Grown
    <2>3. QED BY <1>1, <1>4, <1>6, <2>1, <2>2 DEF Grown
  <1>7. QED BY <1>5, <1>6 DEF Placed

\* A command that reads, and what comes with it.
LEMMA AppendInputReady ==
  ASSUME NEW s, Ready(s), s.t.num + 2 <= MaxNode
  PROVE  Ready(AppendInput(s))
  <1> DEFINE a == IF InitCell <= 0 THEN NewNode(s, At("SET", InitCell, s.l.mov)) ELSE s
             tok == IF iostyle = 3 THEN "INPI"
                    ELSE IF eofcell = 6 THEN "STOP" ELSE "INP"
             nd == At(tok, 0, s.l.mov)
             b == NewNode(a, nd)
             k == [b.l EXCEPT !.inp = @ \/ eofcell # 6]
  <1>1. InitCell \in Int /\ s.l.mov \in Int /\ s.t.num \in Nat
    BY NumIsNat DEF InitCell
  <1>2. AppendInput(s) = [b EXCEPT !.l.inp = @ \/ eofcell # 6]
    BY DEF AppendInput
  <1>3. Plain(nd) /\ Plain(At("SET", InitCell, s.l.mov))
    <2>1. tok \in PlainToks
      BY PlainTokens
    <2> HIDE DEF tok
    <2>2. QED BY <1>1, <2>1, MadePlain, PlainTokens
  <1> HIDE DEF nd
  <1>4. Ready(a) /\ a.t.num < MaxNode
    <2>1. CASE InitCell <= 0
      <3>1. Grown(s, a, 1)
        BY <1>1, <1>3, <2>1, NewNodeReady
      <3>2. a.t.num \in Nat
        BY <3>1, NumIsNat DEF Grown
      <3> HIDE DEF a
      <3>3. QED BY <1>1, <3>1, <3>2 DEF Grown
    <2>2. CASE ~(InitCell <= 0)
      BY <1>1, <2>2
    <2>3. QED BY <2>1, <2>2
  <1> HIDE DEF a
  <1>5. Ready(b) /\ b = [t |-> b.t, l |-> b.l]
    BY <1>3, <1>4, NewNodeReady DEF Grown
  <1> HIDE DEF b
  <1>6. k \in LoaderState /\ k.p = b.l.p /\ k.jst = b.l.jst
    <2>1. b.l \in LoaderState
      BY <1>5, NumIsNat
    <2>2. (b.l.inp \/ eofcell # 6) \in BOOLEAN
      OBVIOUS
    <2>3. QED BY <2>1, <2>2 DEF LoaderState
  <1> HIDE DEF k
  <1>7. AppendInput(s) = [t |-> b.t, l |-> k]
    BY <1>2, <1>5, PairEdits DEF k
  <1>8. QED BY <1>5, <1>6, <1>7, OthersFree

\* Whatever command is read, the list and the stack are ready for the next.
LEMMA AppendCommandReady ==
  ASSUME NEW s, Ready(s), s.t.num + 3 <= MaxNode, NEW cmd,
         cmd.tok \in PlainToks \cup {"WHL", "END"}, cmd.c \in Int
  PROVE  Ready(AppendCommand(s, cmd))
  <1>1. s.l.mov \in Int /\ s.t.num \in Nat /\ s.t.num < MaxNode /\ s.t.num + 2 <= MaxNode
    BY NumIsNat
  <1>2. ASSUME NEW nd, Plain(nd) PROVE Ready(NewNode(s, nd))
    BY <1>1, <1>2, NewNodeReady DEF Grown
  <1>3. CASE cmd.tok = "WHL"
    BY <1>1, <1>3, OpenNodeReady DEF AppendCommand, Grown
  <1>4. CASE cmd.tok = "END" /\ s.l.jst = Null
    <2>1. Plain(Blank("NOP"))
      BY MadePlain, PlainTokens
    <2>2. QED BY <1>2, <1>4, <2>1 DEF AppendCommand
  <1>5. CASE cmd.tok = "END" /\ s.l.jst # Null
    <2>1. "END" \in Closers
      BY DEF Closers
    <2>2. Ready(CloseNode(s, "END"))
      BY <1>1, <1>5, <2>1, CloseNodeReady DEF Grown
    <2>3. QED BY <1>5, <2>2 DEF AppendCommand
  <1>6. CASE cmd.tok = "PRT" /\ iostyle = 3
    <2> DEFINE a == NewNode(s, At("PRTI", 0, s.l.mov))
    <2>1. Plain(At("PRTI", 0, s.l.mov)) /\ Plain(At("CHR", 10, 0))
      BY <1>1, MadePlain, PlainTokens
    <2>2. Grown(s, a, 1)
      BY <1>1, <2>1, NewNodeReady
    <2>3. AppendCommand(s, cmd) = NewNode(a, At("CHR", 10, 0))
      BY <1>6 DEF AppendCommand
    <2> HIDE DEF a
    <2>4. a.t.num \in Nat /\ Ready(a) /\ a.t.num < MaxNode
      BY <1>1, <2>2, NumIsNat DEF Grown
    <2>5. QED BY <2>1, <2>3, <2>4, NewNodeReady DEF Grown
  <1>7. CASE cmd.tok = "INP"
    BY <1>1, <1>7, AppendInputReady DEF AppendCommand
  <1>8. CASE cmd.tok \notin {"WHL", "END", "INP"} /\ ~(cmd.tok = "PRT" /\ iostyle = 3)
    <2>1. cmd.tok \in PlainToks
      BY <1>8
    <2>2. Plain(At(cmd.tok, cmd.c, s.l.mov))
      BY <1>1, <2>1, MadePlain
    <2>3. AppendCommand(s, cmd) = NewNode(s, At(cmd.tok, cmd.c, s.l.mov))
      BY <1>8 DEF AppendCommand
    <2>4. QED BY <1>2, <2>2, <2>3
  <1>9. QED BY <1>3, <1>4, <1>5, <1>6, <1>7, <1>8

\* A loop that closes right behind its bracket.
LEMMA EndlessReady ==
  ASSUME NEW s, Ready(s), s.t.num + 3 <= MaxNode, s.l.p # Null,
         s.t.node[s.l.p].type = "WHL"
  PROVE  Ready(Endless(s))
  <1> DEFINE p == s.l.p
             w == IF opt_no_endif THEN s ELSE [s EXCEPT !.t.node[p].type = "IF"]
             n == NewNode(w, Blank("STOP"))
             tok == IF opt_no_endif THEN "END" ELSE "ENDIF"
             e == CloseNode(n, tok)
  <1>1. /\ s.t \in Tree /\ s.l \in LoaderState /\ s.t.num \in Nat /\ p \in NodeId
        /\ s = [t |-> s.t, l |-> s.l]
    BY NumIsNat
  <1>2. s.l.jst = p
    <2>1. Sound(s.t, p, s.l.jst) /\ s.t.node[p].type \in Openers
      BY DEF Ready, Openers
    <2>2. QED BY <1>1, <2>1, LastIsTop
  <1>3. Ready(w) /\ w.t.num = s.t.num /\ w.l = s.l
    <2> DEFINE v == [s.t EXCEPT !.node[p].type = "IF"]
    <2>1. CASE opt_no_endif
      BY <2>1
    <2>2. CASE ~opt_no_endif
      <3>1. Sound(v, p, p)
        BY <1>1, <1>2, TurnedIf DEF Ready
      <3>2. v.num = s.t.num
        BY <1>1 DEF Tree
      <3>3. v \in Tree
        BY <3>1 DEF Sound, Linked
      <3> HIDE DEF v
      <3>4. w = [t |-> v, l |-> s.l]
        BY <1>1, <2>2, PairNodeEdits DEF v
      <3>5. Ready([t |-> v, l |-> s.l])
        BY <1>1, <1>2, <3>1, <3>3 DEF Ready
      <3>6. QED BY <3>2, <3>4, <3>5
    <2>3. QED BY <2>1, <2>2
  <1>4. Endless(s) = IF opt_no_endif THEN e ELSE NewNode(e, At("SET", 0, 0))
    BY DEF Endless
  <1>5. tok \in Closers
    BY DEF Closers
  <1> HIDE DEF w, tok
  <1>6. Plain(Blank("STOP")) /\ Plain(At("SET", 0, 0))
    BY MadePlain, PlainTokens
  <1>7. Grown(w, n, 1) /\ n.l.jst = w.l.jst
    BY <1>1, <1>3, <1>6, NewNodeReady
  <1> HIDE DEF n
  <1>8. Ready(n) /\ n.t.num \in Nat /\ n.t.num <= s.t.num + 1 /\ n.l.jst # Null
    BY <1>1, <1>2, <1>3, <1>7, NumIsNat DEF Grown
  <1>9. Grown(n, e, 1)
    BY <1>1, <1>5, <1>8, CloseNodeReady
  <1> HIDE DEF e
  <1>10. Ready(e) /\ e.t.num \in Nat /\ e.t.num < MaxNode
    BY <1>1, <1>8, <1>9, NumIsNat DEF Grown
  <1>11. Ready(NewNode(e, At("SET", 0, 0)))
    BY <1>6, <1>10, NewNodeReady DEF Grown
  <1>12. QED BY <1>4, <1>10, <1>11

\* The count of a node that is added to, which may take the node away.
LEMMA MergedReady ==
  ASSUME NEW s, Ready(s), s.l.p # Null, NEW c \in Int,
         s.t.node[s.l.p].type \in {"ADD", "SET"}
  PROVE  Ready(Merged(s, c))
  <1> DEFINE p == s.l.p
             sum == s.t.node[p].count + c
             back == s.t.prev[p]
  <1>1. /\ s.t \in Tree /\ s.l \in LoaderState /\ p \in NodeId /\ back \in Link
        /\ Sound(s.t, p, s.l.jst) /\ s = [t |-> s.t, l |-> s.l]
    <2>1. /\ s.t \in Tree /\ s.l \in LoaderState /\ p \in NodeId
          /\ s = [t |-> s.t, l |-> s.l]
      BY NumIsNat
    <2>2. back \in Link
      BY <2>1 DEF Tree
    <2>3. QED BY <2>1, <2>2 DEF Ready
  <1>2. s.t.node[p].type \notin Bracket /\ sum \in Int
    <2>1. s.t.node[p] \in Node
      BY <1>1 DEF Tree
    <2>2. QED BY <2>1 DEF Bracket, Openers, Closers, Node
  <1>3. CASE sum = 0 /\ s.t.node[p].type # "SET"
    <2> DEFINE k == [s.l EXCEPT !.p = back]
    <2>1. Merged(s, c) = [t |-> Shortened(s.t, p), l |-> k]
      BY <1>3 DEF Merged, Shortened
    <2>2. Sound(Shortened(s.t, p), back, s.l.jst)
      BY <1>1, <1>2, TakenBack
    <2>3. k \in LoaderState /\ k.p = back /\ k.jst = s.l.jst
      BY <1>1 DEF LoaderState
    <2> HIDE DEF k
    <2>4. Shortened(s.t, p) \in Tree
      BY <2>2 DEF Sound, Linked
    <2>5. QED BY <2>1, <2>2, <2>3, <2>4 DEF Ready
  <1>4. CASE ~(sum = 0 /\ s.t.node[p].type # "SET")
    <2> DEFINE v == [s.t EXCEPT !.node[p].count = sum]
    <2>1. Merged(s, c) = [s EXCEPT !.t.node[p].count = sum]
      BY <1>4 DEF Merged
    <2>2. Sound(v, p, s.l.jst)
      BY <1>1, <1>2, Recounted
    <2> HIDE DEF v
    <2>3. Merged(s, c) = [t |-> v, l |-> s.l]
      BY <1>1, <2>1, PairNodeEdits DEF v
    <2>4. v \in Tree
      BY <2>2 DEF Sound, Linked
    <2>5. QED BY <1>1, <2>2, <2>3, <2>4 DEF Ready
  <1>5. QED BY <1>3, <1>4

(***************************************************************************)
(* The invariant.                                                          *)
(***************************************************************************)
IInv ==
  /\ Ready(Now)
  /\ phase = "closing" => ld.jst # Null
  /\ phase = "loaded" => ld.jst = Null

\* The empty program.
LEMMA InitReady == Init => IInv
  <1> SUFFICES ASSUME Init PROVE IInv
    OBVIOUS
  <1>1. /\ tree = EmptyTree /\ ld \in LoaderState /\ ld.p = Null /\ ld.jst = Null
        /\ phase = "reading"
    BY DEF Init, LoaderState
  <1>2. FreeNode \in Node /\ FreeNode.type = "FREE"
    BY DEF FreeNode, Blank, Node, Token
  <1>3. /\ tree \in Tree /\ tree.num = 0
        /\ \A x \in Link : tree.next[x] = Null
        /\ \A x \in NodeId : tree.node[x] = FreeNode /\ tree.prev[x] = Null
    BY <1>1, <1>2 DEF EmptyTree, Tree
  <1>4. \A x : ~Live(tree, x)
    BY <1>2, <1>3 DEF Live
  <1>5. Linked(tree, Null)
    BY <1>3, <1>4 DEF Linked, DoublyLinked, Unallocated
  <1>6. \A x \in NodeId : /\ ~Open(tree, x) /\ tree.node[x].type \notin Bracket
                         /\ tree.node[x].type # "LT"
    BY <1>2, <1>3 DEF Open, Bracket, Openers, Closers
  <1>7. Stacked(tree, Null) /\ Closed(tree) /\ Shut(tree) /\ NoneCompares(tree)
    BY <1>6 DEF Stacked, Closed, Shut, Bracket, NoneCompares
  <1>8. Now.t = tree /\ Now.l = ld /\ Now \in [t : Tree, l : LoaderState]
    BY <1>1, <1>3 DEF Now
  <1>9. QED BY <1>1, <1>5, <1>7, <1>8 DEF IInv, Ready, Sound

\* Reading, a character is all that may stop the loader from growing the tree.
LEMMA Reads ==
  ASSUME NEW ch, Getc(ch), IInv
  PROVE  /\ Ready(Now) /\ HasRoomFor(tree, 6) /\ phase' = "reading"
         /\ ld \in LoaderState
  BY NumIsNat DEF Getc, IInv, Now

\* If the tree stays, so does what is known of it.
LEMMA TreeStays ==
  ASSUME Ready(Now), tree' = tree, ld' \in LoaderState, ld'.p = ld.p, ld'.jst = ld.jst
  PROVE  Ready(Now)'
  <1>1. Now.t = tree /\ Now.l = ld
    BY DEF Now
  <1>2. Ready([t |-> tree, l |-> ld'])
    BY <1>1, OthersFree
  <1>3. QED BY <1>2 DEF Now, Ready

\* The state that a handler computes is the next one.
LEMMA BecomesReady ==
  ASSUME NEW s, Ready(s), Becomes(s)
  PROVE  Ready(Now)'
  <1>1. s = [t |-> s.t, l |-> s.l]
    BY NumIsNat
  <1>2. Now' = s
    BY <1>1 DEF Now, Becomes
  <1>3. QED BY <1>2 DEF Ready

\* Every character read.
LEMMA ReadCharReady ==
  ASSUME NEW ch, ReadChar(ch), IInv
  PROVE  IInv'
  <1>1. ASSUME Getc(ch), Ready(Now)'
        PROVE  IInv'
    BY <1>1, Reads DEF IInv
  <1>2. CASE ReadDigit(ch)
    <2>1. Getc(ch) /\ tree' = tree /\ ch \in DOMAIN DigitOf
      BY <1>2 DEF ReadDigit
    <2>2. ld \in LoaderState /\ Ready(Now)
      BY <2>1, Reads
    <2>3. DigitOf[ch] \in Int /\ ld.num \in Int
      BY <2>1, <2>2 DEF DigitOf, LoaderState
    <2>4. \/ ld' = [ld EXCEPT !.num = DigitOf[ch], !.rle = TRUE, !.ov = FALSE]
          \/ ld' = [ld EXCEPT !.ov = TRUE, !.num = -1]
          \/ ld' = [ld EXCEPT !.num = ld.num * 10 + DigitOf[ch]]
      BY <1>2 DEF ReadDigit
    <2>5. ld.num * 10 + DigitOf[ch] \in Int /\ -1 \in Int
      BY <2>3
    <2>6. ld' \in LoaderState /\ ld'.p = ld.p /\ ld'.jst = ld.jst
      BY <2>2, <2>3, <2>4, <2>5 DEF LoaderState
    <2>7. QED BY <1>1, <2>1, <2>2, <2>6, TreeStays
  <1>3. CASE ReadBlank(ch)
    <2>1. Getc(ch) /\ tree' = tree /\ ld' = [ld EXCEPT !.rle = FALSE]
      BY <1>3 DEF ReadBlank
    <2>2. ld \in LoaderState /\ Ready(Now)
      BY <2>1, Reads
    <2>3. ld' \in LoaderState /\ ld'.p = ld.p /\ ld'.jst = ld.jst
      BY <2>1, <2>2 DEF LoaderState
    <2>4. QED BY <1>1, <2>1, <2>2, <2>3, TreeStays
  <1>4. CASE ReadComment(ch)
    <2>1. Getc(ch) /\ tree' = tree /\ ld' = CountUsed
      BY <1>4 DEF ReadComment, ReadCommand
    <2>2. ld \in LoaderState /\ Ready(Now)
      BY <2>1, Reads
    <2>3. QED BY <1>1, <2>1, <2>2, CountGone, TreeStays
  <1>5. CASE SkipDeadLoop(ch)
    <2> DEFINE tok == Command(ch, ld).tok
               d == CASE tok = "WHL" -> CountUsed.dld + 1
                      [] tok = "END" -> CountUsed.dld - 1
                      [] OTHER       -> CountUsed.dld
    <2>1. Getc(ch) /\ tree' = tree /\ ld' = [CountUsed EXCEPT !.dld = d]
      BY <1>5 DEF SkipDeadLoop, ReadCommand
    <2>2. ld \in LoaderState /\ Ready(Now)
      BY <2>1, Reads
    <2>3. CountUsed \in LoaderState /\ CountUsed.p = ld.p /\ CountUsed.jst = ld.jst
      BY <2>2, CountGone
    <2>4. CountUsed.dld \in Int
      BY <2>3 DEF LoaderState
    <2>5. d \in Int
      BY <2>4
    <2> HIDE DEF d
    <2>6. ld' \in LoaderState /\ ld'.p = ld.p /\ ld'.jst = ld.jst
      BY <2>1, <2>3, <2>5 DEF LoaderState
    <2>7. QED BY <1>1, <2>1, <2>2, <2>6, TreeStays
  <1>6. CASE ContinueZeroLoop(ch)
    <2>1. PICK z \in {2, 3} : ld' = [CountUsed EXCEPT !.z = z]
      BY <1>6 DEF ContinueZeroLoop
    <2>2. Getc(ch) /\ tree' = tree
      BY <1>6 DEF ContinueZeroLoop, Lives, ReadCommand
    <2>3. ld \in LoaderState /\ Ready(Now)
      BY <2>2, Reads
    <2>4. CountUsed \in LoaderState /\ CountUsed.p = ld.p /\ CountUsed.jst = ld.jst
      BY <2>3, CountGone
    <2>5. ld' \in LoaderState /\ ld'.p = ld.p /\ ld'.jst = ld.jst
      BY <2>1, <2>4 DEF LoaderState
    <2>6. QED BY <1>1, <2>2, <2>3, <2>5, TreeStays
  <1>7. CASE CloseZeroLoop(ch)
    <2> DEFINE k == [CountUsed EXCEPT !.z = 0]
               s == [t |-> tree, l |-> k]
    <2>1. Becomes(NewNode(s, At("SET", 0, ld.mov))) /\ Getc(ch)
      BY <1>7 DEF CloseZeroLoop, Lives, ReadCommand
    <2>2. ld \in LoaderState /\ Ready(Now) /\ HasRoomFor(tree, 6)
      BY <2>1, Reads
    <2>3. CountUsed \in LoaderState /\ CountUsed.p = ld.p /\ CountUsed.jst = ld.jst
      BY <2>2, CountGone
    <2>4. k \in LoaderState /\ k.p = ld.p /\ k.jst = ld.jst
      BY <2>3 DEF LoaderState
    <2> HIDE DEF k
    <2>5. Now.t = tree /\ Now.l = ld /\ s.t = tree
      BY DEF Now
    <2>6. Ready(s)
      BY <2>2, <2>4, <2>5, OthersFree
    <2>7. s.t.num < MaxNode /\ ld.mov \in Int
      BY <2>2, <2>5, NumIsNat DEF HasRoomFor
    <2> HIDE DEF s
    <2>8. Plain(At("SET", 0, ld.mov))
      BY <2>7, MadePlain, PlainTokens
    <2>9. Ready(NewNode(s, At("SET", 0, ld.mov)))
      BY <2>6, <2>7, <2>8, NewNodeReady DEF Grown
    <2>10. QED BY <1>1, <2>1, <2>9, BecomesReady
  <1>8. ASSUME Ordinary(ch)
        PROVE  /\ Getc(ch) /\ \A tok : Ready(Placed(tok)) /\ Placed(tok).t.num + 3 <= MaxNode
               /\ Ready(Flushed)
               /\ Command(ch, ld).tok \in PlainToks \cup {"WHL", "END"}
               /\ Command(ch, ld).c \in Int
    <2>1. Getc(ch)
      BY <1>8 DEF Ordinary, Lives, ReadCommand
    <2>2. ld \in LoaderState /\ Ready(Now) /\ HasRoomFor(tree, 6)
      BY <2>1, Reads
    <2>3. \A tok : Ready(Placed(tok)) /\ Placed(tok).t.num + 3 <= MaxNode
      BY <2>2, PlacedReady
    <2>4. Placed("NOP") = Flushed
      BY DEF Placed
    <2>5. QED BY <2>1, <2>2, <2>3, <2>4, Commanded
  <1>9. CASE KeepLoop(ch) \/ KeepMovement(ch)
    <2> DEFINE c == Command(ch, ld).c
               k == IF KeepLoop(ch) THEN [Flushed.l EXCEPT !.z = 1]
                    ELSE [Flushed.l EXCEPT !.mov = @ + c]
    <2>1. Ordinary(ch)
      BY <1>9 DEF KeepLoop, KeepMovement
    <2>2. Getc(ch) /\ Ready(Flushed) /\ c \in Int
      BY <1>8, <2>1
    <2>3. /\ Flushed = [t |-> Flushed.t, l |-> Flushed.l] /\ Flushed.l \in LoaderState
          /\ Flushed.l.mov \in Int
      BY <2>2, NumIsNat
    <2>4. k \in LoaderState /\ k.p = Flushed.l.p /\ k.jst = Flushed.l.jst
      <3>1. Flushed.l.mov + c \in Int
        BY <2>2, <2>3
      <3> HIDE DEF c
      <3>2. QED BY <2>3, <3>1 DEF LoaderState
    <2>5. Ready([t |-> Flushed.t, l |-> k])
      BY <2>2, <2>4, OthersFree
    <2>6. Becomes([t |-> Flushed.t, l |-> k])
      <3>1. CASE KeepLoop(ch)
        <4>1. Becomes([Flushed EXCEPT !.l.z = 1])
          BY <3>1 DEF KeepLoop
        <4>2. QED BY <2>3, <3>1, <4>1, PairEdits
      <3>2. CASE ~KeepLoop(ch)
        <4>1. PICK x : x = Flushed.l.mov + c
          OBVIOUS
        <4>2. Becomes([Flushed EXCEPT !.l.mov = x])
          BY <1>9, <3>2, <4>1 DEF KeepMovement
        <4>3. k = [Flushed.l EXCEPT !.mov = x]
          BY <3>2, <4>1
        <4> HIDE DEF k
        <4>4. [Flushed EXCEPT !.l.mov = x] = [t |-> Flushed.t, l |-> [Flushed.l EXCEPT !.mov = x]]
          BY <2>3, PairEdits
        <4>5. QED BY <4>2, <4>3, <4>4
      <3>3. QED BY <3>1, <3>2
    <2>7. QED BY <1>1, <2>2, <2>5, <2>6, BecomesReady
  <1>10. CASE MergeCount(ch)
    <2> DEFINE cmd == Command(ch, ld)
               s == Placed(cmd.tok)
    <2>1. Ordinary(ch) /\ Merges(s, cmd) /\ Becomes(Merged(s, cmd.c))
      BY <1>10 DEF MergeCount
    <2>2. Getc(ch) /\ Ready(s) /\ cmd.c \in Int
      BY <1>8, <2>1
    <2> HIDE DEF s, cmd
    <2>3. s.l.p # Null /\ s.t.node[s.l.p].type \in {"ADD", "SET"}
      BY <2>1 DEF Merges
    <2>4. QED BY <1>1, <2>1, <2>2, <2>3, MergedReady, BecomesReady
  <1>11. CASE EndlessLoop(ch)
    <2> DEFINE tok == Command(ch, ld).tok
               s == Placed(tok)
    <2>1. Ordinary(ch) /\ IsEndless(s, tok) /\ Becomes(Endless(s))
      BY <1>11 DEF EndlessLoop
    <2>2. Getc(ch) /\ Ready(s) /\ s.t.num + 3 <= MaxNode
      BY <1>8, <2>1
    <2> HIDE DEF s, tok
    <2>3. s.l.p # Null /\ s.t.node[s.l.p].type = "WHL"
      BY <2>1 DEF IsEndless
    <2>4. QED BY <1>1, <2>1, <2>2, <2>3, EndlessReady, BecomesReady
  <1>12. CASE NewCommand(ch)
    <2> DEFINE cmd == Command(ch, ld)
               s == Placed(cmd.tok)
    <2>1. Ordinary(ch) /\ Becomes(AppendCommand(s, cmd))
      BY <1>12 DEF NewCommand
    <2>2. /\ Getc(ch) /\ Ready(s) /\ s.t.num + 3 <= MaxNode
          /\ cmd.tok \in PlainToks \cup {"WHL", "END"} /\ cmd.c \in Int
      BY <1>8, <2>1
    <2> HIDE DEF s, cmd
    <2>3. QED BY <1>1, <2>1, <2>2, AppendCommandReady, BecomesReady
  <1>13. QED
    BY <1>2, <1>3, <1>4, <1>5, <1>6, <1>7, <1>9, <1>10, <1>11, <1>12 DEF ReadChar

\* Walking to the end finds the node the last call ended with.
LEMMA EndOfFileReady ==
  ASSUME EndOfFile, IInv
  PROVE  IInv'
  <1> DEFINE s == FlushMov(Now)
             k == [s.l EXCEPT !.p = LastOf(s.t)]
  <1>1. Ready(Now) /\ Now.t = tree /\ HasRoomFor(tree, 1) /\ phase' = "reading"
    BY DEF EndOfFile, IInv, Now
  <1>2. Ready(s)
    <2>1. Now.t.num < MaxNode
      BY <1>1, NumIsNat DEF HasRoomFor
    <2>2. QED BY <1>1, <2>1, FlushMovReady DEF Grown
  <1>3. Becomes([s EXCEPT !.l.p = LastOf(s.t)])
    BY DEF EndOfFile, Now
  <1> HIDE DEF s
  <1>4. s.l \in LoaderState /\ s.l.p \in Link /\ s = [t |-> s.t, l |-> s.l]
    BY <1>2, NumIsNat
  <1>5. LastOf(s.t) = s.l.p
    <2>1. /\ s.l.p = Null \/ Live(s.t, s.l.p)
          /\ s.t.next[s.l.p] = Null
          /\ \A x \in Link : (x = Null \/ Live(s.t, x)) /\ s.t.next[x] = Null => x = s.l.p
      BY <1>2 DEF Ready, Sound, Linked
    <2>2. QED BY <1>4, <2>1 DEF LastOf
  <1>6. k \in LoaderState /\ k.p = s.l.p /\ k.jst = s.l.jst
    BY <1>4, <1>5 DEF LoaderState
  <1>7. [s EXCEPT !.l.p = LastOf(s.t)] = [t |-> s.t, l |-> k]
    BY <1>4, PairEdits
  <1> HIDE DEF k
  <1>8. Ready([t |-> s.t, l |-> k])
    BY <1>2, <1>6, OthersFree
  <1>9. QED BY <1>1, <1>3, <1>7, <1>8, BecomesReady DEF IInv

\* The end of the last file: the movement kept back, and a dump.
LEMMA LastFileEndsReady ==
  ASSUME LastFileEnds, IInv
  PROVE  IInv'
  <1> DEFINE s == FlushMov(Now)
             d == AppendDump(s)
  <1>1. /\ Ready(Now) /\ Now.t = tree /\ Now.l = ld /\ HasRoomFor(tree, 2)
        /\ Becomes(d) /\ phase' = IF ld.jst = Null THEN "loaded" ELSE "closing"
    BY DEF LastFileEnds, IInv, Now
  <1>2. tree.num \in Nat /\ Now.t.num < MaxNode /\ tree.num + 2 <= MaxNode
    BY <1>1, NumIsNat DEF HasRoomFor
  <1>3. Grown(Now, s, 1) /\ s.l.jst = ld.jst
    BY <1>1, <1>2, FlushMovReady
  <1> HIDE DEF s
  <1>4. Ready(s) /\ s.t.num \in Nat /\ s.t.num < MaxNode
    BY <1>1, <1>2, <1>3, NumIsNat DEF Grown
  <1>5. Ready(d) /\ d.l.jst = ld.jst
    <2>1. CASE d = s
      BY <1>3, <1>4, <2>1
    <2>2. CASE d = NewNode(s, Blank("DUMP"))
      <3>1. Plain(Blank("DUMP"))
        BY MadePlain, PlainTokens
      <3>2. QED BY <1>3, <1>4, <2>2, <3>1, NewNodeReady DEF Grown
    <2>3. QED BY <2>1, <2>2 DEF AppendDump
  <1> HIDE DEF d
  <1>6. ld'.jst = ld.jst
    BY <1>1, <1>5 DEF Becomes
  <1>7. Ready(Now)'
    BY <1>1, <1>5, BecomesReady
  <1>8. QED BY <1>1, <1>6, <1>7 DEF IInv

\* The opener of a loop that is never closed becomes a T_NOP.
LEMMA GiveUpReady ==
  ASSUME GiveUpLoop, IInv
  PROVE  IInv'
  <1> DEFINE u == AsNop(tree, ld.jst)
             k == [ld EXCEPT !.jst = tree.node[ld.jst].jmp]
  <1>1. /\ Ready(Now) /\ Now.t = tree /\ Now.l = ld /\ ld.jst # Null
        /\ tree' = u /\ ld' = k
        /\ phase' = IF ld'.jst = Null THEN "loaded" ELSE "closing"
    BY DEF GiveUpLoop, IInv, Now
  <1>2. ld \in LoaderState /\ Sound(tree, ld.p, ld.jst)
    BY <1>1, NumIsNat DEF Ready
  <1>3. Sound(u, ld.p, tree.node[ld.jst].jmp) /\ tree.node[ld.jst].jmp \in Link
    <2>1. Sound(u, ld.p, tree.node[ld.jst].jmp)
      BY <1>1, <1>2, GivenUp
    <2>2. tree.node[ld.jst].jmp \in Link
      BY <1>1, <1>2, TopOpen
    <2>3. QED BY <2>1, <2>2
  <1>4. k \in LoaderState /\ k.p = ld.p /\ k.jst = tree.node[ld.jst].jmp
    BY <1>2, <1>3 DEF LoaderState
  <1>5. u \in Tree
    BY <1>3 DEF Sound, Linked
  <1> HIDE DEF u, k
  <1>6. Ready([t |-> u, l |-> k])
    BY <1>3, <1>4, <1>5 DEF Ready
  <1>7. Now' = [t |-> u, l |-> k]
    BY <1>1 DEF Now
  <1>8. Ready(Now)'
    BY <1>6, <1>7 DEF Ready
  <1>9. QED BY <1>1, <1>8 DEF IInv

\* No step of the loader leaves the list or the stack in disorder.
LEMMA NextReady == IInv /\ [Next]_vars => IInv'
  <1> SUFFICES ASSUME IInv, [Next]_vars PROVE IInv'
    OBVIOUS
  <1>1. CASE \E ch \in Chars : ReadChar(ch)
    BY <1>1, ReadCharReady
  <1>2. CASE EndOfFile
    BY <1>2, EndOfFileReady
  <1>3. CASE LastFileEnds
    BY <1>3, LastFileEndsReady
  <1>4. CASE GiveUpLoop
    BY <1>4, GiveUpReady
  <1>5. CASE UNCHANGED vars
    BY <1>5 DEF vars, IInv, Now, Ready
  <1>6. QED BY <1>1, <1>2, <1>3, <1>4, <1>5 DEF Next

\* The tree under construction is sound after every character, its open loops
\* on the stack: the invariant of load_file's loop.
THEOREM Loading == Spec => []IInv
  BY InitReady, NextReady, PTL DEF Spec

\* The optimiser is given a sound tree, whatever the source and the options:
\* what PointerScan assumes of StartTrees.
THEOREM Delivers == Spec => []LoadedWellFormed
  <1>1. IInv => LoadedWellFormed
    <2> SUFFICES ASSUME IInv, phase = "loaded"
                 PROVE  /\ tree \in Tree /\ WellFormed(tree) /\ Complete(tree)
                        /\ Nested(tree) /\ Factors(tree)
      BY DEF LoadedWellFormed
    <2>1. Sound(tree, ld.p, Null)
      BY DEF IInv, Ready, Now
    <2>2. QED BY <2>1, NoneOpen
  <1>2. QED BY <1>1, Loading, PTL

\* Unclosed loops are those whose jmp leads outwards.
LEMMA UnclosedIsOpen ==
  ASSUME NEW p, NEW jst, Sound(tree, p, jst), tree \in Tree, NEW x \in NodeId
  PROVE  Unclosed(x) <=> Open(tree, x)
  <1>1. ASSUME Open(tree, x), NEW y \in NodeId, tree.node[y].type \in Closers,
               tree.node[y].jmp = x
        PROVE  FALSE
    <2>1. ~Open(tree, y) /\ tree.node[y].type \in Bracket
      BY <1>1 DEF Open, Bracket, Openers, Closers
    <2>2. QED BY <1>1, <2>1 DEF Sound, Closed
  <1>2. ASSUME Unclosed(x), ~Open(tree, x)
        PROVE  FALSE
    <2>1. PICK y : y = tree.node[x].jmp
      OBVIOUS
    <2>2. y \in NodeId /\ tree.node[y].type \in Closers /\ tree.node[y].jmp = x
      BY <1>2, <2>1 DEF Sound, Closed, Unclosed, Bracket
    <2>3. QED BY <1>2, <2>2 DEF Unclosed
  <1>3. QED BY <1>1, <1>2 DEF Unclosed, Open

\* The stack that runs through the jmp fields holds the unclosed loops, each
\* above the one around it, and p is where the list ends.
THEOREM StackHoldsOpenLoops == Spec => []StackIsOpenLoops
  <1>1. IInv => StackIsOpenLoops
    <2> SUFFICES ASSUME IInv PROVE StackIsOpenLoops
      OBVIOUS
    <2>1. Sound(tree, ld.p, ld.jst) /\ tree \in Tree /\ ld.p \in Link
      <3>1. Ready(Now) /\ Now.t = tree /\ Now.l = ld
        BY DEF IInv, Now
      <3>2. QED BY <3>1, NumIsNat DEF Ready
    <2>2. \A x \in NodeId : Unclosed(x) <=> Open(tree, x)
      BY <2>1, UnclosedIsOpen
    <2> DEFINE open == {x \in NodeId : Unclosed(x)}
    <2>3. \A x \in NodeId : x \in open <=> Open(tree, x)
      BY <2>2
    <2>4. open \subseteq NodeId
      OBVIOUS
    <2> HIDE DEF open
    <2>5. IsLast(ld.jst, open)
      BY <2>1, <2>3, <2>4 DEF IsLast, Sound, Stacked
    <2>6. ASSUME NEW x \in open
          PROVE  IsLast(tree.node[x].jmp, {y \in open : y < x})
      <3>1. Open(tree, x) /\ x \in NodeId /\ tree.node[x].jmp \in Link
        BY <2>1, <2>3, <2>4, <2>6 DEF Tree, Node
      <3>2. tree.node[x].jmp < x /\ (tree.node[x].jmp = Null \/ Open(tree, tree.node[x].jmp))
        BY <2>1, <3>1 DEF Open, Sound, Stacked
      <3>3. \A y \in open : y < x => y <= tree.node[x].jmp
        BY <2>1, <2>3, <2>4, <3>1 DEF Sound, Stacked
      <3>4. QED BY <2>3, <3>1, <3>2, <3>3 DEF IsLast
    <2>7. IsLast(ld.p, {x \in NodeId : Live(tree, x)}) /\ tree.next[ld.p] = Null
      BY <2>1 DEF IsLast, Sound, Linked
    <2>8. QED BY <2>5, <2>6, <2>7 DEF StackIsOpenLoops, open
  <1>2. QED BY <1>1, Loading, PTL

(***************************************************************************)
(* How many loops are open.                                                *)
(***************************************************************************)
OpenOf(t)    == {x \in NodeId : Open(t, x)}
OpenCount(t) == Cardinality(OpenOf(t))

\* k loops more are open in r than in s, and the other counts are the same.
Opens(s, r, k) ==
  /\ OpenCount(r.t) = OpenCount(s.t) + k
  /\ r.l.z = s.l.z /\ r.l.dld = s.l.dld

\* There are finitely many nodes.
LEMMA OpenFinite ==
  ASSUME NEW t
  PROVE  IsFiniteSet(OpenOf(t)) /\ OpenCount(t) \in Nat
  <1>1. IsFiniteSet(NodeId)
    BY FS_Interval DEF NodeId
  <1>2. IsFiniteSet(OpenOf(t))
    BY <1>1, FS_Subset DEF OpenOf
  <1>3. QED BY <1>2, FS_CardinalityType DEF OpenCount

\* No loop is open when the stack is empty.
LEMMA EmptyStack ==
  ASSUME NEW t, NEW p, Sound(t, p, Null)
  PROVE  OpenCount(t) = 0
  <1>1. \A x \in NodeId : ~Open(t, x)
    BY DEF Sound, Stacked
  <1>2. OpenOf(t) = {}
    BY <1>1 DEF OpenOf
  <1>3. QED BY <1>2, FS_EmptySet DEF OpenCount

\* One bracket that is open more or less.
LEMMA OneOpen ==
  ASSUME NEW t, NEW u, NEW x \in NodeId, Open(u, x), ~Open(t, x),
         \A y \in NodeId : y # x => (Open(u, y) <=> Open(t, y))
  PROVE  OpenCount(u) = OpenCount(t) + 1
  <1>1. OpenOf(u) = OpenOf(t) \cup {x} /\ x \notin OpenOf(t)
    BY DEF OpenOf
  <1>2. QED BY <1>1, OpenFinite, FS_AddElement DEF OpenCount

\* The same brackets are open.
LEMMA SameOpen ==
  ASSUME NEW t, NEW u, \A y \in NodeId : Open(u, y) <=> Open(t, y)
  PROVE  OpenCount(u) = OpenCount(t)
  <1>1. OpenOf(u) = OpenOf(t)
    BY DEF OpenOf
  <1>2. QED BY <1>1 DEF OpenCount

\* What one step opens and the next one opens add up.
LEMMA OpensOn ==
  ASSUME NEW s, NEW r, NEW q, NEW k \in Int, NEW j \in Int, Opens(s, r, k), Opens(r, q, j)
  PROVE  Opens(s, q, k + j)
  BY OpenFinite DEF Opens

\* A node at the end of the list.
LEMMA NodeAdded ==
  ASSUME NEW t, NEW p, NEW jst, Sound(t, p, jst), t.num < MaxNode,
         NEW nd \in Node, nd.type # "FREE"
  PROVE  LET u == AddNodeAfter(t, p, nd) IN
         /\ t.num + 1 \in NodeId /\ ~Open(t, t.num + 1) /\ u.node[t.num + 1] = nd
         /\ \A x \in NodeId : x # t.num + 1 => u.node[x] = t.node[x]
  <1> DEFINE u == AddNodeAfter(t, p, nd)
             id == t.num + 1
  <1>1. t \in Tree /\ id \in NodeId /\ t.node[id] = FreeNode
    <2>1. t \in Tree /\ Unallocated(t) /\ t.num \in Nat /\ id \in NodeId
      BY DEF Sound, Linked, Tree
    <2>2. QED BY <2>1 DEF Unallocated
  <1>2. u.node = [t.node EXCEPT ![id] = nd]
    <2>1. Linked(t, p)
      BY DEF Sound
    <2>2. /\ Linked(u, t.num + 1)
          /\ u.prev = [t.prev EXCEPT ![t.num + 1] = p]
          /\ u.node = [t.node EXCEPT ![t.num + 1] = nd]
          /\ u.num = t.num + 1
      BY <2>1, ListGrows
    <2>3. QED BY <2>2
  <1>3. ~Open(t, id)
    BY <1>1 DEF Open, FreeNode, Blank, Openers
  <1>4. QED BY <1>1, <1>2, <1>3 DEF Tree

\* A plain node opens nothing.
LEMMA NewNodeOpens ==
  ASSUME NEW s, Ready(s), s.t.num < MaxNode, NEW nd, Plain(nd)
  PROVE  Opens(s, NewNode(s, nd), 0)
  <1> DEFINE id == s.t.num + 1
             u == AddNodeAfter(s.t, s.l.p, nd)
             k == [s.l EXCEPT !.p = id]
  <1>1. NewNode(s, nd) = [t |-> u, l |-> k]
    BY DEF NewNode
  <1>2. k.z = s.l.z /\ k.dld = s.l.dld
    BY NumIsNat DEF LoaderState
  <1>3. /\ id \in NodeId /\ ~Open(s.t, id) /\ u.node[id] = nd
        /\ \A x \in NodeId : x # id => u.node[x] = s.t.node[x]
    BY NodeAdded DEF Ready, Plain
  <1> HIDE DEF u, id
  <1>4. nd.type \notin Openers
    BY DEF Plain, Bracket
  <1>5. \A x \in NodeId : Open(u, x) <=> Open(s.t, x)
    BY <1>3, <1>4 DEF Open
  <1>6. OpenCount(u) = OpenCount(s.t) /\ OpenCount(s.t) \in Nat
    BY <1>5, SameOpen, OpenFinite
  <1> HIDE DEF k
  <1>7. QED BY <1>1, <1>2, <1>6 DEF Opens

\* A [ opens a loop,
LEMMA OpenNodeOpens ==
  ASSUME NEW s, Ready(s), s.t.num < MaxNode
  PROVE  Opens(s, OpenNode(s), 1)
  <1> DEFINE id == s.t.num + 1
             nd == [Blank("WHL") EXCEPT !.jmp = s.l.jst]
             u == AddNodeAfter(s.t, s.l.p, nd)
             k == [s.l EXCEPT !.p = id, !.jst = id]
  <1>1. OpenNode(s) = [t |-> u, l |-> k]
    <2> DEFINE h == [s.l EXCEPT !.p = id]
    <2>1. NewNode(s, nd) = [t |-> u, l |-> h]
      BY DEF NewNode
    <2>2. h.p = id /\ k = [h EXCEPT !.jst = id]
      BY NumIsNat DEF LoaderState
    <2> HIDE DEF h, u, k
    <2>3. OpenNode(s) = [[t |-> u, l |-> h] EXCEPT !.l.jst = id]
      BY <2>1, <2>2 DEF OpenNode
    <2> HIDE DEF id
    <2>4. QED BY <2>2, <2>3, PairEdits
  <1>2. k.z = s.l.z /\ k.dld = s.l.dld
    BY NumIsNat DEF LoaderState
  <1>3. nd \in Node /\ nd.type = "WHL" /\ nd.jmp = s.l.jst
    BY NumIsNat DEF Blank, Node, Token, Bracket, Openers
  <1> HIDE DEF nd
  <1>4. /\ id \in NodeId /\ ~Open(s.t, id) /\ u.node[id] = nd
        /\ \A x \in NodeId : x # id => u.node[x] = s.t.node[x]
    BY <1>3, NodeAdded DEF Ready
  <1>5. s.l.jst < id
    <2>1. CASE s.l.jst = Null
      BY <1>4, <2>1
    <2>2. CASE s.l.jst # Null
      <3>1. s.l.jst <= s.l.p /\ s.l.p \in 0 .. s.t.num /\ s.t.num \in Nat /\ s.l.jst \in Nat
        BY <2>2, TopOpen, NumIsNat DEF Ready, Sound, Linked
      <3>2. QED BY <3>1
    <2>3. QED BY <2>1, <2>2
  <1> HIDE DEF u, id
  <1>6. Open(u, id) /\ \A y \in NodeId : y # id => (Open(u, y) <=> Open(s.t, y))
    BY <1>3, <1>4, <1>5 DEF Open, Openers
  <1>7. OpenCount(u) = OpenCount(s.t) + 1
    BY <1>4, <1>6, OneOpen
  <1> HIDE DEF k
  <1>8. QED BY <1>1, <1>2, <1>7 DEF Opens

\* and a ] closes one.
LEMMA CloseNodeOpens ==
  ASSUME NEW s, Ready(s), s.t.num < MaxNode, s.l.jst # Null, NEW tok \in Closers
  PROVE  Opens(s, CloseNode(s, tok), -1)
  <1> DEFINE id == s.t.num + 1
             jst == s.l.jst
             out == s.t.node[jst].jmp
             nd == [Blank(tok) EXCEPT !.jmp = jst]
             u == AddNodeAfter(s.t, s.l.p, nd)
             v == [u EXCEPT !.node[jst].jmp = id]
             k == [s.l EXCEPT !.p = id, !.jst = out]
  <1>1. Sound(s.t, s.l.p, jst) /\ s.l \in LoaderState /\ s.t \in Tree
    BY NumIsNat DEF Ready
  <1>2. nd \in Node /\ nd.type = tok /\ nd.type # "FREE" /\ tok \notin Openers
    BY NumIsNat DEF Blank, Node, Token, Bracket, Closers, Openers
  <1> HIDE DEF nd
  <1>3. /\ id \in NodeId /\ ~Open(s.t, id) /\ u.node[id] = nd
        /\ \A x \in NodeId : x # id => u.node[x] = s.t.node[x]
    BY <1>1, <1>2, NodeAdded
  <1>4. /\ jst \in NodeId /\ Open(s.t, jst) /\ jst < id
    <2>1. /\ jst \in NodeId /\ jst <= s.l.p /\ s.l.p \in 0 .. s.t.num /\ s.t.num \in Nat
      BY <1>1, TopOpen, NumIsNat DEF Sound, Linked
    <2>2. Open(s.t, jst)
      BY <1>1 DEF Sound, Stacked
    <2>3. QED BY <2>1, <2>2
  <1>5. CloseNode(s, tok) = [t |-> v, l |-> k]
    <2> DEFINE h == [s.l EXCEPT !.p = id]
    <2>1. NewNode(s, nd) = [t |-> u, l |-> h]
      BY DEF NewNode
    <2>2. h.p = id /\ k = [h EXCEPT !.jst = out] /\ u.node[jst].jmp = out
      BY <1>1, <1>3, <1>4 DEF LoaderState
    <2>3. CloseNode(s, tok)
            = [ t |-> [NewNode(s, nd).t EXCEPT !.node[jst].jmp = NewNode(s, nd).l.p],
                l |-> [NewNode(s, nd).l EXCEPT !.jst = NewNode(s, nd).t.node[jst].jmp] ]
      BY DEF CloseNode, nd
    <2> HIDE DEF h, u, k
    <2>4. NewNode(s, nd).t = u /\ NewNode(s, nd).l = h
      BY <2>1
    <2>5. QED BY <2>2, <2>3, <2>4
  <1>6. k.z = s.l.z /\ k.dld = s.l.dld
    BY <1>1 DEF LoaderState
  <1>7. u \in Tree
    BY <1>1, <1>2, LastAdded DEF Sound
  <1> HIDE DEF u, id
  <1>8. /\ v.node[jst].jmp = id
        /\ \A x \in NodeId : x # jst => v.node[x] = u.node[x]
    BY <1>4, <1>7 DEF Tree, Node
  <1> HIDE DEF v
  <1>9. ~Open(v, jst)
    BY <1>3, <1>4, <1>8 DEF Open
  <1>10. \A y \in NodeId : y # jst => (Open(s.t, y) <=> Open(v, y))
    BY <1>2, <1>3, <1>8 DEF Open
  <1>11. OpenCount(s.t) = OpenCount(v) + 1
    BY <1>4, <1>9, <1>10, OneOpen
  <1>12. OpenCount(v) = OpenCount(s.t) + -1
    BY <1>11, OpenFinite
  <1> HIDE DEF k
  <1>13. QED BY <1>5, <1>6, <1>12 DEF Opens
\* A movement that is kept back opens nothing.
LEMMA FlushMovOpens ==
  ASSUME NEW s, Ready(s), s.t.num < MaxNode
  PROVE  Opens(s, FlushMov(s), 0)
  <1>1. s.l.mov \in Int
    BY NumIsNat
  <1>2. CASE s.l.mov = 0
    <2>1. FlushMov(s) = s /\ OpenCount(s.t) \in Nat
      BY <1>2, OpenFinite DEF FlushMov
    <2>2. QED BY <2>1 DEF Opens
  <1>3. CASE s.l.mov # 0
    <2> DEFINE nd == At("MOV", s.l.mov, 0)
               m == NewNode(s, nd)
               k == [m.l EXCEPT !.mov = 0]
    <2>1. Plain(nd)
      BY <1>1, MadePlain, PlainTokens
    <2> HIDE DEF nd
    <2>2. Grown(s, m, 1) /\ m = [t |-> m.t, l |-> m.l] /\ Opens(s, m, 0)
      BY <2>1, NewNodeReady, NewNodeOpens
    <2>3. FlushMov(s) = [m EXCEPT !.l.mov = 0]
      BY <1>3 DEF FlushMov, nd
    <2> HIDE DEF m
    <2>4. m.l \in LoaderState
      BY <2>2, NumIsNat DEF Grown
    <2>5. k.z = m.l.z /\ k.dld = m.l.dld
      BY <2>4 DEF LoaderState
    <2> HIDE DEF k
    <2>6. FlushMov(s) = [t |-> m.t, l |-> k]
      BY <2>2, <2>3, PairEdits DEF k
    <2>7. QED BY <2>2, <2>5, <2>6 DEF Opens
  <1>4. QED BY <1>2, <1>3

\* How many loops are open, the one that is kept back among them.
OpenOrKept(s) == OpenCount(s.t) + (IF s.l.z = 0 THEN 0 ELSE 1)

\* The loop that was kept back is opened now.
LEMMA FlushZOpens ==
  ASSUME NEW s, Ready(s), s.t.num + 3 <= MaxNode
  PROVE  /\ OpenCount(FlushZ(s).t) = OpenOrKept(s)
         /\ FlushZ(s).l.z = 0 /\ FlushZ(s).l.dld = s.l.dld
  <1>1. s.l \in LoaderState /\ s.l.z \in 0 .. 3 /\ s.t.num \in Nat /\ OpenCount(s.t) \in Nat
    BY NumIsNat, OpenFinite
  <1>2. \A c \in Int : Plain(At("ADD", c, 0))
    BY MadePlain, PlainTokens
  <1>3. CASE s.l.z = 0
    <2>1. FlushZ(s) = s
      BY <1>3 DEF FlushZ
    <2>2. QED BY <1>1, <1>3, <2>1 DEF OpenOrKept
  <1>4. CASE s.l.z # 0
    <2> DEFINE m == FlushMov(s)
               w == OpenNode(m)
               a == CASE s.l.z = 1 -> w
                      [] s.l.z = 2 -> NewNode(w, At("ADD", -1, 0))
                      [] s.l.z = 3 -> NewNode(w, At("ADD", 1, 0))
               k == [a.l EXCEPT !.z = 0]
    <2>1. Grown(s, m, 1) /\ Opens(s, m, 0)
      BY <1>1, FlushMovReady, FlushMovOpens
    <2>2. FlushZ(s) = [a EXCEPT !.l.z = 0]
      BY <1>4 DEF FlushZ
    <2> HIDE DEF m
    <2>3. /\ Ready(m) /\ m.t.num \in Nat
          /\ m.t.num <= s.t.num + 1 /\ m.t.num < MaxNode
      BY <1>1, <2>1, NumIsNat DEF Grown
    <2>4. /\ s.l.z = 1 => a = w
          /\ s.l.z = 2 => a = NewNode(w, At("ADD", -1, 0))
          /\ s.l.z = 3 => a = NewNode(w, At("ADD", 1, 0))
      OBVIOUS
    <2> HIDE DEF a
    <2>5. Grown(m, w, 1) /\ w = [t |-> w.t, l |-> w.l] /\ Opens(m, w, 1)
      BY <2>3, OpenNodeReady, OpenNodeOpens
    <2> HIDE DEF w
    <2>6. Ready(w) /\ w.t.num \in Nat /\ w.t.num < MaxNode /\ w.l \in LoaderState
      <3>1. Ready(w) /\ w.t.num <= m.t.num + 1 /\ w.t.num \in Nat /\ w.l \in LoaderState
        BY <2>5, NumIsNat DEF Grown
      <3>2. QED BY <1>1, <2>3, <3>1
    <2>7. OpenCount(w.t) = OpenCount(s.t) + 1 /\ w.l.dld = s.l.dld
      BY <1>1, <2>1, <2>5 DEF Opens
    <2>8. ASSUME NEW c \in Int, a = NewNode(w, At("ADD", c, 0))
          PROVE  /\ OpenCount(a.t) = OpenCount(w.t) /\ a.l.dld = w.l.dld
                 /\ a = [t |-> a.t, l |-> a.l] /\ a.l \in LoaderState
      <3> DEFINE nd == At("ADD", c, 0)
      <3>1. Plain(nd)
        BY <1>2
      <3> HIDE DEF nd
      <3>2. Grown(w, a, 1) /\ a = [t |-> a.t, l |-> a.l] /\ Opens(w, a, 0)
        BY <2>6, <2>8, <3>1, NewNodeReady, NewNodeOpens DEF nd
      <3>3. OpenCount(w.t) \in Nat /\ a.l \in LoaderState
        BY <3>2, OpenFinite, NumIsNat DEF Grown
      <3>4. QED BY <3>2, <3>3 DEF Opens
    <2>9. /\ OpenCount(a.t) = OpenCount(w.t) /\ a.l.dld = w.l.dld
          /\ a = [t |-> a.t, l |-> a.l] /\ a.l \in LoaderState
      <3>1. CASE s.l.z = 1
        BY <2>4, <2>5, <2>6, <3>1
      <3>2. CASE s.l.z = 2
        BY <2>4, <2>8, <3>2
      <3>3. CASE s.l.z = 3
        BY <2>4, <2>8, <3>3
      <3>4. QED BY <1>1, <1>4, <3>1, <3>2, <3>3
    <2>10. k.z = 0 /\ k.dld = a.l.dld
      BY <2>9 DEF LoaderState
    <2> HIDE DEF k
    <2>11. FlushZ(s) = [t |-> a.t, l |-> k]
      BY <2>2, <2>9, PairEdits DEF k
    <2>12. OpenOrKept(s) = OpenCount(s.t) + 1
      BY <1>4 DEF OpenOrKept
    <2>13. QED BY <2>7, <2>9, <2>10, <2>11, <2>12
  <1>5. QED BY <1>3, <1>4

\* Before a command is appended every loop that has been read is in the tree.
LEMMA PlacedOpens ==
  ASSUME Ready(Now), HasRoomFor(tree, 6), opt_enable_rle \/ ld.z = 0, NEW tok
  PROVE  /\ OpenCount(Placed(tok).t) = OpenOrKept(Now)
         /\ Placed(tok).l.z = 0 /\ Placed(tok).l.dld = ld.dld
  <1> DEFINE s == [t |-> tree, l |-> CountUsed]
  <1>1. /\ ld \in LoaderState /\ tree.num \in Nat /\ tree.num + 6 <= MaxNode
        /\ Now.t = tree /\ Now.l = ld
    BY NumIsNat DEF HasRoomFor, Now
  <1>2. /\ CountUsed \in LoaderState /\ CountUsed.p = ld.p /\ CountUsed.jst = ld.jst
        /\ CountUsed.z = ld.z /\ CountUsed.dld = ld.dld
    <2>1. CountUsed.dld = ld.dld
      BY <1>1 DEF CountUsed, LoaderState
    <2>2. QED BY <1>1, <2>1, CountGone
  <1>3. Ready(s) /\ s.t = tree /\ s.t.num + 3 <= MaxNode
    BY <1>1, <1>2, OthersFree DEF Now
  <1>4. OpenOrKept(s) = OpenOrKept(Now) /\ OpenCount(tree) \in Nat
    BY <1>1, <1>2, OpenFinite DEF OpenOrKept
  <1>5. /\ OpenCount(Flushed.t) = OpenOrKept(Now)
        /\ Flushed.l.z = 0 /\ Flushed.l.dld = ld.dld
    <2>1. CASE opt_enable_rle
      <3>1. Flushed = FlushZ(s)
        BY <2>1 DEF Flushed
      <3>2. s.l.dld = ld.dld
        BY <1>2
      <3> HIDE DEF s
      <3>3. QED BY <1>3, <1>4, <3>1, <3>2, FlushZOpens
    <2>2. CASE ~opt_enable_rle
      <3>1. Flushed = s
        BY <2>2 DEF Flushed
      <3>2. OpenOrKept(Now) = OpenCount(tree)
        BY <1>1, <1>4, <2>2 DEF OpenOrKept
      <3>3. QED BY <1>2, <1>3, <2>2, <3>1, <3>2
    <2>3. QED BY <2>1, <2>2
  <1>6. Ready(Flushed) /\ Flushed.t.num + 3 <= MaxNode /\ Flushed.t.num \in Nat
    <2>1. Placed("NOP") = Flushed
      BY DEF Placed
    <2>2. Ready(Placed("NOP")) /\ Placed("NOP").t.num + 3 <= MaxNode
      BY PlacedReady
    <2>3. QED BY <2>1, <2>2, NumIsNat
  <1>7. Opens(Flushed, FlushMov(Flushed), 0)
    BY <1>1, <1>6, FlushMovOpens
  <1>8. OpenCount(Flushed.t) \in Nat
    BY OpenFinite
  <1>9. QED BY <1>5, <1>7, <1>8 DEF Placed, Opens
\* A command that reads opens nothing.
LEMMA AppendInputOpens ==
  ASSUME NEW s, Ready(s), s.t.num + 2 <= MaxNode
  PROVE  Opens(s, AppendInput(s), 0)
  <1> DEFINE a == IF InitCell <= 0 THEN NewNode(s, At("SET", InitCell, s.l.mov)) ELSE s
             tok == IF iostyle = 3 THEN "INPI"
                    ELSE IF eofcell = 6 THEN "STOP" ELSE "INP"
             nd == At(tok, 0, s.l.mov)
             b == NewNode(a, nd)
             k == [b.l EXCEPT !.inp = @ \/ eofcell # 6]
  <1>1. InitCell \in Int /\ s.l.mov \in Int /\ s.t.num \in Nat /\ OpenCount(s.t) \in Nat
    BY NumIsNat, OpenFinite DEF InitCell
  <1>2. AppendInput(s) = [b EXCEPT !.l.inp = @ \/ eofcell # 6]
    BY DEF AppendInput
  <1>3. Plain(nd) /\ Plain(At("SET", InitCell, s.l.mov))
    <2>1. tok \in PlainToks
      BY PlainTokens
    <2> HIDE DEF tok
    <2>2. QED BY <1>1, <2>1, MadePlain, PlainTokens
  <1> HIDE DEF nd
  <1>4. Ready(a) /\ a.t.num < MaxNode /\ Opens(s, a, 0)
    <2>1. CASE InitCell <= 0
      <3>1. Grown(s, a, 1) /\ Opens(s, a, 0)
        BY <1>1, <1>3, <2>1, NewNodeReady, NewNodeOpens
      <3>2. a.t.num \in Nat
        BY <3>1, NumIsNat DEF Grown
      <3> HIDE DEF a
      <3>3. QED BY <1>1, <3>1, <3>2 DEF Grown
    <2>2. CASE ~(InitCell <= 0)
      BY <1>1, <2>2 DEF Opens
    <2>3. QED BY <2>1, <2>2
  <1> HIDE DEF a
  <1>5. Ready(b) /\ b = [t |-> b.t, l |-> b.l] /\ Opens(a, b, 0)
    BY <1>3, <1>4, NewNodeReady, NewNodeOpens DEF Grown
  <1> HIDE DEF b
  <1>6. k.z = b.l.z /\ k.dld = b.l.dld
    <2>1. b.l \in LoaderState
      BY <1>5, NumIsNat
    <2>2. QED BY <2>1 DEF LoaderState
  <1> HIDE DEF k
  <1>7. AppendInput(s) = [t |-> b.t, l |-> k]
    BY <1>2, <1>5, PairEdits DEF k
  <1>8. QED BY <1>1, <1>4, <1>5, <1>6, <1>7 DEF Opens

\* What a command opens.
Turn(s, cmd) ==
  IF cmd.tok = "WHL" THEN 1
  ELSE IF cmd.tok = "END" /\ s.l.jst # Null THEN -1 ELSE 0

\* Only brackets that have a partner open and close.
LEMMA AppendCommandOpens ==
  ASSUME NEW s, Ready(s), s.t.num + 3 <= MaxNode, NEW cmd,
         cmd.tok \in PlainToks \cup {"WHL", "END"}, cmd.c \in Int
  PROVE  Opens(s, AppendCommand(s, cmd), Turn(s, cmd))
  <1>1. s.l.mov \in Int /\ s.t.num \in Nat /\ s.t.num < MaxNode /\ s.t.num + 2 <= MaxNode
    BY NumIsNat
  <1>2. ASSUME NEW nd, Plain(nd) PROVE Opens(s, NewNode(s, nd), 0)
    BY <1>1, <1>2, NewNodeOpens
  <1>3. CASE cmd.tok = "WHL"
    BY <1>1, <1>3, OpenNodeOpens DEF AppendCommand, Turn
  <1>4. CASE cmd.tok = "END" /\ s.l.jst = Null
    <2>1. Plain(Blank("NOP")) /\ Turn(s, cmd) = 0
      BY <1>4, MadePlain, PlainTokens DEF Turn
    <2>2. QED BY <1>2, <1>4, <2>1 DEF AppendCommand
  <1>5. CASE cmd.tok = "END" /\ s.l.jst # Null
    <2>1. "END" \in Closers /\ Turn(s, cmd) = -1
      BY <1>5 DEF Closers, Turn
    <2>2. Opens(s, CloseNode(s, "END"), -1)
      BY <1>1, <1>5, <2>1, CloseNodeOpens
    <2>3. QED BY <1>5, <2>1, <2>2 DEF AppendCommand
  <1>6. CASE cmd.tok = "PRT" /\ iostyle = 3
    <2> DEFINE a == NewNode(s, At("PRTI", 0, s.l.mov))
    <2>1. Plain(At("PRTI", 0, s.l.mov)) /\ Plain(At("CHR", 10, 0)) /\ Turn(s, cmd) = 0
      BY <1>1, <1>6, MadePlain, PlainTokens DEF Turn
    <2>2. Grown(s, a, 1) /\ Opens(s, a, 0)
      BY <1>1, <2>1, NewNodeReady, NewNodeOpens
    <2>3. AppendCommand(s, cmd) = NewNode(a, At("CHR", 10, 0))
      BY <1>6 DEF AppendCommand
    <2> HIDE DEF a
    <2>4. a.t.num \in Nat /\ Ready(a) /\ a.t.num < MaxNode
      BY <1>1, <2>2, NumIsNat DEF Grown
    <2>5. Opens(a, NewNode(a, At("CHR", 10, 0)), 0)
      BY <2>1, <2>4, NewNodeOpens
    <2>6. Opens(s, AppendCommand(s, cmd), 0 + 0)
      BY <2>2, <2>3, <2>5, OpensOn
    <2>7. QED BY <2>1, <2>6
  <1>7. CASE cmd.tok = "INP"
    <2>1. Turn(s, cmd) = 0 /\ AppendCommand(s, cmd) = AppendInput(s)
      BY <1>7 DEF AppendCommand, Turn
    <2>2. QED BY <1>1, <2>1, AppendInputOpens
  <1>8. CASE cmd.tok \notin {"WHL", "END", "INP"} /\ ~(cmd.tok = "PRT" /\ iostyle = 3)
    <2>1. cmd.tok \in PlainToks /\ Turn(s, cmd) = 0
      BY <1>8 DEF Turn
    <2>2. Plain(At(cmd.tok, cmd.c, s.l.mov))
      BY <1>1, <2>1, MadePlain
    <2>3. AppendCommand(s, cmd) = NewNode(s, At(cmd.tok, cmd.c, s.l.mov))
      BY <1>8 DEF AppendCommand
    <2>4. QED BY <1>2, <2>1, <2>2, <2>3
  <1>9. QED BY <1>3, <1>4, <1>5, <1>6, <1>7, <1>8

\* [] is one loop less on the stack.
LEMMA EndlessOpens ==
  ASSUME NEW s, Ready(s), s.t.num + 3 <= MaxNode, s.l.p # Null,
         s.t.node[s.l.p].type = "WHL"
  PROVE  Opens(s, Endless(s), -1)
  <1> DEFINE p == s.l.p
             w == IF opt_no_endif THEN s ELSE [s EXCEPT !.t.node[p].type = "IF"]
             n == NewNode(w, Blank("STOP"))
             tok == IF opt_no_endif THEN "END" ELSE "ENDIF"
             e == CloseNode(n, tok)
  <1>1. /\ s.t \in Tree /\ s.l \in LoaderState /\ s.t.num \in Nat /\ p \in NodeId
        /\ s = [t |-> s.t, l |-> s.l] /\ OpenCount(s.t) \in Nat
    BY NumIsNat, OpenFinite
  <1>2. s.l.jst = p
    <2>1. Sound(s.t, p, s.l.jst) /\ s.t.node[p].type \in Openers
      BY DEF Ready, Openers
    <2>2. QED BY <1>1, <2>1, LastIsTop
  <1>3. Ready(w) /\ w.t.num = s.t.num /\ w.l = s.l /\ Opens(s, w, 0)
    <2> DEFINE v == [s.t EXCEPT !.node[p].type = "IF"]
    <2>1. CASE opt_no_endif
      BY <1>1, <2>1 DEF Opens
    <2>2. CASE ~opt_no_endif
      <3>1. Sound(v, p, p)
        BY <1>1, <1>2, TurnedIf DEF Ready
      <3>2. /\ v.num = s.t.num /\ v.node[p].type = "IF" /\ v.node[p].jmp = s.t.node[p].jmp
            /\ \A x \in NodeId : x # p => v.node[x] = s.t.node[x]
        BY <1>1 DEF Tree, Node
      <3>3. v \in Tree
        BY <3>1 DEF Sound, Linked
      <3> HIDE DEF v
      <3>4. w = [t |-> v, l |-> s.l]
        BY <1>1, <2>2, PairNodeEdits DEF v
      <3>5. Ready([t |-> v, l |-> s.l])
        BY <1>1, <1>2, <3>1, <3>3 DEF Ready
      <3>6. \A x \in NodeId : Open(v, x) <=> Open(s.t, x)
        BY <3>2 DEF Open, Openers
      <3>7. OpenCount(v) = OpenCount(s.t)
        BY <3>6, SameOpen
      <3>8. w.t = v /\ w.l = s.l
        BY <3>4
      <3> HIDE DEF w
      <3>9. Opens(s, w, 0)
        BY <1>1, <3>7, <3>8 DEF Opens
      <3>10. QED BY <3>2, <3>4, <3>5, <3>8, <3>9
    <2>3. QED BY <2>1, <2>2
  <1>4. Endless(s) = IF opt_no_endif THEN e ELSE NewNode(e, At("SET", 0, 0))
    BY DEF Endless
  <1>5. tok \in Closers
    BY DEF Closers
  <1> HIDE DEF w, tok
  <1>6. Plain(Blank("STOP")) /\ Plain(At("SET", 0, 0))
    BY MadePlain, PlainTokens
  <1>7. Grown(w, n, 1) /\ n.l.jst = w.l.jst /\ Opens(w, n, 0)
    BY <1>1, <1>3, <1>6, NewNodeReady, NewNodeOpens
  <1> HIDE DEF n
  <1>8. Ready(n) /\ n.t.num \in Nat /\ n.t.num <= s.t.num + 1 /\ n.l.jst # Null
    BY <1>1, <1>2, <1>3, <1>7, NumIsNat DEF Grown
  <1>9. Grown(n, e, 1) /\ Opens(n, e, -1)
    BY <1>1, <1>5, <1>8, CloseNodeReady, CloseNodeOpens
  <1> HIDE DEF e
  <1>10. Ready(e) /\ e.t.num \in Nat /\ e.t.num < MaxNode
    BY <1>1, <1>8, <1>9, NumIsNat DEF Grown
  <1>11. Opens(e, NewNode(e, At("SET", 0, 0)), 0)
    BY <1>6, <1>10, NewNodeOpens
  <1>12. OpenCount(w.t) \in Nat /\ OpenCount(n.t) \in Nat /\ OpenCount(e.t) \in Nat
    BY OpenFinite
  <1>13. Opens(s, e, -1)
    BY <1>1, <1>3, <1>7, <1>9, <1>12 DEF Opens
  <1>14. Opens(s, NewNode(e, At("SET", 0, 0)), -1)
    BY <1>1, <1>11, <1>12, <1>13 DEF Opens
  <1>15. QED BY <1>4, <1>13, <1>14

\* An addition is no bracket, before it is merged and after.
LEMMA MergedOpens ==
  ASSUME NEW s, Ready(s), s.l.p # Null, NEW c \in Int,
         s.t.node[s.l.p].type \in {"ADD", "SET"}
  PROVE  Opens(s, Merged(s, c), 0)
  <1> DEFINE p == s.l.p
             sum == s.t.node[p].count + c
             back == s.t.prev[p]
  <1>1. /\ s.t \in Tree /\ s.l \in LoaderState /\ p \in NodeId
        /\ s = [t |-> s.t, l |-> s.l] /\ OpenCount(s.t) \in Nat
    BY NumIsNat, OpenFinite
  <1>2. s.t.node[p].type \notin Openers
    BY DEF Openers
  <1>3. CASE sum = 0 /\ s.t.node[p].type # "SET"
    <2> DEFINE k == [s.l EXCEPT !.p = back]
               v == Shortened(s.t, p)
    <2>1. Merged(s, c) = [t |-> v, l |-> k]
      BY <1>3 DEF Merged, Shortened
    <2>2. /\ v.node[p] = FreeNode
          /\ \A x \in NodeId : x # p => v.node[x] = s.t.node[x]
      <3>1. Linked(s.t, p)
        BY DEF Ready, Sound
      <3>2. v.node = [s.t.node EXCEPT ![p] = FreeNode]
        BY <1>1, <3>1, ListShrinks
      <3> HIDE DEF v
      <3>3. QED BY <1>1, <3>2 DEF Tree
    <2>3. k.z = s.l.z /\ k.dld = s.l.dld
      BY <1>1 DEF LoaderState
    <2> HIDE DEF k, v
    <2>4. \A x \in NodeId : Open(v, x) <=> Open(s.t, x)
      BY <1>2, <2>2 DEF Open, FreeNode, Blank, Openers
    <2>5. OpenCount(v) = OpenCount(s.t)
      BY <2>4, SameOpen
    <2>6. QED BY <1>1, <2>1, <2>3, <2>5 DEF Opens
  <1>4. CASE ~(sum = 0 /\ s.t.node[p].type # "SET")
    <2> DEFINE v == [s.t EXCEPT !.node[p].count = sum]
    <2>1. Merged(s, c) = [s EXCEPT !.t.node[p].count = sum]
      BY <1>4 DEF Merged
    <2>2. \A x \in NodeId : /\ v.node[x].type = s.t.node[x].type
                            /\ v.node[x].jmp = s.t.node[x].jmp
      BY <1>1 DEF Tree, Node
    <2> HIDE DEF v
    <2>3. Merged(s, c) = [t |-> v, l |-> s.l]
      BY <1>1, <2>1, PairNodeEdits DEF v
    <2>4. \A x \in NodeId : Open(v, x) <=> Open(s.t, x)
      BY <2>2 DEF Open
    <2>5. OpenCount(v) = OpenCount(s.t)
      BY <2>4, SameOpen
    <2>6. QED BY <1>1, <2>3, <2>5 DEF Opens
  <1>5. QED BY <1>3, <1>4
(***************************************************************************)
(* How many loops a text is in, one character after the other.             *)
(***************************************************************************)
Bracketed(ch, k) ==
  CASE ch = "[" -> k + 1
    [] ch = "]" -> IF k = 0 THEN 0 ELSE k - 1
    [] OTHER    -> k

\* d[i] is how many loops the first i characters leave open.
IsDepth(d, text, k) ==
  d = [i \in 0 .. k |-> IF i = 0 THEN 0 ELSE Bracketed(text[i], d[i - 1])]

\* There are such depths, however long the text,
LEMMA DepthExists ==
  ASSUME NEW text, NEW k \in Nat
  PROVE  \E d : IsDepth(d, text, k)
  <1> DEFINE T == {j \in Nat : \E d : IsDepth(d, text, j)}
  <1>1. 0 \in T
    <2>1. IsDepth([i \in 0 .. 0 |-> 0], text, 0)
      BY DEF IsDepth
    <2>2. QED BY <2>1
  <1>2. ASSUME NEW j \in Nat, j \in T PROVE j + 1 \in T
    <2>1. PICK f : IsDepth(f, text, j)
      BY <1>2
    <2> DEFINE g == [i \in 0 .. j + 1 |->
                       IF i = j + 1 THEN Bracketed(text[j + 1], f[j]) ELSE f[i]]
    <2>2. \A i \in 0 .. j : g[i] = f[i] /\ f[i] = IF i = 0 THEN 0 ELSE Bracketed(text[i], f[i - 1])
      BY <2>1 DEF IsDepth
    <2>3. g[j + 1] = Bracketed(text[j + 1], g[j])
      BY <2>2
    <2>4. ASSUME NEW i \in 0 .. j + 1
          PROVE  g[i] = IF i = 0 THEN 0 ELSE Bracketed(text[i], g[i - 1])
      <3> HIDE DEF g
      <3>1. CASE i = j + 1
        BY <3>1, <2>3
      <3>2. CASE i # j + 1
        <4>1. i \in 0 .. j /\ (i # 0 => i - 1 \in 0 .. j)
          BY <3>2
        <4>2. QED BY <4>1, <2>2
      <3>3. QED BY <3>1, <3>2
    <2> HIDE DEF g
    <2>5. g = [i \in 0 .. j + 1 |-> IF i = 0 THEN 0 ELSE Bracketed(text[i], g[i - 1])]
      <3>1. g = [i \in 0 .. j + 1 |-> g[i]]
        BY DEF g
      <3>2. QED BY <3>1, <2>4
    <2>6. QED BY <2>5 DEF IsDepth
  <1> HIDE DEF T
  <1>3. k \in T
    BY <1>1, <1>2, Induction
  <1>4. QED BY <1>3 DEF T

\* The first k characters are the same.
Begins(text, other, k) == \A i \in 1 .. k : text[i] = other[i]

\* and they depend on the characters up to there alone.
LEMMA DepthsAgree ==
  ASSUME NEW k \in Nat, NEW l \in Nat, k <= l,
         NEW text, NEW other, Begins(text, other, k),
         NEW f, IsDepth(f, text, k), NEW g, IsDepth(g, other, l)
  PROVE  f[k] = g[k]
  <1> DEFINE T == {i \in Nat : i <= k => f[i] = g[i]}
  <1>1. /\ \A i \in 0 .. k : f[i] = IF i = 0 THEN 0 ELSE Bracketed(text[i], f[i - 1])
        /\ \A i \in 0 .. l : g[i] = IF i = 0 THEN 0 ELSE Bracketed(other[i], g[i - 1])
    BY DEF IsDepth
  <1>2. 0 \in T
    BY <1>1
  <1>3. ASSUME NEW i \in Nat, i \in T PROVE i + 1 \in T
    <2>1. SUFFICES ASSUME i + 1 <= k PROVE f[i + 1] = g[i + 1]
      OBVIOUS
    <2>2. /\ i + 1 \in 0 .. k /\ i + 1 \in 0 .. l /\ i + 1 # 0 /\ (i + 1) - 1 = i
          /\ i + 1 \in 1 .. k
      BY <2>1
    <2>3. f[i + 1] = Bracketed(text[i + 1], f[i]) /\ g[i + 1] = Bracketed(other[i + 1], g[i])
      BY <1>1, <2>2
    <2>4. f[i] = g[i] /\ text[i + 1] = other[i + 1]
      BY <1>3, <2>1, <2>2 DEF Begins
    <2>5. QED BY <2>3, <2>4
  <1> HIDE DEF T
  <1>4. k \in T
    BY <1>2, <1>3, Induction
  <1>5. QED BY <1>4 DEF T

\* LoopsIn is where they end.
LEMMA LoopsAreDepth ==
  ASSUME NEW text, Len(text) \in Nat
  PROVE  \E d : IsDepth(d, text, Len(text)) /\ LoopsIn(text) = d[Len(text)]
  <1> DEFINE Is(d) == d = [i \in 0 .. Len(text) |->
               IF i = 0 THEN 0
               ELSE CASE text[i] = "[" -> d[i - 1] + 1
                      [] text[i] = "]" -> IF d[i - 1] = 0 THEN 0 ELSE d[i - 1] - 1
                      [] OTHER         -> d[i - 1]]
             it == CHOOSE d : Is(d)
  <1>1. LoopsIn(text) = it[Len(text)]
    BY DEF LoopsIn
  <1>2. \A d : Is(d) <=> IsDepth(d, text, Len(text))
    BY DEF IsDepth, Bracketed
  <1> HIDE DEF Is
  <1>3. \E d : Is(d)
    BY <1>2, DepthExists
  <1>4. Is(it)
    BY <1>3
  <1> HIDE DEF it
  <1>5. QED BY <1>1, <1>2, <1>4

\* At first there are none, and a character opens one, closes one or neither.
LEMMA TextGrows ==
  ASSUME NEW text \in Seq(Chars), NEW ch \in Chars
  PROVE  /\ Append(text, ch) \in Seq(Chars)
         /\ LoopsIn(Append(text, ch)) = Bracketed(ch, LoopsIn(text))
  <1> DEFINE k == Len(text)
             more == Append(text, ch)
  <1>1. /\ k \in Nat /\ more \in Seq(Chars) /\ Len(more) = k + 1 /\ k + 1 \in Nat /\ k <= k + 1
        /\ more[k + 1] = ch /\ Begins(text, more, k)
    <2>1. Len(text) \in Nat
      OBVIOUS
    <2>2. more \in Seq(Chars) /\ Len(more) = Len(text) + 1
      OBVIOUS
    <2>3. more[Len(text) + 1] = ch
      OBVIOUS
    <2>4. \A i \in 1 .. Len(text) : text[i] = more[i]
      OBVIOUS
    <2> HIDE DEF more
    <2>5. QED BY <2>1, <2>2, <2>3, <2>4 DEF Begins
  <1> HIDE DEF k, more
  <1>2. PICK f : IsDepth(f, text, k) /\ LoopsIn(text) = f[k]
    BY <1>1, LoopsAreDepth DEF k
  <1>3. PICK g : IsDepth(g, more, k + 1) /\ LoopsIn(more) = g[k + 1]
    BY <1>1, LoopsAreDepth
  <1>4. f[k] = g[k]
    BY <1>1, <1>2, <1>3, DepthsAgree
  <1>5. g[k + 1] = Bracketed(more[k + 1], g[k])
    BY <1>1, <1>3 DEF IsDepth
  <1>6. QED BY <1>1, <1>2, <1>3, <1>4, <1>5 DEF more

\* No character has been read.
LEMMA TextStarts ==
  /\ <<>> \in Seq(Chars)
  /\ LoopsIn(<<>>) = 0
  <1>1. <<>> \in Seq(Chars) /\ Len(<<>>) = 0
    OBVIOUS
  <1>2. PICK f : IsDepth(f, <<>>, 0) /\ LoopsIn(<<>>) = f[0]
    BY <1>1, LoopsAreDepth
  <1>3. QED BY <1>1, <1>2 DEF IsDepth

\* Which characters are brackets.
LEMMA CommandBrackets ==
  ASSUME NEW ch, NEW l
  PROVE  /\ Command(ch, l).tok = "WHL" <=> ch = "["
         /\ Command(ch, l).tok = "END" <=> ch = "]"
  <1>1. CASE ch = "["
    BY <1>1 DEF Command, Cmd
  <1>2. CASE ch = "]"
    BY <1>2 DEF Command, Cmd
  <1>3. CASE ch # "[" /\ ch # "]"
    <2> DEFINE given == IF l.ov \/ l.num < 0 THEN -1 ELSE l.num
               k == IF given < 0 THEN (IF ch = "=" THEN 0 ELSE 1) ELSE given
    <2>1. Command(ch, l) \in { Cmd("MOV", k), Cmd("MOV", -k), Cmd("ADD", k), Cmd("ADD", -k),
            Cmd("PRT", 0), Cmd("INP", 0), Cmd("DUMP", 0),
            Cmd("SET", k), Cmd("PRTI", 0), Cmd("INPI", 0), Cmd("NOP", 0) }
      BY <1>3 DEF Command, If, k, given
    <2> HIDE DEF k
    <2>2. QED BY <1>3, <2>1 DEF Cmd
  <1>4. QED BY <1>1, <1>2, <1>3
(***************************************************************************)
(* The invariant: every loop that is open in the text is open in the tree, *)
(* kept back, or inside the comment loop that is being skipped.            *)
(***************************************************************************)
Total(t, l) == OpenCount(t) + (IF l.z = 0 THEN 0 ELSE 1) + l.dld

\* Without run-length encoding nothing is kept back and nothing skipped.
Behaved(l) == l.dld \in Nat /\ (~opt_enable_rle => l.z = 0 /\ l.dld = 0)

LoopInv ==
  /\ src \in Seq(Chars)
  /\ Behaved(ld)
  /\ phase = "reading" => LoopsIn(src) = Total(tree, ld)

\* The empty program has no loops.
LEMMA InitCounted == Init => LoopInv
  <1> SUFFICES ASSUME Init PROVE LoopInv
    OBVIOUS
  <1>1. /\ tree = EmptyTree /\ ld.z = 0 /\ ld.dld = 0 /\ ld.jst = Null /\ ld.p = Null
        /\ src = <<>>
    BY DEF Init
  <1>2. Sound(tree, Null, Null)
    BY <1>1, InitReady DEF IInv, Ready, Now
  <1>3. OpenCount(tree) = 0
    BY <1>2, EmptyStack
  <1>4. QED BY <1>1, <1>3, TextStarts DEF LoopInv, Behaved, Total

\* The tree stays, and so does what is kept back.
LEMMA TotalStays ==
  ASSUME tree' = tree, ld'.z = ld.z, ld'.dld = ld.dld, Behaved(ld)
  PROVE  Behaved(ld') /\ Total(tree', ld') = Total(tree, ld)
  BY DEF Behaved, Total

\* What a handler computes is the next state.
LEMMA TotalBecomes ==
  ASSUME NEW t, NEW l, Becomes([t |-> t, l |-> l])
  PROVE  tree' = t /\ ld' = l
  BY DEF Becomes

\* The number of loops is one that can be counted.
LEMMA TotalType ==
  ASSUME NEW t, NEW l, Behaved(l)
  PROVE  Total(t, l) \in Nat
  BY OpenFinite DEF Behaved, Total

\* A character opens a loop in the tree when it does so in the text.
LEMMA CharCounted ==
  ASSUME NEW ch, ReadChar(ch), IInv, Behaved(ld)
  PROVE  /\ Getc(ch)
         /\ Behaved(ld')
         /\ Total(tree', ld') = Bracketed(ch, Total(tree, ld))
  <1> DEFINE cmd == Command(ch, ld)
  <1>1. Getc(ch)
    BY DEF ReadChar, ReadDigit, ReadBlank, ReadComment, SkipDeadLoop, ContinueZeroLoop,
           CloseZeroLoop, KeepLoop, KeepMovement, MergeCount, EndlessLoop, NewCommand,
           Ordinary, Lives, ReadCommand
  <1>2. /\ Ready(Now) /\ HasRoomFor(tree, 6) /\ ld \in LoaderState
        /\ Now.t = tree /\ Now.l = ld
    BY <1>1, Reads DEF Now
  <1>3. /\ CountUsed \in LoaderState /\ CountUsed.z = ld.z /\ CountUsed.dld = ld.dld
        /\ CountUsed.p = ld.p /\ CountUsed.jst = ld.jst /\ ld.z \in 0 .. 3
    <2>1. CountUsed.dld = ld.dld /\ ld.z \in 0 .. 3
      BY <1>2 DEF CountUsed, LoaderState
    <2>2. QED BY <1>2, <2>1, CountGone
  <1>4. Total(tree, ld) \in Nat /\ OpenCount(tree) \in Nat /\ ld.dld \in Nat
    BY TotalType, OpenFinite DEF Behaved
  <1>5. /\ cmd.tok = "WHL" <=> ch = "["
        /\ cmd.tok = "END" <=> ch = "]"
    BY CommandBrackets
  <1>6. ASSUME ch # "[", ch # "]" PROVE \A k : Bracketed(ch, k) = k
    BY <1>6 DEF Bracketed
  <1> HIDE DEF cmd
  <1>7. CASE ReadDigit(ch) \/ ReadBlank(ch) \/ ReadComment(ch)
    <2>1. ch # "[" /\ ch # "]"
      <3>1. ASSUME ReadDigit(ch) PROVE ch # "[" /\ ch # "]"
        <4>1. DOMAIN DigitOf = {"0", "1", "2", "9"}
          BY DEF DigitOf
        <4>2. QED BY <3>1, <4>1 DEF ReadDigit
      <3>2. ASSUME ReadBlank(ch) PROVE ch # "[" /\ ch # "]"
        BY <3>2 DEF ReadBlank, Space
      <3>3. ASSUME ReadComment(ch) PROVE ch # "[" /\ ch # "]"
        BY <1>5, <3>3 DEF ReadComment, cmd
      <3>4. QED BY <1>7, <3>1, <3>2, <3>3
    <2>2. tree' = tree /\ ld'.z = ld.z /\ ld'.dld = ld.dld
      <3>1. CASE ReadDigit(ch)
        BY <1>2, <3>1 DEF ReadDigit, LoaderState
      <3>2. CASE ReadBlank(ch)
        BY <1>2, <3>2 DEF ReadBlank, LoaderState
      <3>3. CASE ReadComment(ch)
        BY <1>3, <3>3 DEF ReadComment
      <3>4. QED BY <1>7, <3>1, <3>2, <3>3
    <2>3. QED BY <1>1, <1>6, <2>1, <2>2, TotalStays
  <1>8. CASE SkipDeadLoop(ch)
    <2> DEFINE d == CASE cmd.tok = "WHL" -> CountUsed.dld + 1
                      [] cmd.tok = "END" -> CountUsed.dld - 1
                      [] OTHER           -> CountUsed.dld
    <2>1. tree' = tree /\ ld' = [CountUsed EXCEPT !.dld = d] /\ Dead(cmd.tok)
      BY <1>8 DEF SkipDeadLoop, cmd
    <2>2. d = CASE ch = "[" -> ld.dld + 1 [] ch = "]" -> ld.dld - 1 [] OTHER -> ld.dld
      BY <1>3, <1>5
    <2> HIDE DEF d
    <2>3. ld'.z = ld.z /\ ld'.dld = d
      BY <1>3, <2>1 DEF LoaderState
    <2>4. opt_enable_rle /\ (ch = "]" => ld.dld > 0)
      BY <1>4, <1>5, <2>1 DEF Dead, StartsDead
    <2>5. d \in Nat /\ Total(tree', ld') = Bracketed(ch, Total(tree, ld))
      <3>1. CASE ch = "["
        BY <1>4, <2>1, <2>2, <2>3, <3>1 DEF Total, Bracketed
      <3>2. CASE ch = "]"
        <4>1. d = ld.dld - 1 /\ ld.dld > 0
          BY <2>2, <2>4, <3>2
        <4>2. Total(tree, ld) > 0 /\ Total(tree', ld') = Total(tree, ld) - 1
          BY <1>4, <2>1, <2>3, <4>1 DEF Total
        <4>3. Bracketed(ch, Total(tree, ld)) = Total(tree, ld) - 1
          BY <1>4, <3>2, <4>2 DEF Bracketed
        <4>4. QED BY <1>4, <4>1, <4>2, <4>3
      <3>3. CASE ch # "[" /\ ch # "]"
        BY <1>4, <1>6, <2>1, <2>2, <2>3, <3>3 DEF Total
      <3>4. QED BY <3>1, <3>2, <3>3
    <2>6. Behaved(ld')
      BY <2>3, <2>4, <2>5 DEF Behaved
    <2>7. QED BY <1>1, <2>5, <2>6
  <1>9. CASE ContinueZeroLoop(ch)
    <2>1. PICK z \in {2, 3} : ld' = [CountUsed EXCEPT !.z = z]
      BY <1>9 DEF ContinueZeroLoop
    <2>2. tree' = tree /\ opt_enable_rle /\ ld.z = 1 /\ cmd.tok = "ADD"
      BY <1>9 DEF ContinueZeroLoop, InZeroLoop, cmd
    <2>3. ld'.z = z /\ ld'.dld = ld.dld
      BY <1>3, <2>1 DEF LoaderState
    <2>4. ch # "[" /\ ch # "]"
      BY <1>5, <2>2
    <2>5. Total(tree', ld') = Total(tree, ld) /\ Behaved(ld')
      BY <1>4, <2>1, <2>2, <2>3 DEF Total, Behaved
    <2>6. QED BY <1>1, <1>6, <2>4, <2>5
  <1>10. CASE CloseZeroLoop(ch)
    <2> DEFINE k == [CountUsed EXCEPT !.z = 0]
               s == [t |-> tree, l |-> k]
               nd == At("SET", 0, ld.mov)
    <2>1. /\ Becomes(NewNode(s, nd)) /\ ld.z \in {2, 3} /\ opt_enable_rle
          /\ cmd.tok = "END"
      BY <1>10 DEF CloseZeroLoop, ClosesZeroLoop, cmd
    <2>2. k \in LoaderState /\ k.p = ld.p /\ k.jst = ld.jst /\ k.z = 0 /\ k.dld = ld.dld
      BY <1>3 DEF LoaderState
    <2> HIDE DEF k
    <2>3. Ready(s) /\ s.t = tree /\ s.l = k
      BY <1>2, <2>2, OthersFree
    <2>4. s.t.num < MaxNode /\ ld.mov \in Int
      BY <1>2, <2>3, NumIsNat DEF HasRoomFor
    <2> HIDE DEF s
    <2>5. Plain(nd)
      BY <2>4, MadePlain, PlainTokens
    <2> HIDE DEF nd
    <2>6. Opens(s, NewNode(s, nd), 0)
      BY <2>3, <2>4, <2>5, NewNodeOpens
    <2>7. OpenCount(tree') = OpenCount(tree) /\ ld'.z = 0 /\ ld'.dld = ld.dld
      BY <1>4, <2>1, <2>2, <2>3, <2>6 DEF Opens, Becomes
    <2>8. Total(tree, ld) > 0 /\ Total(tree', ld') = Total(tree, ld) - 1
      BY <1>4, <2>1, <2>7 DEF Total
    <2>9. Bracketed(ch, Total(tree, ld)) = Total(tree, ld) - 1
      BY <1>4, <1>5, <2>1, <2>8 DEF Bracketed
    <2>10. QED BY <1>1, <1>4, <2>1, <2>7, <2>8, <2>9 DEF Behaved
  <1>11. ASSUME Ordinary(ch)
         PROVE  /\ \A tok : /\ OpenCount(Placed(tok).t) + ld.dld = Total(tree, ld)
                            /\ Placed(tok).l.z = 0 /\ Placed(tok).l.dld = ld.dld
                            /\ Ready(Placed(tok)) /\ Placed(tok).t.num + 3 <= MaxNode
                /\ Placed("NOP") = Flushed
                /\ cmd.tok \in PlainToks \cup {"WHL", "END"} /\ cmd.c \in Int
                /\ ld.dld = 0 \/ cmd.tok # "END"
    <2>1. opt_enable_rle \/ ld.z = 0
      BY DEF Behaved
    <2>2. OpenOrKept(Now) + ld.dld = Total(tree, ld)
      BY <1>2 DEF OpenOrKept, Total
    <2>3. \A tok : /\ OpenCount(Placed(tok).t) = OpenOrKept(Now)
                   /\ Placed(tok).l.z = 0 /\ Placed(tok).l.dld = ld.dld
      BY <1>2, <2>1, PlacedOpens
    <2>4. \A tok : Ready(Placed(tok)) /\ Placed(tok).t.num + 3 <= MaxNode
      BY <1>2, PlacedReady
    <2>5. Placed("NOP") = Flushed
      BY DEF Placed
    <2>6. cmd.tok \in PlainToks \cup {"WHL", "END"} /\ cmd.c \in Int
      BY <1>2, Commanded DEF cmd
    <2>7. ld.dld = 0
      BY <1>4, <1>11 DEF Ordinary, Lives, Dead, Behaved
    <2>8. QED BY <2>2, <2>3, <2>4, <2>5, <2>6, <2>7
  <1>12. CASE KeepLoop(ch)
    <2>1. Ordinary(ch) /\ opt_enable_rle /\ cmd.tok = "WHL" /\ Becomes([Flushed EXCEPT !.l.z = 1])
      BY <1>12 DEF KeepLoop, cmd
    <2>2. /\ OpenCount(Flushed.t) + ld.dld = Total(tree, ld) /\ Flushed.l.dld = ld.dld
          /\ Ready(Flushed) /\ OpenCount(Flushed.t) \in Nat
      BY <1>11, <2>1, OpenFinite
    <2> DEFINE k == [Flushed.l EXCEPT !.z = 1]
    <2>3. Flushed = [t |-> Flushed.t, l |-> Flushed.l] /\ Flushed.l \in LoaderState
      BY <2>2, NumIsNat
    <2>4. k.z = 1 /\ k.dld = ld.dld
      BY <2>2, <2>3 DEF LoaderState
    <2>5. [Flushed EXCEPT !.l.z = 1] = [t |-> Flushed.t, l |-> k]
      BY <2>3, PairEdits
    <2> HIDE DEF k
    <2>6. tree' = Flushed.t /\ ld' = k
      BY <2>1, <2>5, TotalBecomes
    <2>7. Total(tree', ld') = Total(tree, ld) + 1
      BY <1>4, <2>2, <2>4, <2>6 DEF Total
    <2>8. Bracketed(ch, Total(tree, ld)) = Total(tree, ld) + 1
      BY <1>5, <2>1 DEF Bracketed
    <2>9. QED BY <1>1, <1>4, <2>1, <2>4, <2>6, <2>7, <2>8 DEF Behaved
  <1>13. CASE KeepMovement(ch)
    <2>1. PICK x : x = Flushed.l.mov + cmd.c
      OBVIOUS
    <2>2. Ordinary(ch) /\ opt_enable_rle /\ cmd.tok = "MOV" /\ Becomes([Flushed EXCEPT !.l.mov = x])
      BY <1>13, <2>1 DEF KeepMovement, cmd
    <2>3. /\ OpenCount(Flushed.t) + ld.dld = Total(tree, ld) /\ Flushed.l.dld = ld.dld
          /\ Flushed.l.z = 0 /\ Ready(Flushed) /\ OpenCount(Flushed.t) \in Nat
      BY <1>11, <2>2, OpenFinite
    <2> DEFINE k == [Flushed.l EXCEPT !.mov = x]
    <2>4. Flushed = [t |-> Flushed.t, l |-> Flushed.l] /\ Flushed.l \in LoaderState
      BY <2>3, NumIsNat
    <2>5. k.z = 0 /\ k.dld = ld.dld
      BY <2>3, <2>4 DEF LoaderState
    <2>6. [Flushed EXCEPT !.l.mov = x] = [t |-> Flushed.t, l |-> k]
      BY <2>4, PairEdits
    <2> HIDE DEF k
    <2>7. tree' = Flushed.t /\ ld' = k
      BY <2>2, <2>6, TotalBecomes
    <2>8. Total(tree', ld') = Total(tree, ld)
      BY <1>4, <2>3, <2>5, <2>7 DEF Total
    <2>9. ch # "[" /\ ch # "]"
      BY <1>5, <2>2
    <2>10. QED BY <1>1, <1>4, <1>6, <2>2, <2>5, <2>7, <2>8, <2>9 DEF Behaved
  <1>14. ASSUME NEW s, NEW r, NEW k \in {-1, 0, 1}, Opens(s, r, k), Becomes(r),
                OpenCount(s.t) + ld.dld = Total(tree, ld), s.l.z = 0, s.l.dld = ld.dld
         PROVE  /\ Behaved(ld') /\ Total(tree', ld') = Total(tree, ld) + k
                /\ k = -1 => Total(tree, ld) > 0
    <2>1. tree' = r.t /\ ld' = r.l /\ OpenCount(s.t) \in Nat /\ OpenCount(r.t) \in Nat
      BY <1>14, OpenFinite DEF Becomes
    <2>2. ld'.z = 0 /\ ld'.dld = ld.dld /\ OpenCount(tree') = OpenCount(s.t) + k
      BY <1>14, <2>1 DEF Opens
    <2>3. Total(tree', ld') = Total(tree, ld) + k
      BY <1>4, <1>14, <2>1, <2>2 DEF Total
    <2>4. k = -1 => Total(tree, ld) > 0
      BY <1>4, <1>14, <2>1, <2>2
    <2>5. Behaved(ld')
      BY <2>2 DEF Behaved
    <2>6. QED BY <2>3, <2>4, <2>5
  <1>15. CASE MergeCount(ch)
    <2> DEFINE s == Placed(cmd.tok)
    <2>1. Ordinary(ch) /\ Merges(s, cmd) /\ Becomes(Merged(s, cmd.c))
      BY <1>15 DEF MergeCount, cmd
    <2>2. /\ OpenCount(s.t) + ld.dld = Total(tree, ld) /\ s.l.z = 0 /\ s.l.dld = ld.dld
          /\ Ready(s) /\ cmd.c \in Int
      BY <1>11, <2>1
    <2> HIDE DEF s
    <2>3. /\ s.l.p # Null /\ s.t.node[s.l.p].type \in {"ADD", "SET"} /\ cmd.tok = "ADD"
      BY <2>1 DEF Merges
    <2>4. Opens(s, Merged(s, cmd.c), 0)
      BY <2>2, <2>3, MergedOpens
    <2>5. Behaved(ld') /\ Total(tree', ld') = Total(tree, ld) + 0
      BY <1>14, <2>1, <2>2, <2>4
    <2>6. ch # "[" /\ ch # "]"
      BY <1>5, <2>3
    <2>7. QED BY <1>1, <1>4, <1>6, <2>5, <2>6
  <1>16. CASE EndlessLoop(ch)
    <2> DEFINE s == Placed(cmd.tok)
    <2>1. Ordinary(ch) /\ IsEndless(s, cmd.tok) /\ Becomes(Endless(s))
      BY <1>16 DEF EndlessLoop, cmd
    <2>2. /\ OpenCount(s.t) + ld.dld = Total(tree, ld) /\ s.l.z = 0 /\ s.l.dld = ld.dld
          /\ Ready(s) /\ s.t.num + 3 <= MaxNode
      BY <1>11, <2>1
    <2> HIDE DEF s
    <2>3. s.l.p # Null /\ s.t.node[s.l.p].type = "WHL" /\ cmd.tok = "END"
      BY <2>1 DEF IsEndless
    <2>4. Opens(s, Endless(s), -1)
      BY <2>2, <2>3, EndlessOpens
    <2>5. PICK k \in {-1, 0, 1} : k = -1
      OBVIOUS
    <2>6. Behaved(ld') /\ Total(tree', ld') = Total(tree, ld) + -1 /\ Total(tree, ld) > 0
      BY <1>14, <2>1, <2>2, <2>4, <2>5
    <2>7. ch = "]"
      BY <1>5, <2>3
    <2>8. QED BY <1>1, <1>4, <2>6, <2>7 DEF Bracketed
  <1>17. CASE NewCommand(ch)
    <2> DEFINE s == Placed(cmd.tok)
    <2>1. Ordinary(ch) /\ Becomes(AppendCommand(s, cmd))
      BY <1>17 DEF NewCommand, cmd
    <2>2. /\ OpenCount(s.t) + ld.dld = Total(tree, ld) /\ s.l.z = 0 /\ s.l.dld = ld.dld
          /\ Ready(s) /\ s.t.num + 3 <= MaxNode
          /\ cmd.tok \in PlainToks \cup {"WHL", "END"} /\ cmd.c \in Int
          /\ ld.dld = 0 \/ cmd.tok # "END"
      BY <1>11, <2>1
    <2> HIDE DEF s
    <2>3. Opens(s, AppendCommand(s, cmd), Turn(s, cmd))
      BY <2>2, AppendCommandOpens
    <2>4. PICK k \in {-1, 0, 1} : k = Turn(s, cmd)
      BY DEF Turn
    <2>5. /\ Behaved(ld') /\ Total(tree', ld') = Total(tree, ld) + k
          /\ k = -1 => Total(tree, ld) > 0
      BY <1>14, <2>1, <2>2, <2>3, <2>4
    <2>6. Total(tree, ld) + k = Bracketed(ch, Total(tree, ld))
      <3>1. CASE cmd.tok = "WHL"
        BY <1>4, <1>5, <2>4, <3>1 DEF Turn, Bracketed
      <3>2. CASE cmd.tok = "END" /\ s.l.jst # Null
        <4>1. k = -1 /\ ch = "]"
          BY <1>5, <2>4, <3>2 DEF Turn
        <4>2. QED BY <1>4, <2>5, <4>1 DEF Bracketed
      <3>3. CASE cmd.tok = "END" /\ s.l.jst = Null
        <4>1. k = 0 /\ ch = "]" /\ ld.dld = 0
          BY <1>5, <2>2, <2>4, <3>3 DEF Turn
        <4>2. OpenCount(s.t) = 0
          BY <2>2, <3>3, EmptyStack DEF Ready
        <4>3. QED BY <2>2, <4>1, <4>2 DEF Bracketed
      <3>4. CASE cmd.tok \notin {"WHL", "END"}
        <4>1. k = 0 /\ ch # "[" /\ ch # "]"
          BY <1>5, <2>4, <3>4 DEF Turn
        <4>2. QED BY <1>4, <1>6, <4>1
      <3>5. QED BY <3>1, <3>2, <3>3, <3>4
    <2>7. QED BY <1>1, <2>5, <2>6
  <1>18. QED
    BY <1>7, <1>8, <1>9, <1>10, <1>12, <1>13, <1>15, <1>16, <1>17 DEF ReadChar
\* Every step keeps the count.
LEMMA NextCounted == IInv /\ LoopInv /\ [Next]_vars => LoopInv'
  <1> SUFFICES ASSUME IInv, LoopInv, [Next]_vars PROVE LoopInv'
    OBVIOUS
  <1>1. Behaved(ld) /\ src \in Seq(Chars)
    BY DEF LoopInv
  <1>2. Ready(Now) /\ ld \in LoaderState /\ Now.t = tree /\ Now.l = ld /\ tree.num \in Nat
    <2>1. Ready(Now) /\ Now.t = tree /\ Now.l = ld
      BY DEF IInv, Now
    <2>2. QED BY <2>1, NumIsNat
  <1>3. CASE \E ch \in Chars : ReadChar(ch)
    <2>1. PICK ch \in Chars : ReadChar(ch)
      BY <1>3
    <2>2. Getc(ch) /\ Behaved(ld') /\ Total(tree', ld') = Bracketed(ch, Total(tree, ld))
      BY <1>1, <2>1, CharCounted
    <2>3. phase = "reading" /\ src' = Append(src, ch)
      BY <2>2 DEF Getc
    <2>4. LoopsIn(src) = Total(tree, ld)
      BY <2>3 DEF LoopInv
    <2>5. src' \in Seq(Chars) /\ LoopsIn(src') = Bracketed(ch, LoopsIn(src))
      BY <1>1, <2>3, TextGrows
    <2>6. QED BY <2>2, <2>4, <2>5 DEF LoopInv
  <1>4. ASSUME HasRoomFor(tree, 1)
        PROVE  /\ Opens(Now, FlushMov(Now), 0) /\ Ready(FlushMov(Now))
               /\ FlushMov(Now).t.num <= tree.num + 1
    <2>1. Now.t.num < MaxNode
      BY <1>2, <1>4 DEF HasRoomFor
    <2>2. QED BY <1>2, <2>1, FlushMovReady, FlushMovOpens DEF Grown
  <1>5. CASE EndOfFile
    <2> DEFINE s == FlushMov(Now)
               k == [s.l EXCEPT !.p = LastOf(s.t)]
    <2>1. /\ Becomes([s EXCEPT !.l.p = LastOf(s.t)]) /\ HasRoomFor(tree, 1)
          /\ src' = src /\ phase' = phase
      BY <1>5 DEF EndOfFile, Now
    <2>2. Opens(Now, s, 0) /\ Ready(s)
      BY <1>4, <2>1
    <2> HIDE DEF s
    <2>3. s.l \in LoaderState /\ s = [t |-> s.t, l |-> s.l]
      BY <2>2, NumIsNat
    <2>4. k.z = s.l.z /\ k.dld = s.l.dld
      BY <2>3 DEF LoaderState
    <2>5. [s EXCEPT !.l.p = LastOf(s.t)] = [t |-> s.t, l |-> k]
      BY <2>3, PairEdits
    <2> HIDE DEF k
    <2>6. tree' = s.t /\ ld' = k
      BY <2>1, <2>5, TotalBecomes
    <2>7. OpenCount(s.t) = OpenCount(tree) /\ k.z = ld.z /\ k.dld = ld.dld
      BY <1>2, <2>2, <2>4, OpenFinite DEF Opens
    <2>8. Behaved(ld') /\ Total(tree', ld') = Total(tree, ld)
      BY <1>1, <2>6, <2>7 DEF Behaved, Total
    <2>9. QED BY <2>1, <2>8 DEF LoopInv
  <1>6. CASE LastFileEnds
    <2> DEFINE s == FlushMov(Now)
               d == AppendDump(s)
    <2>1. Becomes(d) /\ HasRoomFor(tree, 2) /\ src' = src /\ phase' # "reading"
      BY <1>6 DEF LastFileEnds, Now
    <2>2. HasRoomFor(tree, 1) /\ tree.num + 2 <= MaxNode
      BY <1>2, <2>1 DEF HasRoomFor
    <2>3. Opens(Now, s, 0) /\ Ready(s) /\ s.t.num <= tree.num + 1
      BY <1>4, <2>2
    <2> HIDE DEF s
    <2>4. s.t.num < MaxNode
      BY <1>2, <2>2, <2>3, NumIsNat
    <2>5. d.l.z = s.l.z /\ d.l.dld = s.l.dld
      <3>1. Opens(s, NewNode(s, Blank("DUMP")), 0)
        BY <2>3, <2>4, MadePlain, PlainTokens, NewNodeOpens
      <3>2. QED BY <3>1 DEF AppendDump, Opens
    <2> HIDE DEF d
    <2>6. ld'.z = ld.z /\ ld'.dld = ld.dld
      BY <1>2, <2>1, <2>3, <2>5 DEF Becomes, Opens
    <2>7. QED BY <1>1, <2>1, <2>6 DEF LoopInv, Behaved
  <1>7. CASE GiveUpLoop
    <2>1. ld' = [ld EXCEPT !.jst = tree.node[ld.jst].jmp] /\ src' = src /\ phase' # "reading"
      BY <1>7 DEF GiveUpLoop
    <2>2. ld'.z = ld.z /\ ld'.dld = ld.dld
      BY <1>2, <2>1 DEF LoaderState
    <2>3. QED BY <1>1, <2>1, <2>2 DEF LoopInv, Behaved
  <1>8. CASE UNCHANGED vars
    BY <1>8 DEF vars, LoopInv
  <1>9. QED BY <1>3, <1>5, <1>6, <1>7, <1>8 DEF Next

\* No loop is lost and none counted twice, whatever is read and skipped, in
\* however many files: those the text has opened and not closed are on the
\* stack, kept back, or inside a comment loop.
THEOREM LoopsCounted == Spec => []LoopsAccounted
  <1>1. IInv /\ LoopInv => LoopsAccounted
    <2> SUFFICES ASSUME IInv, LoopInv, phase = "reading"
                 PROVE  LoopsIn(src) = Cardinality({x \in NodeId : Unclosed(x)}) + ld.dld
                                     + (IF ld.z = 0 THEN 0 ELSE 1)
      BY DEF LoopsAccounted
    <2>1. Sound(tree, ld.p, ld.jst) /\ tree \in Tree
      <3>1. Ready(Now) /\ Now.t = tree /\ Now.l = ld
        BY DEF IInv, Now
      <3>2. QED BY <3>1, NumIsNat DEF Ready
    <2> DEFINE n == Cardinality({x \in NodeId : Unclosed(x)})
    <2>2. n = OpenCount(tree)
      <3>1. {x \in NodeId : Unclosed(x)} = OpenOf(tree)
        BY <2>1, UnclosedIsOpen DEF OpenOf
      <3>2. QED BY <3>1 DEF OpenCount
    <2> HIDE DEF n
    <2>3. LoopsIn(src) = Total(tree, ld) /\ OpenCount(tree) \in Nat /\ ld.dld \in Nat
      BY OpenFinite DEF LoopInv, Behaved
    <2>4. LoopsIn(src) = n + ld.dld + (IF ld.z = 0 THEN 0 ELSE 1)
      BY <2>2, <2>3 DEF Total
    <2>5. QED BY <2>4 DEF n
  <1>2. QED BY <1>1, InitReady, NextReady, InitCounted, NextCounted, PTL DEF Spec
=============================================================================
