---------------------------- MODULE BFTreeProofs ----------------------------
(***************************************************************************)
(* Lemmas about the program tree that the proofs about its passes share.   *)
(*                                                                         *)
(* BFTree says that a list is whole and that its loops nest in terms of    *)
(* Walk, a recursive function.  A proof about a pass needs positions       *)
(* instead: a number for every node, greater by one than that of the node  *)
(* before it, which a pass that cuts or joins the list disturbs in one     *)
(* place only.  RankedComplete and RankedNested go from positions to Walk, *)
(* CompletePlaces from Walk to positions.                                  *)
(***************************************************************************)
EXTENDS BFTree, FiniteSets, TLAPS, WellFoundedInduction, FiniteSetTheorems

\* A set of numbers that is not empty has a least one.
LEMMA Least ==
  ASSUME NEW T \in SUBSET Nat, T # {}
  PROVE  \E x \in T : \A y \in T : ~(y < x)
  <1>1. \E x \in T : \A y \in T : ~ (<<y, x>> \in OpToRel(<, Nat))
    BY NatLessThanWellFounded, WFMin
  <1>2. QED BY <1>1 DEF OpToRel

\* Induction over the numbers, said of sets.
LEMMA Induction ==
  ASSUME NEW T, 0 \in T, \A k \in Nat : k \in T => k + 1 \in T
  PROVE  Nat \subseteq T
  <1> SUFFICES ASSUME Nat \ T # {} PROVE FALSE
    OBVIOUS
  <1>1. PICK x \in Nat \ T : \A y \in Nat \ T : ~(y < x)
    BY Least
  <1>2. x # 0 /\ x - 1 \in Nat /\ x = (x - 1) + 1
    BY <1>1
  <1>3. x - 1 \in T
    BY <1>1, <1>2
  <1>4. QED BY <1>1, <1>2, <1>3

\* What identities and links are.
LEMMA Ids ==
  /\ MaxNode \in Nat \ {0} /\ Null = 0
  /\ \A x : x \in NodeId <=> x \in Nat /\ 1 <= x /\ x <= MaxNode
  /\ \A x : x \in Link <=> x = Null \/ x \in NodeId
  BY MaxNodeAssumption DEF Null, NodeId, Link

USE Ids

\* A zeroed node is a node, whatever the token.
LEMMA BlankType ==
  ASSUME NEW tok \in Token PROVE Blank(tok) \in Node
  BY DEF Blank, Node

\* At makes a node of the given token.
LEMMA AtType ==
  ASSUME NEW tok \in Token, NEW c \in Int, NEW off \in Int
  PROVE  At(tok, c, off) \in Node /\ At(tok, c, off).type = tok
  <1>1. Blank(tok) \in Node /\ Blank(tok).type = tok
    BY BlankType DEF Blank
  <1>2. QED BY <1>1 DEF At, Node

(***************************************************************************)
(* Walk, the recursive function that follows next.                         *)
(***************************************************************************)
\* Where w ends: at the node that bfprog follows if it has not begun.
Final(w) == IF w = <<>> THEN Null ELSE w[Len(w)]

\* One more step along next, from the end of w.
Further(t, w) ==
  LET x == t.next[Final(w)] IN IF x = Null THEN w ELSE Append(w, x)

\* The recursive definition of Walk, up to k steps.
IsWalk(t, f, k) == f = [i \in 0 .. k |-> IF i = 0 THEN <<>> ELSE Further(t, f[i - 1])]

\* Walk is a recursive function, and so a choice.
LEMMA WalkByChoice ==
  ASSUME NEW t
  PROVE  Walk(t) = (CHOOSE f : IsWalk(t, f, MaxNode))[MaxNode]
  BY DEF Walk, IsWalk, Further, Final

\* There is a function that satisfies the recursive definition.
LEMMA WalkExists ==
  ASSUME NEW t
  PROVE  \E f : IsWalk(t, f, MaxNode)
  <1> DEFINE T == {k \in Nat : \E f : IsWalk(t, f, k)}
  <1>1. 0 \in T
    <2>1. IsWalk(t, [i \in 0 .. 0 |-> <<>>], 0)
      BY DEF IsWalk
    <2>2. QED BY <2>1
  <1>2. ASSUME NEW k \in Nat, k \in T PROVE k + 1 \in T
    <2>1. PICK f : IsWalk(t, f, k)
      BY <1>2
    <2> DEFINE g == [i \in 0 .. k + 1 |-> IF i = k + 1 THEN Further(t, f[k]) ELSE f[i]]
    <2>2. \A i \in 0 .. k : g[i] = f[i] /\ f[i] = IF i = 0 THEN <<>> ELSE Further(t, f[i - 1])
      BY <2>1 DEF IsWalk
    <2>3. g[k + 1] = Further(t, g[k])
      BY <2>2
    <2>4. ASSUME NEW i \in 0 .. k + 1
          PROVE  g[i] = IF i = 0 THEN <<>> ELSE Further(t, g[i - 1])
      <3>1. CASE i = k + 1
        BY <3>1, <2>3
      <3>2. CASE i # k + 1
        <4>1. i \in 0 .. k /\ (i # 0 => i - 1 \in 0 .. k)
          BY <3>2
        <4>2. QED BY <4>1, <2>2
      <3>3. QED BY <3>1, <3>2
    <2> HIDE DEF g
    <2>5. g = [i \in 0 .. k + 1 |-> IF i = 0 THEN <<>> ELSE Further(t, g[i - 1])]
      <3>1. g = [i \in 0 .. k + 1 |-> g[i]]
        BY DEF g
      <3>2. QED BY <3>1, <2>4
    <2>6. QED BY <2>5 DEF IsWalk
  <1> HIDE DEF T
  <1>3. MaxNode \in T
    BY <1>1, <1>2, Induction
  <1>4. QED BY <1>3 DEF T

\* w is how the list begins.
Chain(t, w) ==
  /\ w \in Seq(NodeId)
  /\ \A i \in 1 .. Len(w) : w[i] = t.next[IF i = 1 THEN Null ELSE w[i - 1]]

\* One more step keeps it so.
LEMMA FurtherChain ==
  ASSUME NEW t \in Tree, NEW w, Chain(t, w)
  PROVE  LET v == Further(t, w) IN
         /\ Chain(t, v)
         /\ Len(v) = Len(w) + 1 \/ (v = w /\ t.next[Final(v)] = Null)
  <1> DEFINE x == t.next[Final(w)]
             v == Further(t, w)
  <1>1. w \in Seq(NodeId) /\ Final(w) \in Link
    BY DEF Chain, Final
  <1>2. x \in Link
    BY <1>1 DEF Tree
  <1>3. CASE x = Null
    BY <1>3 DEF Further
  <1>4. CASE x # Null
    <2>1. v = Append(w, x) /\ x \in NodeId
      BY <1>2, <1>4 DEF Further
    <2> HIDE DEF v, x
    <2>2. v \in Seq(NodeId) /\ Len(v) = Len(w) + 1 /\ Len(w) \in Nat
          /\ v[Len(w) + 1] = x /\ \A i \in 1 .. Len(w) : v[i] = w[i]
      BY <1>1, <2>1
    <2>3. ASSUME NEW i \in 1 .. Len(v)
          PROVE  v[i] = t.next[IF i = 1 THEN Null ELSE v[i - 1]]
      <3>1. CASE i \in 1 .. Len(w)
        <4>1. i # 1 => i - 1 \in 1 .. Len(w)
          BY <3>1, <2>2
        <4>2. v[i] = w[i] /\ (i # 1 => v[i - 1] = w[i - 1])
          BY <3>1, <4>1, <2>2
        <4>3. w[i] = t.next[IF i = 1 THEN Null ELSE w[i - 1]]
          BY <3>1 DEF Chain
        <4>4. QED BY <4>2, <4>3
      <3>2. CASE i = Len(w) + 1
        <4>1. w = <<>> <=> i = 1
          BY <3>2, <1>1
        <4>2. i # 1 => v[i - 1] = w[Len(w)]
          BY <3>2, <2>2
        <4>3. Final(w) = IF i = 1 THEN Null ELSE v[i - 1]
          BY <4>1, <4>2, <3>2 DEF Final
        <4>4. QED BY <4>3, <3>2, <2>2 DEF x
      <3>3. QED BY <3>1, <3>2, <2>2
    <2>4. QED BY <2>2, <2>3 DEF Chain, v
  <1>5. QED BY <1>3, <1>4

\* Walk follows the list to its end, or as far as MaxNode nodes.
LEMMA WalkChain ==
  ASSUME NEW t \in Tree
  PROVE  /\ Chain(t, Walk(t))
         /\ Len(Walk(t)) = MaxNode \/ t.next[Final(Walk(t))] = Null
  <1> DEFINE f == CHOOSE g : IsWalk(t, g, MaxNode)
  <1>1. IsWalk(t, f, MaxNode)
    BY WalkExists
  <1>2. Walk(t) = f[MaxNode]
    BY WalkByChoice
  <1> HIDE DEF f
  <1>3. f[0] = <<>> /\ \A i \in 1 .. MaxNode : f[i] = Further(t, f[i - 1])
    BY <1>1 DEF IsWalk
  <1> DEFINE T == {k \in Nat : k <= MaxNode =>
                     /\ Chain(t, f[k])
                     /\ Len(f[k]) = k \/ t.next[Final(f[k])] = Null}
  <1>4. 0 \in T
    <2>1. Chain(t, <<>>) /\ Len(<<>>) = 0
      BY DEF Chain
    <2>2. QED BY <2>1, <1>3
  <1>5. ASSUME NEW k \in Nat, k \in T PROVE k + 1 \in T
    <2> SUFFICES ASSUME k + 1 <= MaxNode
                 PROVE  /\ Chain(t, f[k + 1])
                        /\ Len(f[k + 1]) = k + 1 \/ t.next[Final(f[k + 1])] = Null
      OBVIOUS
    <2>1. f[k + 1] = Further(t, f[k]) /\ Chain(t, f[k])
          /\ (Len(f[k]) = k \/ t.next[Final(f[k])] = Null)
      BY <1>3, <1>5
    <2>2. Chain(t, f[k + 1])
          /\ (Len(f[k + 1]) = Len(f[k]) + 1 \/ t.next[Final(f[k + 1])] = Null)
      BY <2>1, FurtherChain
    <2>3. t.next[Final(f[k])] = Null => f[k + 1] = f[k]
      BY <2>1 DEF Further
    <2>4. QED BY <2>1, <2>2, <2>3
  <1> HIDE DEF T
  <1>6. MaxNode \in T
    BY <1>4, <1>5, Induction
  <1>7. QED BY <1>2, <1>6 DEF T

(***************************************************************************)
(* Positions.  r gives a node its place in the list: it grows along next.  *)
(***************************************************************************)
Ranks(t, r) ==
  /\ r \in [NodeId -> Int]
  /\ \A x \in NodeId : Live(t, x) /\ t.next[x] # Null => r[x] < r[t.next[x]]

\* The list reaches live nodes only.
LEMMA ChainLive ==
  ASSUME NEW t \in Tree, DoublyLinked(t), NEW w, Chain(t, w)
  PROVE  \A i \in 1 .. Len(w) : Live(t, w[i])
  <1> DEFINE T == {k \in Nat : k + 1 <= Len(w) => Live(t, w[k + 1])}
  <1>1. w \in Seq(NodeId) /\ Len(w) \in Nat /\ \A i \in 1 .. Len(w) : w[i] \in NodeId
    BY DEF Chain
  <1>2. \A x \in Link : (x = Null \/ Live(t, x)) /\ t.next[x] # Null => Live(t, t.next[x])
    BY DEF DoublyLinked
  <1>3. 0 \in T
    <2>1. 1 <= Len(w) => w[1] = t.next[Null] /\ w[1] \in NodeId
      BY <1>1 DEF Chain
    <2>2. QED BY <2>1, <1>2
  <1>4. ASSUME NEW k \in Nat, k \in T PROVE k + 1 \in T
    <2> SUFFICES ASSUME (k + 1) + 1 <= Len(w) PROVE Live(t, w[(k + 1) + 1])
      OBVIOUS
    <2>1. Live(t, w[k + 1]) /\ k + 1 \in 1 .. Len(w) /\ k + 2 \in 1 .. Len(w)
      BY <1>4, <1>1
    <2>2. w[k + 2] = t.next[w[k + 1]]
      BY <2>1 DEF Chain
    <2>3. QED BY <2>1, <2>2, <1>1, <1>2
  <1> HIDE DEF T
  <1>5. Nat \subseteq T
    BY <1>3, <1>4, Induction
  <1>6. ASSUME NEW i \in 1 .. Len(w) PROVE Live(t, w[i])
    <2>1. i - 1 \in T
      BY <1>5, <1>1
    <2>2. QED BY <2>1, <1>1 DEF T
  <1>7. QED BY <1>6

\* Positions grow along the list.
LEMMA ChainRanked ==
  ASSUME NEW t \in Tree, DoublyLinked(t), NEW w, Chain(t, w), NEW r, Ranks(t, r)
  PROVE  \A i, j \in 1 .. Len(w) : i < j => r[w[i]] < r[w[j]]
  <1>1. w \in Seq(NodeId) /\ Len(w) \in Nat /\ \A i \in 1 .. Len(w) : w[i] \in NodeId
    BY DEF Chain
  <1>2. r \in [NodeId -> Int]
    BY DEF Ranks
  <1>3. \A i \in 1 .. Len(w) : i + 1 <= Len(w) => r[w[i]] < r[w[i + 1]]
    <2> SUFFICES ASSUME NEW i \in 1 .. Len(w), i + 1 <= Len(w)
                 PROVE  r[w[i]] < r[w[i + 1]]
      OBVIOUS
    <2>1. i + 1 \in 1 .. Len(w) /\ i + 1 # 1 /\ (i + 1) - 1 = i
      BY <1>1
    <2>2. w[i + 1] = t.next[w[i]]
      BY <2>1 DEF Chain
    <2>3. Live(t, w[i]) /\ w[i] \in NodeId /\ w[i + 1] \in NodeId
      BY <2>1, <1>1, ChainLive
    <2>4. QED BY <2>2, <2>3 DEF Ranks
  <1>4. ASSUME NEW i \in 1 .. Len(w)
        PROVE  \A j \in 1 .. Len(w) : i < j => r[w[i]] < r[w[j]]
    <2> DEFINE T == {k \in Nat : i + k + 1 <= Len(w) => r[w[i]] < r[w[i + k + 1]]}
    <2>1. 0 \in T
      BY <1>3, <1>1
    <2>2. ASSUME NEW k \in Nat, k \in T PROVE k + 1 \in T
      <3> SUFFICES ASSUME i + (k + 1) + 1 <= Len(w)
                   PROVE  r[w[i]] < r[w[i + (k + 1) + 1]]
        OBVIOUS
      <3> DEFINE j == i + k + 1
      <3>1. j \in 1 .. Len(w) /\ j + 1 \in 1 .. Len(w) /\ i + (k + 1) + 1 = j + 1
        BY <1>1
      <3>2. r[w[i]] < r[w[j]]
        BY <2>2, <3>1
      <3>3. r[w[j]] < r[w[j + 1]]
        BY <3>1, <1>3
      <3>4. r[w[i]] \in Int /\ r[w[j]] \in Int /\ r[w[j + 1]] \in Int
        BY <3>1, <1>1, <1>2
      <3> HIDE DEF j
      <3>5. r[w[i]] < r[w[j + 1]]
        BY <3>2, <3>3, <3>4
      <3>6. QED BY <3>1, <3>5
    <2> HIDE DEF T
    <2>3. Nat \subseteq T
      BY <2>1, <2>2, Induction
    <2>4. ASSUME NEW j \in 1 .. Len(w), i < j PROVE r[w[i]] < r[w[j]]
      <3>1. j - i - 1 \in T /\ i + (j - i - 1) + 1 = j
        BY <2>3, <2>4, <1>1
      <3>2. QED BY <3>1, <2>4, <1>1 DEF T
    <2>5. QED BY <2>4
  <1>5. QED BY <1>4

\* A set of nodes that is not empty has one with the least position.
LEMMA Foremost ==
  ASSUME NEW S \in SUBSET NodeId, S # {}, NEW r \in [NodeId -> Int]
  PROVE  \E x \in S : \A y \in S : r[x] <= r[y]
  <1> DEFINE B == {k \in Nat : \E m \in Int : \A x \in NodeId : x <= k => m <= r[x]}
  <1>1. 0 \in B
    <2>1. \A x \in NodeId : ~(x <= 0)
      OBVIOUS
    <2>2. QED BY <2>1
  <1>2. ASSUME NEW k \in Nat, k \in B PROVE k + 1 \in B
    <2>1. PICK m \in Int : \A x \in NodeId : x <= k => m <= r[x]
      BY <1>2
    <2>2. CASE k + 1 \in NodeId /\ r[k + 1] < m
      <3>1. \A x \in NodeId : x <= k + 1 => x <= k \/ x = k + 1
        OBVIOUS
      <3>2. r[k + 1] \in Int /\ \A x \in NodeId : r[x] \in Int
        BY <2>2
      <3>3. \A x \in NodeId : x <= k + 1 => r[k + 1] <= r[x]
        BY <3>1, <3>2, <2>1, <2>2
      <3>4. QED BY <3>2, <3>3
    <2>3. CASE ~(k + 1 \in NodeId /\ r[k + 1] < m)
      <3>1. \A x \in NodeId : x <= k + 1 => m <= r[x]
        <4>1. SUFFICES ASSUME NEW x \in NodeId, x <= k + 1 PROVE m <= r[x]
          OBVIOUS
        <4>2. x <= k \/ x = k + 1
          BY <4>1
        <4>3. r[x] \in Int
          OBVIOUS
        <4>4. QED BY <4>2, <4>3, <2>1, <2>3
      <3>2. QED BY <3>1
    <2>4. QED BY <2>2, <2>3
  <1> HIDE DEF B
  <1>3. MaxNode \in B
    BY <1>1, <1>2, Induction
  <1>4. PICK m \in Int : \A x \in NodeId : m <= r[x]
    BY <1>3 DEF B
  <1> DEFINE T == {k \in Nat : \E x \in S : r[x] = m + k}
  <1>5. \A x \in S : r[x] \in Int /\ r[x] - m \in T
    BY <1>4
  <1>6. PICK k \in T : \A j \in T : ~(j < k)
    BY <1>5, Least
  <1>7. PICK x \in S : r[x] = m + k
    BY <1>6
  <1>8. ASSUME NEW y \in S PROVE r[x] <= r[y]
    <2>1. ~(r[y] - m < k) /\ r[y] \in Int
      BY <1>5, <1>6
    <2>2. QED BY <2>1, <1>7, <1>6
  <1>9. QED BY <1>8

\* No walk is longer than there are nodes.
LEMMA ChainShort ==
  ASSUME NEW w \in Seq(NodeId), IsInjective(w)
  PROVE  /\ Len(w) <= MaxNode
         /\ Len(w) = MaxNode => Range(w) = NodeId
  <1>1. w \in [1 .. Len(w) -> NodeId] /\ Len(w) \in Nat
    OBVIOUS
  <1>2. w \in Injection(1 .. Len(w), NodeId)
    BY <1>1 DEF IsInjective, Injection
  <1>3. IsFiniteSet(1 .. Len(w)) /\ Cardinality(1 .. Len(w)) = Len(w)
    <2>1. 1 \in Int /\ Len(w) \in Int
      BY <1>1
    <2>2. /\ IsFiniteSet(1 .. Len(w))
          /\ Cardinality(1 .. Len(w)) = IF 1 > Len(w) THEN 0 ELSE Len(w) - 1 + 1
      BY <2>1, FS_Interval
    <2>3. QED BY <2>2, <1>1
  <1>4. IsFiniteSet(NodeId) /\ Cardinality(NodeId) = MaxNode
    <2>1. NodeId = 1 .. MaxNode /\ MaxNode \in Nat
      BY DEF NodeId
    <2>2. QED BY <2>1, FS_Interval
  <1>5. /\ Cardinality(1 .. Len(w)) <= Cardinality(NodeId)
        /\ Cardinality(1 .. Len(w)) = Cardinality(NodeId)
             => w \in Surjection(1 .. Len(w), NodeId)
    BY <1>2, <1>4, FS_Injection
  <1>6. w \in Surjection(1 .. Len(w), NodeId) => Range(w) = NodeId
    BY <1>1 DEF Surjection, Range
  <1>7. QED BY <1>3, <1>4, <1>5, <1>6

\* A list whose nodes have positions is whole: next leads from bfprog to each
\* live node once, and then to an end.
LEMMA RankedComplete ==
  ASSUME NEW t \in Tree, DoublyLinked(t), NEW r, Ranks(t, r)
  PROVE  Complete(t)
  <1> DEFINE w == Walk(t)
  <1>1. Chain(t, w) /\ (Len(w) = MaxNode \/ t.next[Final(w)] = Null)
    BY WalkChain
  <1> HIDE DEF w
  <1>2. /\ w \in Seq(NodeId) /\ Len(w) \in Nat /\ DOMAIN w = 1 .. Len(w)
        /\ \A i \in 1 .. Len(w) : w[i] \in NodeId
    BY <1>1 DEF Chain
  <1>3. \A i \in 1 .. Len(w) : Live(t, w[i])
    BY <1>1, ChainLive
  <1>4. \A i, j \in 1 .. Len(w) : i < j => r[w[i]] < r[w[j]]
    BY <1>1, ChainRanked
  <1>5. r \in [NodeId -> Int]
    BY DEF Ranks
  <1>6. IsInjective(w)
    <2> SUFFICES ASSUME NEW i \in 1 .. Len(w), NEW j \in 1 .. Len(w), w[i] = w[j]
                 PROVE  i = j
      BY <1>2 DEF IsInjective
    <2>1. ~(i < j) /\ ~(j < i)
      BY <1>2, <1>4, <1>5
    <2>2. QED BY <2>1, <1>2
  <1>7. \A x \in Link : (x = Null \/ Live(t, x)) /\ t.next[x] # Null =>
          Live(t, t.next[x]) /\ t.prev[t.next[x]] = x
    BY DEF DoublyLinked
  <1>8. t.next[Final(w)] = Null
    <2> SUFFICES ASSUME t.next[Final(w)] # Null PROVE FALSE
      OBVIOUS
    <2>1. /\ Len(w) = MaxNode /\ Range(w) = NodeId
          /\ Len(w) \in 1 .. Len(w)
      <3>1. Len(w) = MaxNode
        BY <1>1
      <3>2. Range(w) = NodeId
        BY <3>1, <1>2, <1>6, ChainShort
      <3>3. MaxNode \in 1 .. MaxNode
        OBVIOUS
      <3>4. QED BY <3>1, <3>2, <3>3
    <2>2. w # <<>> /\ Final(w) = w[Len(w)]
      BY <2>1, <1>2 DEF Final
    <2>3. Final(w) \in NodeId /\ Live(t, Final(w))
      BY <2>1, <2>2, <1>2, <1>3
    <2>4. t.next[Final(w)] \in NodeId /\ r[Final(w)] < r[t.next[Final(w)]]
      BY <2>3, <1>7 DEF Ranks, Live
    <2>5. PICK i \in 1 .. Len(w) : t.next[Final(w)] = w[i]
      BY <2>1, <2>4, <1>2 DEF Range
    <2>6. r[w[i]] <= r[w[Len(w)]]
      BY <2>1, <1>2, <1>4, <1>5
    <2>7. r[w[i]] \in Int /\ r[w[Len(w)]] \in Int
      BY <2>1, <1>2, <1>5
    <2>8. QED BY <2>2, <2>4, <2>5, <2>6, <2>7
  <1>9. \A x \in NodeId : Live(t, x) => x \in Range(w)
    <2> DEFINE S == {x \in NodeId : Live(t, x) /\ x \notin Range(w)}
    <2> SUFFICES ASSUME S # {} PROVE FALSE
      OBVIOUS
    <2>1. PICK x \in S : \A y \in S : r[x] <= r[y]
      BY <1>5, Foremost
    <2> DEFINE v == t.prev[x]
    <2>2. v \in Link /\ (v # Null => Live(t, v)) /\ t.next[v] = x /\ x # Null
      BY <2>1 DEF DoublyLinked, Tree
    <2> HIDE DEF v
    <2>3. \A i \in 1 .. Len(w) : x # w[i]
      BY <2>1, <1>2 DEF Range
    <2>4. CASE v = Null
      <3>1. w # <<>>
        BY <2>2, <2>4, <1>8 DEF Final
      <3>2. 1 \in 1 .. Len(w)
        BY <3>1, <1>2
      <3>3. w[1] = t.next[Null]
        BY <3>2, <1>1 DEF Chain
      <3>4. QED BY <3>2, <3>3, <2>2, <2>3, <2>4
    <2>5. CASE v # Null
      <3>1. v \in NodeId /\ r[v] < r[x] /\ r[v] \in Int /\ r[x] \in Int
        BY <2>1, <2>2, <2>5, <1>5 DEF Ranks
      <3>2. v \notin S
        BY <3>1, <2>1
      <3>3. PICK i \in 1 .. Len(w) : v = w[i]
        BY <3>1, <3>2, <2>2, <2>5, <1>2 DEF Range
      <3>4. CASE i = Len(w)
        <4>1. Final(w) = v
          BY <3>3, <3>4, <1>2 DEF Final
        <4>2. QED BY <4>1, <1>8, <2>2
      <3>5. CASE i # Len(w)
        <4> HIDE DEF S
        <4>1. i + 1 \in 1 .. Len(w) /\ i + 1 # 1 /\ (i + 1) - 1 = i
          <5>1. i \in 1 .. Len(w) /\ i # Len(w) /\ Len(w) \in Nat
            BY <3>3, <3>5, <1>2
          <5>2. QED BY <5>1
        <4>2. w[i + 1] = t.next[w[i]]
          BY <4>1, <1>1 DEF Chain
        <4>3. QED BY <4>1, <4>2, <3>3, <2>2, <2>3
      <3>6. QED BY <3>4, <3>5
    <2>6. QED BY <2>4, <2>5
  <1>10. {x \in NodeId : Live(t, x)} = Range(w)
    <2>1. Range(w) \subseteq {x \in NodeId : Live(t, x)}
      BY <1>2, <1>3 DEF Range
    <2>2. QED BY <2>1, <1>9
  <1>11. t.next[IF w = <<>> THEN Null ELSE w[Len(w)]] = Null
    BY <1>8 DEF Final
  <1>12. QED BY <1>6, <1>10, <1>11 DEF Complete, w

(***************************************************************************)
(* Loops inside each other, told from positions.                           *)
(***************************************************************************)
Inside(t, r, x, y) == r[x] < r[y] /\ r[y] < r[t.node[x].jmp]

NestedBy(t, r) ==
  \A x \in NodeId : t.node[x].type \in Openers =>
    /\ r[x] < r[t.node[x].jmp]
    /\ \A y \in NodeId : t.node[y].type \in Openers /\ Inside(t, r, x, y) =>
         r[t.node[y].jmp] < r[t.node[x].jmp]

\* A bracket's partner is a live node.
LEMMA PartnersLive ==
  ASSUME NEW t \in Tree, BracketsPaired(t), NEW x \in NodeId, t.node[x].type \in Openers
  PROVE  t.node[x].jmp \in NodeId /\ Live(t, t.node[x].jmp) /\ Live(t, x)
  BY DEF BracketsPaired, Live, Bracket, Openers, Closers

\* Each live node is in the walk once.
LEMMA CompleteWalk ==
  ASSUME NEW t \in Tree, Complete(t)
  PROVE  /\ Chain(t, Walk(t))
         /\ Walk(t) \in Seq(NodeId) /\ Len(Walk(t)) \in Nat
         /\ DOMAIN Walk(t) = 1 .. Len(Walk(t))
         /\ t.next[Final(Walk(t))] = Null
         /\ \A i, j \in 1 .. Len(Walk(t)) : Walk(t)[i] = Walk(t)[j] => i = j
         /\ \A x \in NodeId : Live(t, x) <=> \E i \in 1 .. Len(Walk(t)) : x = Walk(t)[i]
  <1> DEFINE w == Walk(t)
  <1>1. Chain(t, w)
    BY WalkChain
  <1>2. /\ t.next[IF w = <<>> THEN Null ELSE w[Len(w)]] = Null
        /\ IsInjective(w)
        /\ {x \in NodeId : Live(t, x)} = Range(w)
    BY DEF Complete
  <1> HIDE DEF w
  <1>3. w \in Seq(NodeId) /\ Len(w) \in Nat /\ DOMAIN w = 1 .. Len(w)
    BY <1>1 DEF Chain
  <1>4. \A i, j \in 1 .. Len(w) : w[i] = w[j] => i = j
    BY <1>2, <1>3 DEF IsInjective
  <1>5. \A x \in NodeId : Live(t, x) <=> \E i \in 1 .. Len(w) : x = w[i]
    BY <1>2, <1>3 DEF Range
  <1>6. QED BY <1>1, <1>2, <1>3, <1>4, <1>5 DEF w, Final

\* If closing brackets come after their opening ones and nothing opened between
\* them closes beyond them, the loops nest.
LEMMA RankedNested ==
  ASSUME NEW t \in Tree, DoublyLinked(t), BracketsPaired(t),
         NEW r, Ranks(t, r), NestedBy(t, r)
  PROVE  Nested(t)
  <1> DEFINE w == Walk(t)
             Partner(i) == CHOOSE j \in DOMAIN w : w[j] = t.node[w[i]].jmp
             Opens(i)   == t.node[w[i]].type \in Openers
  <1>1. /\ Chain(t, w)
        /\ w \in Seq(NodeId) /\ Len(w) \in Nat /\ DOMAIN w = 1 .. Len(w)
        /\ \A x \in NodeId : Live(t, x) <=> \E i \in 1 .. Len(w) : x = w[i]
    BY RankedComplete, CompleteWalk
  <1> HIDE DEF w
  <1>2. \A i \in 1 .. Len(w) : w[i] \in NodeId /\ r[w[i]] \in Int
    BY <1>1 DEF Ranks
  <1>3. \A i, j \in 1 .. Len(w) : i < j <=> r[w[i]] < r[w[j]]
    <2> SUFFICES ASSUME NEW i \in 1 .. Len(w), NEW j \in 1 .. Len(w)
                 PROVE  i < j <=> r[w[i]] < r[w[j]]
      OBVIOUS
    <2>1. \A a, b \in 1 .. Len(w) : a < b => r[w[a]] < r[w[b]]
      BY <1>1, ChainRanked
    <2>2. i < j \/ i = j \/ j < i
      BY <1>1
    <2>3. r[w[i]] \in Int /\ r[w[j]] \in Int /\ i \in Int /\ j \in Int
      BY <1>1, <1>2
    <2>4. QED BY <2>1, <2>2, <2>3
  <1>4. ASSUME NEW i \in 1 .. Len(w), Opens(i)
        PROVE  Partner(i) \in 1 .. Len(w) /\ w[Partner(i)] = t.node[w[i]].jmp
    <2>1. Live(t, t.node[w[i]].jmp) /\ t.node[w[i]].jmp \in NodeId
      BY <1>2, <1>4, PartnersLive
    <2>2. \E j \in DOMAIN w : w[j] = t.node[w[i]].jmp
      BY <2>1, <1>1
    <2>3. QED BY <2>2, <1>1
  <1> HIDE DEF Partner
  <1>5. ASSUME NEW i \in 1 .. Len(w), Opens(i) PROVE i < Partner(i)
    <2>1. r[w[i]] < r[t.node[w[i]].jmp]
      BY <1>2, <1>5 DEF NestedBy
    <2>2. QED BY <2>1, <1>3, <1>4, <1>5
  <1>6. ASSUME NEW i \in 1 .. Len(w), Opens(i),
               NEW k \in i + 1 .. Partner(i) - 1, Opens(k)
        PROVE  Partner(k) < Partner(i)
    <2>1. Partner(i) \in 1 .. Len(w)
      BY <1>4, <1>6
    <2>2. k \in 1 .. Len(w) /\ i < k /\ k < Partner(i)
      BY <2>1, <1>1, <1>6
    <2>3. Inside(t, r, w[i], w[k])
      BY <2>1, <2>2, <1>3, <1>4, <1>6 DEF Inside
    <2>4. r[t.node[w[k]].jmp] < r[t.node[w[i]].jmp]
      BY <2>2, <2>3, <1>2, <1>6 DEF NestedBy
    <2>5. Partner(k) \in 1 .. Len(w) /\ w[Partner(k)] = t.node[w[k]].jmp
      BY <2>2, <1>4, <1>6
    <2>6. QED BY <2>1, <2>4, <2>5, <1>3, <1>4, <1>6
  <1>7. QED BY <1>1, <1>5, <1>6 DEF Nested, Partner, w

(***************************************************************************)
(* Positions from the walk: the index of a node.                           *)
(***************************************************************************)
Places(t, r) ==
  /\ r \in [NodeId -> Int]
  /\ t.next[Null] # Null => Live(t, t.next[Null])
  /\ \A x \in NodeId : Live(t, x) =>
       /\ r[x] \in 1 .. MaxNode
       /\ t.next[x] # Null => Live(t, t.next[x]) /\ r[t.next[x]] = r[x] + 1
       /\ r[t.next[Null]] <= r[x] /\ t.next[Null] # Null
       /\ \A y \in NodeId : Live(t, y) =>
            /\ r[x] = r[y] => x = y
            /\ t.next[x] = Null => r[y] <= r[x]

\* In a list that is whole the index in the walk is a position, and if the loops
\* nest they do by these positions.
LEMMA CompletePlaces ==
  ASSUME NEW t \in Tree, Complete(t)
  PROVE  \E r : /\ Places(t, r)
                /\ BracketsPaired(t) /\ Nested(t) => NestedBy(t, r)
  <1> DEFINE w == Walk(t)
             r == [x \in NodeId |-> IF \E i \in 1 .. Len(w) : w[i] = x
                                    THEN CHOOSE i \in 1 .. Len(w) : w[i] = x ELSE 0]
  <1>1. /\ Chain(t, w)
        /\ w \in Seq(NodeId) /\ Len(w) \in Nat /\ DOMAIN w = 1 .. Len(w)
        /\ t.next[Final(w)] = Null
        /\ \A i, j \in 1 .. Len(w) : w[i] = w[j] => i = j
        /\ \A x \in NodeId : Live(t, x) <=> \E i \in 1 .. Len(w) : x = w[i]
    BY CompleteWalk
  <1>0. Len(w) <= MaxNode
    BY <1>1, ChainShort DEF Complete
  <1> DEFINE Partner(i) == CHOOSE j \in DOMAIN w : w[j] = t.node[w[i]].jmp
             Opens(i)   == t.node[w[i]].type \in Openers
  <1>2. Nested(t) => \A i \in DOMAIN w : Opens(i) =>
          /\ i < Partner(i)
          /\ \A k \in i + 1 .. Partner(i) - 1 : Opens(k) => Partner(k) < Partner(i)
    BY DEF Nested
  <1> HIDE DEF w
  <1>3. \A i \in 1 .. Len(w) : w[i] \in NodeId /\ Live(t, w[i])
    BY <1>1
  <1>4. ASSUME NEW i \in 1 .. Len(w) PROVE r[w[i]] = i
    <2>1. r[w[i]] = CHOOSE j \in 1 .. Len(w) : w[j] = w[i]
      BY <1>3
    <2>2. \A j \in 1 .. Len(w) : w[j] = w[i] => j = i
      BY <1>1
    <2>3. QED BY <2>1, <2>2
  <1>5. r \in [NodeId -> Int]
    <2>1. ASSUME NEW x \in NodeId PROVE r[x] \in Int
      <3>1. CASE \E i \in 1 .. Len(w) : w[i] = x
        BY <3>1, <1>1, <1>4
      <3>2. CASE ~ \E i \in 1 .. Len(w) : w[i] = x
        BY <3>2
      <3>3. QED BY <3>1, <3>2
    <2>2. QED BY <2>1
  <1> HIDE DEF r
  <1>6. \A i \in 1 .. Len(w) : w[i] = t.next[IF i = 1 THEN Null ELSE w[i - 1]]
    BY <1>1 DEF Chain
  <1>7. ASSUME NEW x \in NodeId, Live(t, x)
        PROVE  /\ r[x] \in 1 .. MaxNode
               /\ t.next[x] # Null => Live(t, t.next[x]) /\ r[t.next[x]] = r[x] + 1
               /\ t.next[Null] # Null /\ r[t.next[Null]] <= r[x]
               /\ \A y \in NodeId : Live(t, y) =>
                    /\ r[x] = r[y] => x = y
                    /\ t.next[x] = Null => r[y] <= r[x]
    <2>1. PICK i \in 1 .. Len(w) : x = w[i]
      BY <1>1, <1>7
    <2>2. r[x] = i /\ i \in Nat /\ Len(w) \in Nat /\ 1 <= i /\ i <= Len(w)
      BY <2>1, <1>1, <1>4
    <2>3. 1 \in 1 .. Len(w) /\ w[1] = t.next[Null] /\ r[w[1]] = 1 /\ w[1] \in NodeId
      BY <2>2, <1>3, <1>4, <1>6
    <2>4. i + 1 \in 1 .. Len(w) =>
            w[i + 1] = t.next[x] /\ r[w[i + 1]] = i + 1 /\ Live(t, w[i + 1]) /\ t.next[x] # Null
      <3>1. SUFFICES ASSUME i + 1 \in 1 .. Len(w)
                     PROVE  w[i + 1] = t.next[x] /\ r[w[i + 1]] = i + 1
                            /\ Live(t, w[i + 1]) /\ t.next[x] # Null
        OBVIOUS
      <3>2. i + 1 # 1 /\ (i + 1) - 1 = i
        BY <2>2
      <3>3. w[i + 1] = t.next[w[i]]
        BY <3>1, <3>2, <1>6
      <3>4. r[w[i + 1]] = i + 1 /\ Live(t, w[i + 1]) /\ w[i + 1] \in NodeId
        BY <3>1, <1>3, <1>4
      <3>5. QED BY <3>3, <3>4, <2>1
    <2>5. i = Len(w) => t.next[x] = Null
      BY <2>1, <2>2, <1>1 DEF Final
    <2>6. i # Len(w) => i + 1 \in 1 .. Len(w)
      BY <2>2
    <2>7. t.next[x] # Null => Live(t, t.next[x]) /\ r[t.next[x]] = r[x] + 1
      BY <2>2, <2>4, <2>5, <2>6
    <2>8. t.next[Null] # Null /\ r[t.next[Null]] <= r[x]
      BY <2>2, <2>3
    <2>9. ASSUME NEW y \in NodeId, Live(t, y)
          PROVE  /\ r[x] = r[y] => x = y
                 /\ t.next[x] = Null => r[y] <= r[x]
      <3>1. PICK j \in 1 .. Len(w) : y = w[j]
        BY <1>1, <2>9
      <3>2. r[y] = j /\ j \in Nat /\ j <= Len(w)
        BY <3>1, <1>1, <1>4
      <3>3. t.next[x] = Null => i = Len(w)
        BY <2>4, <2>6
      <3>4. QED BY <3>1, <3>2, <3>3, <2>1, <2>2
    <2>10. r[x] \in 1 .. MaxNode
      BY <1>0, <2>2
    <2>11. QED BY <2>7, <2>8, <2>9, <2>10
  <1>8. t.next[Null] # Null => Live(t, t.next[Null])
    <2>1. CASE w = <<>>
      BY <2>1, <1>1 DEF Final
    <2>2. CASE w # <<>>
      <3>1. 1 \in 1 .. Len(w)
        BY <2>2, <1>1
      <3>2. QED BY <3>1, <1>3, <1>6
    <2>3. QED BY <2>1, <2>2
  <1>9. Places(t, r)
    BY <1>5, <1>7, <1>8 DEF Places
  <1>10. ASSUME BracketsPaired(t), Nested(t) PROVE NestedBy(t, r)
    <2>1. ASSUME NEW i \in 1 .. Len(w), Opens(i)
          PROVE  Partner(i) \in 1 .. Len(w) /\ w[Partner(i)] = t.node[w[i]].jmp
                 /\ r[t.node[w[i]].jmp] = Partner(i)
      <3>1. Live(t, t.node[w[i]].jmp) /\ t.node[w[i]].jmp \in NodeId
        BY <1>3, <1>10, <2>1, PartnersLive
      <3>2. \E j \in DOMAIN w : w[j] = t.node[w[i]].jmp
        BY <3>1, <1>1
      <3>3. Partner(i) \in 1 .. Len(w) /\ w[Partner(i)] = t.node[w[i]].jmp
        BY <3>2, <1>1
      <3>4. QED BY <3>3, <1>4
    <2> HIDE DEF Partner
    <2>2. SUFFICES ASSUME NEW x \in NodeId, t.node[x].type \in Openers
                   PROVE  /\ r[x] < r[t.node[x].jmp]
                          /\ \A y \in NodeId : t.node[y].type \in Openers /\ Inside(t, r, x, y) =>
                               r[t.node[y].jmp] < r[t.node[x].jmp]
      BY DEF NestedBy
    <2>3. Live(t, x)
      BY <2>2, <1>10, PartnersLive
    <2>4. PICK i \in 1 .. Len(w) : x = w[i]
      BY <2>3, <1>1
    <2>5. Opens(i) /\ r[x] = i /\ r[t.node[x].jmp] = Partner(i) /\ Partner(i) \in 1 .. Len(w)
      BY <2>1, <2>2, <2>4, <1>4
    <2>6. i < Partner(i)
      BY <2>5, <1>1, <1>2, <1>10
    <2>7. ASSUME NEW y \in NodeId, t.node[y].type \in Openers, Inside(t, r, x, y)
          PROVE  r[t.node[y].jmp] < r[t.node[x].jmp]
      <3>1. Live(t, y)
        BY <2>7, <1>10, PartnersLive
      <3>2. PICK k \in 1 .. Len(w) : y = w[k]
        BY <3>1, <1>1
      <3>3. Opens(k) /\ r[y] = k /\ r[t.node[y].jmp] = Partner(k)
        BY <2>1, <2>7, <3>2, <1>4
      <3>4. i < k /\ k < Partner(i)
        BY <2>5, <2>7, <3>3 DEF Inside
      <3>5. k \in i + 1 .. Partner(i) - 1
        BY <3>4, <2>5, <1>1
      <3>6. Partner(k) < Partner(i)
        BY <3>3, <3>5, <2>5, <1>1, <1>2, <1>10
      <3>7. QED BY <3>3, <3>6, <2>5
    <2>8. QED BY <2>5, <2>6, <2>7
  <1>11. QED BY <1>9, <1>10
=============================================================================
