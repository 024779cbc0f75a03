------------------------------- MODULE BFTree -------------------------------
(***************************************************************************)
(* The program tree of Tritium (tritium/bfi.tree.h): a doubly linked list  *)
(* of instruction nodes in which a loop's two brackets point at each other *)
(* through their jmp fields.  Every pass of the optimiser edits it in      *)
(* place, so the links are modelled as they are in the C program.          *)
(*                                                                         *)
(* A tree is a record of                                                   *)
(*   next : the next pointers.  next[Null] is the variable bfprog, so that *)
(*          "if (p) p->next = x; else bfprog = x;" is one assignment;      *)
(*   prev : the prev pointers, of nodes only;                              *)
(*   node : the contents of the nodes;                                     *)
(*   num  : bfi_num, the number of nodes allocated so far.  Identities are *)
(*          not used twice, so a use of a freed node is seen.              *)
(***************************************************************************)
EXTENDS Integers, Sequences, Functions

CONSTANTS
  MaxNode,    \* bound on the number of nodes ever allocated
  CellBits,   \* cell_size: the width of a cell
  noheader,   \* -H: a fragment is compiled, its tape need not start blank
  iostyle,    \* 0 binary, 1 UTF-8, 2 ASCII, 3 decimal (-fintio)
  eofcell     \* what a read does at the end of the input (-E)

ASSUME MaxNodeAssumption  == MaxNode \in Nat \ {0}
ASSUME CellBitsAssumption == CellBits \in Nat \ {0} /\ 2^CellBits \in Nat \ {0}
ASSUME OptionsAssumption  ==
  noheader \in BOOLEAN /\ iostyle \in 0 .. 3 /\ eofcell \in 0 .. 7

Null   == 0
NodeId == 1 .. MaxNode
Link   == {Null} \cup NodeId

Openers == {"WHL", "IF", "MULT", "CMULT"}
Closers == {"END", "ENDIF"}
Bracket == Openers \cup Closers

\* The commands with one operand cell, and those with up to three.
Simple == {"ADD", "SET", "PRT", "PRTI", "CHR", "INP", "INPI", "DUMP", "STOP"}
Calc   == {"CALC", "CALCMULT", "LT", "DIV"}

Token == Bracket \cup Simple \cup Calc \cup {"MOV", "NOP", "FREE"}

Node ==
  [ type    : Token,
    count   : Int, offset  : Int,
    count2  : Int, offset2 : Int,
    count3  : Int, offset3 : Int,
    jmp     : Link ]

\* tcalloc: a new node is all zeros.
Blank(tok) ==
  [ type |-> tok, count  |-> 0, offset  |-> 0,
                  count2 |-> 0, offset2 |-> 0,
                  count3 |-> 0, offset3 |-> 0, jmp |-> Null ]

At(tok, c, off) == [Blank(tok) EXCEPT !.count = c, !.offset = off]

FreeNode == Blank("FREE")

Tree ==
  [ next : [Link -> Link],
    prev : [NodeId -> Link],
    node : [NodeId -> Node],
    num  : 0 .. MaxNode ]

EmptyTree ==
  [ next |-> [x \in Link   |-> Null],
    prev |-> [x \in NodeId |-> Null],
    node |-> [x \in NodeId |-> FreeNode],
    num  |-> 0 ]

Live(t, x) == x \in NodeId /\ t.node[x].type # "FREE"

\* The macro that cuts an int to the width of a cell.
UM(v) == v % 2^CellBits

\* "if (x) x->prev = y;"
SetPrev(f, x, y) == IF x = Null THEN f ELSE [f EXCEPT ![x] = y]

\* Wrong on purpose: bfi_num is counted up twice for a node.
AddNodeCountedTwice(t, p, nd) ==
  LET id == t.num + 1
      q  == t.next[p]
  IN  [ next |-> [t.next EXCEPT ![id] = q, ![p] = id],
        prev |-> SetPrev([t.prev EXCEPT ![id] = p], q, id),
        node |-> [t.node EXCEPT ![id] = nd],
        num  |-> id + 1 ]

(***************************************************************************)
(* new_node and add_node_after: link a new node holding nd behind p.  With *)
(* p = NULL in a tree that is not empty the code leaves bfprog alone, so   *)
(* the new node precedes the head without becoming it.                     *)
(***************************************************************************)
AddNodeAfter(t, p, nd) ==
  LET id == t.num + 1
      q  == t.next[p]
  IN  [ next |-> IF p = Null /\ q # Null
                 THEN [t.next EXCEPT ![id] = q]
                 ELSE [t.next EXCEPT ![id] = q, ![p] = id],
        prev |-> SetPrev([t.prev EXCEPT ![id] = p], q, id),
        node |-> [t.node EXCEPT ![id] = nd],
        num  |-> id ]

\* Assignments to next, prev and the contents of nodes.
Edit(t, next, prev, node) ==
  [t EXCEPT !.next = next, !.prev = prev, !.node = node]

\* free(x).  The links of a freed node are cleared: nothing may use them.
Freed(t, x) ==
  Edit(t, [t.next EXCEPT ![x] = Null],
          [t.prev EXCEPT ![x] = Null],
          [t.node EXCEPT ![x] = FreeNode])

\* Taking a node out of the list and freeing it.
Unlinked(t, m) ==
  Freed(Edit(t, [t.next EXCEPT ![t.prev[m]] = t.next[m]],
                SetPrev(t.prev, t.next[m], t.prev[m]),
                t.node), m)

HasRoomFor(t, k) == t.num + k <= MaxNode

(***************************************************************************)
(* What every pass may rely on.                                            *)
(***************************************************************************)

\* next and prev are inverse to each other and reach live nodes only.
DoublyLinked(t) ==
  /\ \A x \in Link : (x = Null \/ Live(t, x)) /\ t.next[x] # Null =>
        Live(t, t.next[x]) /\ t.prev[t.next[x]] = x
  /\ \A x \in NodeId : Live(t, x) =>
        /\ t.prev[x] # Null => Live(t, t.prev[x])
        /\ t.next[t.prev[x]] = x

\* A bracket and its partner point at each other, one opens and one closes.
BracketsPaired(t) ==
  \A x \in NodeId : t.node[x].type \in Bracket =>
    LET y == t.node[x].jmp IN
      /\ y \in NodeId
      /\ t.node[y].jmp = x
      /\ t.node[x].type \in Openers => t.node[y].type \in Closers
      /\ t.node[x].type \in Closers => t.node[y].type \in Openers

\* Both brackets of a loop test the same cell.
OffsetsPaired(t) ==
  \A x \in NodeId : t.node[x].type \in Bracket =>
    t.node[x].offset = t.node[t.node[x].jmp].offset

\* A T_LT, which only convert loops make, has both its factors.
Factors(t) ==
  \A x \in NodeId : t.node[x].type = "LT" => t.node[x].count2 # 0 /\ t.node[x].count3 # 0

\* Something opens every loop: no closing bracket is the head.
ClosersFollow(t) ==
  \A x \in NodeId : t.node[x].type \in Closers => t.prev[x] # Null

\* Identities from num on have not been handed out.
Unallocated(t) == \A x \in NodeId : x > t.num => t.node[x] = FreeNode

WellFormed(t) ==
  /\ DoublyLinked(t)
  /\ BracketsPaired(t)
  /\ OffsetsPaired(t)
  /\ ClosersFollow(t)
  /\ Unallocated(t)

(***************************************************************************)
(* The list as a sequence, for the properties that need its order.         *)
(***************************************************************************)

\* The nodes met by following next from bfprog (at most MaxNode of them).
Walk(t) ==
  LET walk[i \in 0 .. MaxNode] ==
        IF i = 0 THEN <<>>
        ELSE LET s == walk[i - 1]
                 x == t.next[IF s = <<>> THEN Null ELSE s[Len(s)]]
             IN  IF x = Null THEN s ELSE Append(s, x)
  IN  walk[MaxNode]

\* The list ends, meets no node twice and misses no live node.
Complete(t) ==
  LET w == Walk(t) IN
  /\ t.next[IF w = <<>> THEN Null ELSE w[Len(w)]] = Null
  /\ IsInjective(w)
  /\ {x \in NodeId : Live(t, x)} = Range(w)

\* Loops nest: a loop opened inside another one is closed inside it.
Nested(t) ==
  LET w == Walk(t)
      Partner(i) == CHOOSE j \in DOMAIN w : w[j] = t.node[w[i]].jmp
      Opens(i)   == t.node[w[i]].type \in Openers
  IN  \A i \in DOMAIN w : Opens(i) =>
        /\ i < Partner(i)
        /\ \A k \in i + 1 .. Partner(i) - 1 : Opens(k) => Partner(k) < Partner(i)
=============================================================================
