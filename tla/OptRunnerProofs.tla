-------------------------- MODULE OptRunnerProofs --------------------------
(***************************************************************************)
(* The trial run of -Orun takes note of every cell it writes, for every    *)
(* program without T_DIV, every width of cells and every option: no cell   *)
(* is left out of the code that sets up the tape.                          *)
(*                                                                         *)
(* And what it leaves is one list again, whole, with its loops paired and  *)
(* nested, although it is cut in front and joined to another one.  It      *)
(* begins with what the run cannot do: a read, or a loop that holds one.   *)
(*                                                                         *)
(* The invariants say more.  Noted: whatever is written lies between the   *)
(* lowest and the highest cell noted; it needs the offsets of the program  *)
(* to be numbers, and those of the nodes that the pass adds.  Growing: the *)
(* pool holds two lists, the program and one beside it; every mark stands  *)
(* outside of the loops, so that the cut behind it breaks none; and of the *)
(* marks only one is still to be met, in front of what the run cannot do.  *)
(***************************************************************************)
EXTENDS OptRunner, BFTreeProofs

Good(x) ==
  /\ x.type # "DIV"
  /\ x.offset \in Int /\ x.offset2 \in Int /\ x.offset3 \in Int
  /\ x.type = "MOV" => x.count \in Int

GoodNodes(f) == DOMAIN f = NodeId /\ \A x \in NodeId : Good(f[x])

Fields == {"n", "p", "tape", "string", "stdin", "io", "status"}

GoodMachine(m) == DOMAIN m = Fields /\ m.p \in Int

GoodProfile(pr) == pr.min \in Int /\ pr.max \in Int

Within(m, pr) == \A a \in DOMAIN m.tape : a \in Int /\ pr.min <= a /\ a <= pr.max

Noted ==
  phase \in {"try", "run"} =>
    /\ GoodNodes(tree.node) /\ tree.num \in Nat
    /\ GoodMachine(vm)
    /\ GoodProfile(profile)
    /\ Within(vm, profile)

\* Taking note of a cell keeps those noted before.
LEMMA Widening ==
  ASSUME NEW pr, GoodProfile(pr), NEW a \in Int
  PROVE  /\ GoodProfile(Widened(pr, a))
         /\ Widened(pr, a).min <= a /\ a <= Widened(pr, a).max
         /\ Widened(pr, a).min <= pr.min /\ pr.max <= Widened(pr, a).max
  BY DEF GoodProfile, Widened

\* What is written at a cell that has been noted stays within the profile.
LEMMA Writing ==
  ASSUME NEW m, GoodMachine(m), NEW pr, GoodProfile(pr), NEW off \in Int, NEW v,
         NEW new, GoodProfile(new), Within(m, pr),
         new.min <= pr.min, pr.max <= new.max, new.min <= m.p + off, m.p + off <= new.max
  PROVE  GoodMachine(R!Put(m, off, v)) /\ Within(R!Put(m, off, v), new)
  <1>1. R!Put(m, off, v).tape = R!Store(m.tape, m.p + off, v)
    BY DEF R!Put, GoodMachine, Fields
  <1>2. GoodMachine(R!Put(m, off, v))
    BY DEF R!Put, GoodMachine, Fields
  <1>3. Within(R!Put(m, off, v), new)
    BY <1>1 DEF Within, R!Store, GoodMachine, GoodProfile
  <1>4. QED BY <1>2, <1>3

\* Going on to the next node changes neither the tape nor the pointer.
LEMMA GoingOn ==
  ASSUME NEW m, GoodMachine(m), NEW t
  PROVE  /\ GoodMachine(R!Onward(t, m))
         /\ R!Onward(t, m).tape = m.tape
  BY DEF R!Onward, R!Halted, GoodMachine, Fields

\* Nodes that are added keep the list good.
LEMMA Adding ==
  ASSUME NEW t, GoodNodes(t.node), NEW x, NEW node, Good(node)
  PROVE  GoodNodes(AddNodeAfter(t, x, node).node)
  BY DEF AddNodeAfter, GoodNodes

\* A node that is all zeros but for a count and an offset.
LEMMA BlankGood ==
  ASSUME NEW tok, tok # "DIV", NEW c, NEW off \in Int, tok = "MOV" => c \in Int
  PROVE  Good(At(tok, c, off)) /\ (tok # "MOV" => Good(Blank(tok)))
  BY DEF Good, At, Blank

\* Linking some more nodes keeps the list good.
LEMMA Linking ==
  ASSUME NEW t, GoodNodes(t.node), t.num \in Nat, NEW x, NEW s, Len(s) \in Nat,
         \A i \in 1 .. Len(s) : Good(s[i])
  PROVE  GoodNodes(Chained(t, x, s).node) /\ Chained(t, x, s).num \in Nat
  <1>1. CASE s = <<>>
    BY <1>1 DEF Chained
  <1>2. CASE s # <<>>
    <2>1. Chained(t, x, s).node =
            [y \in NodeId |-> IF y \in t.num + 1 .. t.num + Len(s) THEN s[y - t.num] ELSE t.node[y]]
      BY <1>2 DEF Chained
    <2>2. ASSUME NEW y \in NodeId
          PROVE  Good(Chained(t, x, s).node[y])
      BY <2>1 DEF GoodNodes, NodeId
    <2>3. Chained(t, x, s).num = t.num + Len(s)
      BY <1>2 DEF Chained
    <2>4. QED BY <2>1, <2>2, <2>3 DEF GoodNodes
  <1>3. QED BY <1>1, <1>2

\* At first nothing has been written.
THEOREM NotedInit == Init => Noted
  <1>1. SUFFICES ASSUME Init PROVE Noted
    OBVIOUS
  <1>2. GoodNodes(tree.node) /\ tree.num \in Nat
    BY <1>1, OptAssumption DEF Init, GoodNodes, Good, Tree, Node
  <1>3. GoodMachine(vm) /\ vm.tape = <<>>
    BY <1>1 DEF Init, GoodMachine, Fields, R!Machine
  <1>4. GoodProfile(profile)
    BY <1>1 DEF Init, GoodProfile
  <1>5. QED BY <1>2, <1>3, <1>4 DEF Noted, Within

\* The first case of the switch.
LEMMA ExecMov ==
  ASSUME NEW t, NEW m, t.node[m.n].type = "MOV"
  PROVE  R!Exec(t, m) = [m EXCEPT !.p = @ + t.node[m.n].count]
  BY DEF R!Exec, R!NodeOf, R!Openers

Executed == R!Exec(tree, vm)

\* One turn of the trial run, for each kind of instruction it carries out.
LEMMA Stepping ==
  ASSUME GoodNodes(tree.node), GoodMachine(vm), GoodProfile(profile), Within(vm, profile),
         vm.n \in NodeId,
         nd.type \in {"MOV", "ADD", "SET", "NOP", "CALC", "CALCMULT", "LT"} \cup Bracket,
         NEW new, GoodProfile(new), new.min <= profile.min, profile.max <= new.max,
         nd.type # "MOV" => new.min <= vm.p + nd.offset /\ vm.p + nd.offset <= new.max
  PROVE  GoodMachine(R!Step(tree, vm)) /\ Within(R!Step(tree, vm), new)
    <1>0. SUFFICES GoodMachine(Executed) /\ Within(Executed, new)
    BY GoingOn DEF Within, R!Step, Executed
  <1>1. Good(nd)
    BY DEF GoodNodes, nd
  <1>2. Within(vm, new)
    BY DEF Within, GoodProfile
  <1>3. CASE nd.type = "MOV"
    <2>1. Executed = [vm EXCEPT !.p = @ + nd.count]
      BY <1>3, ExecMov DEF Executed, nd
    <2>2. GoodMachine(Executed) /\ Executed.tape = vm.tape
      BY <2>1, <1>1, <1>3 DEF GoodMachine, Fields, Good
    <2>3. Within(Executed, new)
      BY <2>2, <1>2 DEF Within
    <2>4. QED BY <2>2, <2>3
  <1>4. CASE nd.type \in {"NOP"} \cup Bracket
    <2>1. Executed \in {vm, [vm EXCEPT !.n = nd.jmp]}
      BY <1>4 DEF Executed, R!Exec, R!NodeOf, nd, Bracket, Openers, Closers, R!Openers
    <2>2. GoodMachine(Executed) /\ Executed.tape = vm.tape
      BY <2>1 DEF GoodMachine, Fields
    <2>3. Within(Executed, new)
      BY <2>2, <1>2 DEF Within
    <2>4. QED BY <2>2, <2>3
  <1>5. CASE nd.type \in {"ADD", "SET", "CALC", "CALCMULT", "LT"}
    <2>1. PICK v : Executed = R!Put(vm, nd.offset, v)
      BY <1>5 DEF Executed, R!Exec, R!NodeOf, nd, R!Openers
    <2>2. GoodMachine(Executed) /\ Within(Executed, new)
      BY <2>1, <1>1, <1>5, Writing DEF Good
    <2>3. QED BY <2>2
  <1>6. QED BY <1>3, <1>4, <1>5


\* What is noted for an instruction, and that nothing noted is forgotten.
LEMMA Touching ==
  ASSUME GoodMachine(vm), GoodProfile(profile), Good(nd)
  PROVE  /\ GoodProfile(Touched(nd)) /\ GoodProfile(TouchedOperands(nd))
         /\ Touched(nd).min <= profile.min /\ profile.max <= Touched(nd).max
         /\ nd.type # "MOV" => Touched(nd).min <= vm.p + nd.offset /\ vm.p + nd.offset <= Touched(nd).max
         /\ TouchedOperands(nd).min <= Touched(nd).min /\ Touched(nd).max <= TouchedOperands(nd).max
  <1>1. vm.p + nd.offset \in Int /\ vm.p + nd.offset2 \in Int /\ vm.p + nd.offset3 \in Int
    BY DEF GoodMachine, Good
  <1> DEFINE a == Touched(nd)
             b == IF nd.count2 # 0 THEN Widened(a, vm.p + nd.offset2) ELSE a
  <1>2. /\ GoodProfile(a)
        /\ a.min <= profile.min /\ profile.max <= a.max
        /\ nd.type # "MOV" => a.min <= vm.p + nd.offset /\ vm.p + nd.offset <= a.max
    <2>1. CASE nd.type = "MOV"
      BY <2>1 DEF Touched, GoodProfile
    <2>2. CASE nd.type # "MOV"
      <3>1. a = Widened(profile, vm.p + nd.offset)
        BY <2>2 DEF Touched
      <3>2. QED BY <1>1, <3>1, Widening
    <2>3. QED BY <2>1, <2>2
  <1>3. GoodProfile(b) /\ b.min <= a.min /\ a.max <= b.max
    <2>1. CASE nd.count2 = 0
      BY <2>1, <1>2 DEF GoodProfile
    <2>2. CASE nd.count2 # 0
      BY <2>2, <1>1, <1>2, Widening
    <2>3. QED BY <2>1, <2>2
  <1>4. TouchedOperands(nd) = IF nd.count3 # 0 THEN Widened(b, vm.p + nd.offset3) ELSE b
    BY DEF TouchedOperands
  <1> HIDE DEF a, b
  <1>5. /\ GoodProfile(TouchedOperands(nd))
        /\ TouchedOperands(nd).min <= b.min /\ b.max <= TouchedOperands(nd).max
    <2>1. CASE nd.count3 = 0
      BY <2>1, <1>3, <1>4 DEF GoodProfile
    <2>2. CASE nd.count3 # 0
      BY <2>2, <1>1, <1>3, <1>4, Widening
    <2>3. QED BY <2>1, <2>2
  <1>6. /\ TouchedOperands(nd).min <= a.min /\ a.max <= TouchedOperands(nd).max
    BY <1>2, <1>3, <1>5 DEF GoodProfile
  <1>7. QED BY <1>2, <1>5, <1>6 DEF a

\* What the trial run prints becomes nodes that have numbers for offsets.
LEMMA Recording ==
  ASSUME NEW c
  PROVE  Len(Recorded(c)) \in Nat /\ \A i \in 1 .. Len(Recorded(c)) : Good(Recorded(c)[i])
  <1>1. Good(At("SET", c, 0)) /\ Good(Blank("PRT")) /\ Good(At("CHR", c, 0)) /\ Good(At("CHR", SChar(c), 0))
    BY BlankGood
  <1>2. QED BY <1>1 DEF Recorded

\* The nodes that try_opt_runner adds touch no cell.
LEMMA TryKeepsNoted ==
  ASSUME Noted, TryOptRunner
  PROVE  Noted'
  <1>1. SUFFICES ASSUME phase' = "run" PROVE Noted'
    BY DEF TryOptRunner, Noted
  <1>2. /\ phase = "try" /\ UNCHANGED <<vm, profile>>
        /\ GoodNodes(tree.node) /\ tree.num \in Nat
        /\ GoodMachine(vm) /\ GoodProfile(profile) /\ Within(vm, profile)
    BY DEF TryOptRunner, Noted
  <1>3. PICK t : /\ \E x : t = Suspended(tree, x)
                 /\ tree' = [t EXCEPT !.num = t.num + 1, !.node[t.num + 1] = Blank("NOP")]
    BY <1>1 DEF TryOptRunner
  <1>4. PICK x : t = AddNodeAfter(tree, x, Blank("SUSP"))
    BY <1>3 DEF Suspended
  <1>5. GoodNodes(t.node) /\ t.num = tree.num + 1
    <2>1. GoodNodes(t.node)
      BY <1>2, <1>4, Adding, BlankGood
    <2>2. t.num = tree.num + 1
      BY <1>4 DEF AddNodeAfter
    <2>3. QED BY <2>1, <2>2
  <1>6. DOMAIN t = {"next", "prev", "node", "num"}
    BY <1>4 DEF AddNodeAfter
  <1>7. tree'.node = [t.node EXCEPT ![t.num + 1] = Blank("NOP")] /\ tree'.num = t.num + 1
    BY <1>3, <1>6
  <1>8. GoodNodes(tree'.node) /\ tree'.num \in Nat
    <2>1. Good(Blank("NOP"))
      BY BlankGood
    <2>2. QED BY <1>2, <1>5, <1>7, <2>1 DEF GoodNodes
  <1>9. QED BY <1>2, <1>8 DEF Noted, GoodMachine, GoodProfile, Within

\* The turns of run_tree_noinp that leave the program alone.
LEMMA RunKeepsNoted ==
  ASSUME Noted, RunCell \/ RunCalc \/ RunDump
  PROVE  Noted'
  <1>1. /\ phase = "run" /\ phase' = "run" /\ tree' = tree /\ vm.n \in NodeId
        /\ GoodNodes(tree.node) /\ tree.num \in Nat
        /\ GoodMachine(vm) /\ GoodProfile(profile) /\ Within(vm, profile)
    BY DEF Noted, RunCell, RunCalc, RunDump, Running
  <1>2. Good(nd)
    BY <1>1 DEF GoodNodes, nd
  <1>3. GoodProfile(profile') /\ GoodMachine(vm') /\ Within(vm', profile')
    <2>1. CASE RunCell
      <3>1. profile' = Touched(nd) /\ vm' = R!Step(tree, vm)
        BY <2>1 DEF RunCell
      <3>2. nd.type \in {"MOV", "ADD", "SET", "NOP"} \cup Bracket
        BY <2>1, <1>2 DEF RunCell, Running, Good
      <3>3. QED BY <1>1, <1>2, <3>1, <3>2, Touching, Stepping
    <2>2. CASE RunCalc
      <3>1. profile' = TouchedOperands(nd) /\ vm' = R!Step(tree, vm)
        BY <2>2 DEF RunCalc
      <3>2. nd.type \in {"CALC", "CALCMULT", "LT"}
        BY <2>2 DEF RunCalc, Running
      <3>3. /\ GoodProfile(TouchedOperands(nd))
            /\ TouchedOperands(nd).min <= profile.min /\ profile.max <= TouchedOperands(nd).max
            /\ TouchedOperands(nd).min <= vm.p + nd.offset /\ vm.p + nd.offset <= TouchedOperands(nd).max
        BY <1>1, <1>2, <3>2, Touching DEF GoodProfile, GoodMachine, Good
      <3>4. QED BY <1>1, <3>1, <3>2, <3>3, Stepping
    <2>3. CASE RunDump
      <3>1. profile' = Touched(nd) /\ vm' = R!Onward(tree, vm)
        BY <2>3 DEF RunDump
      <3>2. GoodMachine(vm') /\ vm'.tape = vm.tape
        BY <1>1, <3>1, GoingOn
      <3>3. QED BY <1>1, <1>2, <3>1, <3>2, Touching DEF Within, GoodProfile
    <2>4. QED BY <2>1, <2>2, <2>3
  <1>4. QED BY <1>1, <1>3 DEF Noted

\* A turn that prints, and the nodes that record it.
LEMMA OutputKeepsNoted ==
  ASSUME Noted, RunOutput
  PROVE  Noted'
  <1>1. /\ phase = "run" /\ phase' = "run" /\ vm.n \in NodeId
        /\ GoodNodes(tree.node) /\ tree.num \in Nat
        /\ GoodMachine(vm) /\ GoodProfile(profile) /\ Within(vm, profile)
        /\ profile' = Touched(nd) /\ vm' = R!Onward(tree, vm)
    BY DEF Noted, RunOutput, Running
  <1>2. Good(nd)
    BY <1>1 DEF GoodNodes, nd
  <1>3. PICK c : tree' = Chained(tree, opt_run.end, Recorded(c))
    BY DEF RunOutput
  <1>4. GoodNodes(tree'.node) /\ tree'.num \in Nat
    BY <1>1, <1>3, Recording, Linking
  <1>5. GoodMachine(vm') /\ vm'.tape = vm.tape
    BY <1>1, GoingOn
  <1>6. GoodProfile(profile') /\ Within(vm', profile')
    BY <1>1, <1>2, <1>5, Touching DEF Within, GoodProfile
  <1>7. QED BY <1>1, <1>4, <1>5, <1>6 DEF Noted

\* update_opt_runner goes on from the tape as it is, or is the end of the run.
LEMMA UpdateKeepsNoted ==
  ASSUME Noted, UpdateOptRunner
  PROVE  Noted'
  <1>1. PICK x : MoveSuspension(x) \/ phase' = "over"
    BY DEF UpdateOptRunner, ReplacePrefix
  <1>2. CASE phase' = "over"
    BY <1>2 DEF Noted
  <1>3. CASE MoveSuspension(x)
    <2>1. /\ phase = "run" /\ phase' = "run" /\ vm.n \in NodeId
          /\ GoodNodes(tree.node) /\ tree.num \in Nat
          /\ GoodMachine(vm) /\ GoodProfile(profile) /\ Within(vm, profile)
          /\ profile' = Touched(nd) /\ vm' = [vm EXCEPT !.n = x]
      BY <1>3 DEF Noted, UpdateOptRunner, Running, MoveSuspension
    <2>2. Good(nd)
      BY <2>1 DEF GoodNodes, nd
    <2>3. PICK y : tree' = AddNodeAfter(tree, y, Blank("SUSP"))
      BY <1>3 DEF MoveSuspension, Suspended
    <2>4. GoodNodes(tree'.node)
      BY <2>1, <2>3, Adding, BlankGood
    <2>5. tree'.num \in Nat
      BY <2>1, <2>3 DEF AddNodeAfter
    <2>6. GoodMachine(vm') /\ vm'.tape = vm.tape
      BY <2>1 DEF GoodMachine, Fields
    <2>7. GoodProfile(profile') /\ Within(vm', profile')
      BY <2>1, <2>2, <2>6, Touching DEF Within, GoodProfile
    <2>8. QED BY <2>1, <2>4, <2>5, <2>6, <2>7 DEF Noted
  <1>4. QED BY <1>1, <1>2, <1>3

\* No turn of the trial run writes a cell that it does not note.
THEOREM NotedNext == Noted /\ [Next]_vars => Noted'
  <1>1. SUFFICES ASSUME Noted, [Next]_vars PROVE Noted'
    OBVIOUS
  <1>2. CASE RunBadNode
    BY <1>2 DEF RunBadNode, Noted
  <1>3. CASE UNCHANGED vars
    BY <1>1, <1>3 DEF vars, Noted, GoodMachine, GoodProfile, Within
  <1>4. QED
    BY <1>1, <1>2, <1>3, TryKeepsNoted, RunKeepsNoted, OutputKeepsNoted, UpdateKeepsNoted
       DEF Next, Step

\* Every cell the trial run has written and that is not blank lies between the
\* lowest and the highest one noted: the loop that makes code for the tape
\* (opt_runner.c:137) meets them all.
THEOREM RunnerNotesAll == Spec => []ProfileCovers
  <1>1. Noted => ProfileCovers
    BY DEF Noted, ProfileCovers, Within, GoodProfile
  <1>2. QED BY <1>1, NotedInit, NotedNext, PTL DEF Spec

USE Ids

(***************************************************************************)
(* The list is whole once the pass is over.                                *)
(*                                                                         *)
(* While the run goes on there are two lists in one pool of nodes: the     *)
(* program, and beside it the one that is to replace its prefix.           *)
(***************************************************************************)
\* What there is of the program when only its links and its loops are looked at:
\* the nodes beside it count as free, and whatever is no bracket as a T_NOP.
SkeletonNode(t, beside, x) ==
  IF x \in beside \/ t.node[x].type = "FREE" THEN FreeNode
  ELSE IF t.node[x].type \in Bracket THEN t.node[x] ELSE Blank("NOP")

Skeleton(t, beside) ==
  [ next |-> t.next, prev |-> t.prev,
    node |-> [x \in NodeId |-> SkeletonNode(t, beside, x)],
    num  |-> t.num ]

\* The pool of nodes, those that are free among them.
Pool(t) ==
  /\ DOMAIN t = {"next", "prev", "node", "num"}
  /\ t.next \in [Link -> Link] /\ t.prev \in [NodeId -> Link]
  /\ DOMAIN t.node = NodeId
  /\ \A x \in NodeId : t.node[x].type \in Bracket => t.node[x] \in Node
  /\ t.num \in 0 .. MaxNode
  /\ \A x \in NodeId : x > t.num => t.node[x].type = "FREE" /\ t.next[x] = Null

\* r gives every node of m its place, and the loops nest.
Sound(m, r) ==
  /\ m \in Tree
  /\ DoublyLinked(m) /\ BracketsPaired(m)
  /\ Ranks(m, r) /\ NestedBy(m, r)

\* No loop that begins before x ends behind it.
OutsideLoops(m, r, x) ==
  \A y \in NodeId : m.node[y].type \in Openers => ~(r[y] <= r[x] /\ r[x] < r[m.node[y].jmp])

\* The marks stand outside of the loops.
MarksOutside(t, beside, r) ==
  \A x \in NodeId : t.node[x].type = "SUSP" =>
    OutsideLoops(Skeleton(t, beside), r, x)

\* The list that grows beside the program, in the order of allocation.
Grown(t, beside, start, end) ==
  /\ beside \subseteq NodeId /\ start \in beside /\ end \in beside
  /\ t.next[end] = Null
  /\ \A x \in beside :
       /\ t.node[x].type \notin Bracket \cup {"FREE", "SUSP"}
       /\ start <= x /\ x <= end /\ x <= t.num
       /\ x # end   => t.next[x] \in beside /\ x < t.next[x] /\ t.prev[t.next[x]] = x
       /\ x # start => t.prev[x] \in beside /\ t.next[t.prev[x]] = x

TwoLists(t, beside, r, o) ==
  /\ Pool(t)
  /\ Sound(Skeleton(t, beside), r)
  /\ MarksOutside(t, beside, r)
  /\ Grown(t, beside, o.start, o.end)
  /\ o = [start |-> o.start, end |-> o.end]

Stoppers == {"INP", "INPI", "PRTI", "STOP"}

\* x is something that stops the run, or a loop that holds something that does.
Held(t, m, r, x) ==
  \/ t.node[x].type \in Stoppers
  \/ /\ t.node[x].type \in Openers
     /\ \E y \in NodeId :
          Live(m, y) /\ t.node[y].type \in Stoppers /\ r[x] < r[y] /\ r[y] < r[t.node[x].jmp]

\* Of the marks at most one is still to be met by a run that stands before n, and
\* what follows it is to be held.
Ahead(t, m, r, n) ==
  n # Null =>
    /\ Live(m, n)
    /\ \A z \in NodeId : t.node[z].type = "SUSP" /\ r[n] <= r[z] =>
         /\ t.next[z] # Null => Held(t, m, r, t.next[z])
         /\ \A z2 \in NodeId : t.node[z2].type = "SUSP" /\ r[n] <= r[z2] => z2 = z

Growing ==
  /\ phase = "try" => tree \in OptTrees /\ opt_run = NoRun /\ vm.n = tree.next[Null]
  /\ phase = "run" => \E beside, r :
       TwoLists(tree, beside, r, opt_run) /\ Ahead(tree, Skeleton(tree, beside), r, vm.n)
  /\ ListSound
  /\ NothingLeftToRun

\* The skeleton of a pool is a tree with the same links and brackets.
LEMMA SkeletonParts ==
  ASSUME NEW t, Pool(t), NEW beside
  PROVE  LET m == Skeleton(t, beside) IN
         /\ m \in Tree
         /\ m.next = t.next /\ m.prev = t.prev /\ m.num = t.num
         /\ \A x : Live(m, x) <=> Live(t, x) /\ x \notin beside
         /\ \A x \in NodeId :
              /\ m.node[x].type \in Bracket <=> t.node[x].type \in Bracket /\ x \notin beside
              /\ m.node[x].type \in Bracket => m.node[x] = t.node[x]
  <1> DEFINE m == Skeleton(t, beside)
  <1>1. m.next = t.next /\ m.prev = t.prev /\ m.num = t.num
    BY DEF Skeleton
  <1>2. \A x \in NodeId : m.node[x] = SkeletonNode(t, beside, x)
    BY DEF Skeleton
  <1>3. FreeNode.type = "FREE" /\ Blank("NOP").type = "NOP"
    BY DEF FreeNode, Blank
  <1>4. FreeNode \in Node /\ Blank("NOP") \in Node
    BY BlankType DEF FreeNode, Token
  <1>5. ASSUME NEW x \in NodeId
        PROVE  /\ m.node[x] \in Node
               /\ m.node[x].type = "FREE" <=> t.node[x].type = "FREE" \/ x \in beside
               /\ m.node[x].type \in Bracket <=> t.node[x].type \in Bracket /\ x \notin beside
               /\ m.node[x].type \in Bracket => m.node[x] = t.node[x]
    BY <1>2, <1>3, <1>4 DEF SkeletonNode, Pool, Bracket, Openers, Closers
  <1>6. m \in Tree
    <2>1. m.node \in [NodeId -> Node]
      BY <1>5 DEF Skeleton
    <2>2. m = [next |-> t.next, prev |-> t.prev, node |-> m.node, num |-> t.num]
      BY DEF Skeleton
    <2>3. QED BY <2>1, <2>2 DEF Tree, Pool
  <1> HIDE DEF m
  <1>7. QED BY <1>1, <1>5, <1>6 DEF Live, m

\* The walk goes by next alone.
LEMMA WalkByNext ==
  ASSUME NEW t, NEW u, t.next = u.next
  PROVE  Walk(t) = Walk(u)
  BY DEF Walk

NestedAlong(t, w) ==
  LET Partner(i) == CHOOSE j \in DOMAIN w : w[j] = t.node[w[i]].jmp
      Opens(i)   == t.node[w[i]].type \in Openers
  IN  \A i \in DOMAIN w : Opens(i) =>
        /\ i < Partner(i)
        /\ \A k \in i + 1 .. Partner(i) - 1 : Opens(k) => Partner(k) < Partner(i)

\* Nested looks at the list through its walk only.
LEMMA NestedByWalk ==
  ASSUME NEW t
  PROVE  Nested(t) <=> NestedAlong(t, Walk(t))
  BY DEF Nested, NestedAlong

\* A list is whole if its skeleton is.
LEMMA SkeletonWhole ==
  ASSUME NEW t, Pool(t), NEW r, Sound(Skeleton(t, {}), r)
  PROVE  DoublyLinked(t) /\ BracketsPaired(t) /\ Complete(t) /\ Nested(t)
  <1> DEFINE m == Skeleton(t, {})
  <1>1. /\ m \in Tree
        /\ m.next = t.next /\ m.prev = t.prev
        /\ \A x : Live(m, x) <=> Live(t, x)
        /\ \A x \in NodeId : m.node[x].type \in Bracket <=> t.node[x].type \in Bracket
        /\ \A x \in NodeId : m.node[x].type \in Bracket => m.node[x] = t.node[x]
    BY SkeletonParts
  <1>2. DoublyLinked(m) /\ BracketsPaired(m) /\ Complete(m) /\ Nested(m)
    BY RankedComplete, RankedNested DEF Sound
  <1>3. Walk(m) = Walk(t)
    BY <1>1, WalkByNext
  <1>4. /\ DOMAIN Walk(t) \subseteq Nat
        /\ \A i \in DOMAIN Walk(t) : Walk(t)[i] \in NodeId
    BY <1>1, <1>2, <1>3, CompleteWalk
  <1> HIDE DEF m
  <1>5. DoublyLinked(t)
    BY <1>1, <1>2 DEF DoublyLinked
  <1>6. BracketsPaired(t)
    <2>1. ASSUME NEW x \in NodeId, t.node[x].type \in Bracket
          PROVE  LET y == t.node[x].jmp IN
                 /\ y \in NodeId
                 /\ t.node[y].jmp = x
                 /\ t.node[x].type \in Openers => t.node[y].type \in Closers
                 /\ t.node[x].type \in Closers => t.node[y].type \in Openers
      <3> DEFINE y == m.node[x].jmp
      <3>1. m.node[x].type \in Bracket /\ m.node[x] = t.node[x]
        BY <1>1, <2>1
      <3>2. /\ y \in NodeId /\ m.node[y].jmp = x
            /\ m.node[x].type \in Openers => m.node[y].type \in Closers
            /\ m.node[x].type \in Closers => m.node[y].type \in Openers
        BY <1>2, <3>1 DEF BracketsPaired
      <3>3. m.node[y].type \in Bracket
        BY <3>1, <3>2 DEF Bracket
      <3>4. m.node[y] = t.node[y]
        BY <1>1, <3>2, <3>3
      <3>5. QED BY <3>1, <3>2, <3>4
    <2>2. QED BY <2>1 DEF BracketsPaired
  <1>7. Complete(t)
    BY <1>1, <1>2, <1>3 DEF Complete
  <1>8. Nested(t)
    <2> DEFINE w == Walk(t)
               Q(i) == CHOOSE j \in DOMAIN w : w[j] = m.node[w[i]].jmp
               P(i) == CHOOSE j \in DOMAIN w : w[j] = t.node[w[i]].jmp
    <2>0. NestedAlong(m, w)
      BY <1>2, <1>3, NestedByWalk
    <2>1. \A i \in DOMAIN w : m.node[w[i]].type \in Openers =>
            /\ i < Q(i)
            /\ \A k \in i + 1 .. Q(i) - 1 : m.node[w[k]].type \in Openers => Q(k) < Q(i)
      BY <2>0 DEF NestedAlong
    <2>2. \A i \in DOMAIN w : t.node[w[i]].type \in Openers =>
            m.node[w[i]].type \in Openers /\ m.node[w[i]] = t.node[w[i]]
      BY <1>1, <1>4 DEF Bracket
    <2>3. \A i \in DOMAIN w : t.node[w[i]].type \in Openers => P(i) = Q(i)
      BY <2>2
    <2>4. \A i \in DOMAIN w : t.node[w[i]].type \in Openers => P(i) \in DOMAIN w
      <3>1. \A x \in NodeId : Live(m, x) => \E i \in DOMAIN w : w[i] = x
        BY <1>1, <1>2, <1>3, CompleteWalk
      <3>2. ASSUME NEW i \in DOMAIN w, t.node[w[i]].type \in Openers
            PROVE  P(i) \in DOMAIN w
        <4>1. m.node[w[i]].jmp \in NodeId /\ Live(m, m.node[w[i]].jmp)
          BY <1>1, <1>2, <1>4, <2>2, <3>2, PartnersLive
        <4>2. QED BY <2>2, <3>1, <3>2, <4>1
      <3>3. QED BY <3>2
    <2>5. DOMAIN w = 1 .. Len(w) /\ Len(w) \in Nat
      BY <1>1, <1>2, <1>3, CompleteWalk
    <2> HIDE DEF P, Q, w
    <2>6. ASSUME NEW i \in DOMAIN w, t.node[w[i]].type \in Openers
          PROVE  /\ i < P(i)
                 /\ \A k \in i + 1 .. P(i) - 1 : t.node[w[k]].type \in Openers => P(k) < P(i)
      <3>1. P(i) = Q(i) /\ P(i) \in DOMAIN w /\ m.node[w[i]].type \in Openers
        BY <2>2, <2>3, <2>4, <2>6
      <3>2. ASSUME NEW k \in i + 1 .. P(i) - 1, t.node[w[k]].type \in Openers
            PROVE  P(k) < P(i)
        <4>1. k \in DOMAIN w
          BY <2>5, <3>1
        <4>2. QED BY <2>1, <2>2, <2>3, <3>1, <3>2, <4>1
      <3>3. QED BY <2>1, <3>1, <3>2
    <2>7. NestedAlong(t, w)
      BY <2>6 DEF NestedAlong, P
    <2>8. QED BY <2>7, NestedByWalk DEF w
  <1>9. QED BY <1>5, <1>6, <1>7, <1>8

\* w meets the nodes of m in the order of their places.
InOrder(m, r, w) ==
  /\ Len(w) \in Nat /\ DOMAIN w = 1 .. Len(w)
  /\ \A i \in 1 .. Len(w) : w[i] \in NodeId /\ Live(m, w[i])
  /\ \A x \in NodeId : Live(m, x) => \E i \in 1 .. Len(w) : x = w[i]
  /\ \A i, j \in 1 .. Len(w) : w[i] = w[j] => i = j
  /\ \A i, j \in 1 .. Len(w) : r[w[i]] < r[w[j]] <=> i < j
  /\ \A i \in 1 .. Len(w) : w[i] = m.next[IF i = 1 THEN Null ELSE w[i - 1]]
  /\ \A i \in 1 .. Len(w) : m.next[w[i]] # Null => i + 1 \in 1 .. Len(w) /\ w[i + 1] = m.next[w[i]]
  /\ m.next[Null] # Null => 1 \in 1 .. Len(w) /\ w[1] = m.next[Null]
  /\ r \in [NodeId -> Int]

\* In a list whose nodes have places the walk goes by them.
LEMMA Ordered ==
  ASSUME NEW m, NEW r, Sound(m, r)
  PROVE  InOrder(m, r, Walk(m))
  <1> DEFINE w == Walk(m)
  <1>1. /\ Chain(m, w) /\ w \in Seq(NodeId) /\ Len(w) \in Nat /\ DOMAIN w = 1 .. Len(w)
        /\ m.next[Final(w)] = Null
        /\ \A i, j \in 1 .. Len(w) : w[i] = w[j] => i = j
        /\ \A x \in NodeId : Live(m, x) <=> \E i \in 1 .. Len(w) : x = w[i]
    BY RankedComplete, CompleteWalk DEF Sound
  <1>2. \A i, j \in 1 .. Len(w) : i < j => r[w[i]] < r[w[j]]
    BY <1>1, ChainRanked DEF Sound
  <1>3. r \in [NodeId -> Int]
    BY DEF Sound, Ranks
  <1> HIDE DEF w
  <1>4. \A i \in 1 .. Len(w) : w[i] \in NodeId /\ Live(m, w[i])
    BY <1>1
  <1>5. \A i, j \in 1 .. Len(w) : r[w[i]] < r[w[j]] <=> i < j
    <2> SUFFICES ASSUME NEW i \in 1 .. Len(w), NEW j \in 1 .. Len(w)
                 PROVE  r[w[i]] < r[w[j]] <=> i < j
      OBVIOUS
    <2>1. (i < j => r[w[i]] < r[w[j]]) /\ (j < i => r[w[j]] < r[w[i]])
      BY <1>2
    <2>2. r[w[i]] \in Int /\ r[w[j]] \in Int /\ i \in Int /\ j \in Int
      BY <1>3, <1>4
    <2>3. QED BY <2>1, <2>2
  <1>6. \A i \in 1 .. Len(w) : w[i] = m.next[IF i = 1 THEN Null ELSE w[i - 1]]
    BY <1>1 DEF Chain
  <1>7. ASSUME NEW i \in 1 .. Len(w), m.next[w[i]] # Null
        PROVE  i + 1 \in 1 .. Len(w) /\ w[i + 1] = m.next[w[i]]
    <2>1. i # Len(w)
      <3>1. Final(w) = w[Len(w)]
        BY DEF Final
      <3>2. QED BY <1>1, <1>7, <3>1
    <2>2. i + 1 \in 1 .. Len(w)
      BY <1>1, <2>1
    <2>3. QED BY <1>6, <2>2
  <1>8. m.next[Null] # Null => 1 \in 1 .. Len(w) /\ w[1] = m.next[Null]
    <2>1. ASSUME m.next[Null] # Null PROVE w # <<>>
      BY <1>1, <2>1 DEF Final
    <2>2. QED BY <1>1, <1>6, <2>1
  <1>9. QED BY <1>1, <1>3, <1>4, <1>5, <1>6, <1>7, <1>8 DEF w, InOrder

\* A set of numbers up to n that is not empty has a greatest one.
LEMMA Greatest ==
  ASSUME NEW n \in Nat, NEW S \in SUBSET (1 .. n), S # {}
  PROVE  Max(S) \in S /\ \A y \in S : y <= Max(S)
  <1> DEFINE T == {n - x : x \in S}
  <1>1. T \in SUBSET Nat /\ T # {}
    <2>1. \A x \in S : n - x \in Nat
      OBVIOUS
    <2>2. QED BY <2>1
  <1>2. PICK d \in T : \A y \in T : ~(y < d)
    BY <1>1, Least
  <1>3. PICK x \in S : d = n - x
    BY <1>2
  <1>4. \A y \in S : x >= y
    <2> SUFFICES ASSUME NEW y \in S PROVE x >= y
      OBVIOUS
    <2>1. n - y \in T
      OBVIOUS
    <2>2. ~(n - y < n - x)
      BY <1>2, <1>3, <2>1
    <2>3. QED BY <2>2
  <1>5. QED BY <1>4 DEF Max

\* A set of numbers that is not empty has a least one.
LEMMA Smallest ==
  ASSUME NEW S \in SUBSET Nat, S # {}
  PROVE  Min(S) \in S /\ \A y \in S : Min(S) <= y
  <1>1. PICK x \in S : \A y \in S : ~(y < x)
    BY Least
  <1>2. \A y \in S : x <= y
    BY <1>1
  <1>3. QED BY <1>2 DEF Min

\* The two brackets of a loop, told from either.
LEMMA Partners ==
  ASSUME NEW m, NEW r, Sound(m, r), NEW x \in NodeId, m.node[x].type \in Bracket
  PROVE  LET y == m.node[x].jmp IN
         /\ Live(m, x) /\ y \in NodeId /\ Live(m, y) /\ m.node[y].jmp = x
         /\ m.node[x].type \in Openers => m.node[y].type \in Closers /\ r[x] < r[y]
         /\ m.node[x].type \in Closers => m.node[y].type \in Openers /\ r[y] < r[x]
  <1> DEFINE y == m.node[x].jmp
  <1>1. /\ y \in NodeId /\ m.node[y].jmp = x
        /\ m.node[x].type \in Openers => m.node[y].type \in Closers
        /\ m.node[x].type \in Closers => m.node[y].type \in Openers
    BY DEF Sound, BracketsPaired
  <1>2. Live(m, x) /\ Live(m, y)
    BY <1>1 DEF Live, Bracket, Openers, Closers
  <1>3. \A z \in NodeId : m.node[z].type \in Openers => r[z] < r[m.node[z].jmp]
    BY DEF Sound, NestedBy
  <1> HIDE DEF y
  <1>4. QED BY <1>1, <1>2, <1>3 DEF y

\* How far LastOutside looks.
UpTo(s, n) == IF s = {} THEN n ELSE Min(s) - 1

\* Where the search ends lies between its start and the end of the list.
LEMMA UpToWithin ==
  ASSUME NEW n \in Nat, NEW i \in 1 .. n, NEW s \in SUBSET (i .. n)
  PROVE  /\ UpTo(s, n) \in Int /\ UpTo(s, n) <= n
         /\ i \notin s => i <= UpTo(s, n)
  <1>1. CASE s = {}
    BY <1>1 DEF UpTo
  <1>2. CASE s # {}
    <2>1. s \in SUBSET Nat
      OBVIOUS
    <2>2. Min(s) \in s
      BY <1>2, <2>1, Smallest
    <2>3. UpTo(s, n) = Min(s) - 1
      BY <1>2 DEF UpTo
    <2> HIDE DEF UpTo
    <2>4. Min(s) \in i .. n
      BY <2>2
    <2>5. QED BY <2>2, <2>3, <2>4
  <1>3. QED BY <1>1, <1>2

\* The parts of LastOutside, for the walk w.
IndexIn(w, x)       == CHOOSE i \in DOMAIN w : w[i] = x
TypeAt(t, w, i)     == t.node[w[i]].type
Stopped(t, w, f, s) == {i \in f .. Len(w) : TypeAt(t, w, i) \in s}
OpenedTo(t, w, f, i) == {k \in f .. i - 1 : TypeAt(t, w, k) \in Openers}
ClosedTo(t, w, f, i) == {k \in f .. i : TypeAt(t, w, k) \in Closers}
Candidates(t, w, f, lp, s) ==
  {i \in f .. UpTo(Stopped(t, w, f, s), Len(w)) :
     /\ TypeAt(t, w, i) \notin Openers
     /\ lp + Cardinality(OpenedTo(t, w, f, i)) = Cardinality(ClosedTo(t, w, f, i))}

\* LastOutside in named parts.
LEMMA LastOutsideParts ==
  ASSUME NEW t, NEW x, NEW lp, NEW stops
  PROVE  LET w == Walk(t)
             c == Candidates(t, w, IndexIn(w, x), lp, stops)
         IN  LastOutside(t, x, lp, stops) = IF x = Null \/ c = {} THEN Null ELSE w[Max(c)]
  BY DEF LastOutside, Candidates, IndexIn, TypeAt, Stopped, OpenedTo, ClosedTo, UpTo

\* If as many loops are opened behind f as are closed there, with the one that
\* f closes, each loop opened before i is closed at i or before.
LEMMA AllClosed ==
  ASSUME NEW m, NEW r, Sound(m, r), NEW w, w = Walk(m),
         NEW f \in 1 .. Len(w), NEW i \in 1 .. Len(w), f <= i,
         \A y \in NodeId : m.node[y].type \in Openers /\ r[y] < r[w[f]] => r[m.node[y].jmp] <= r[w[f]],
         TypeAt(m, w, i) \notin Openers,
         (IF TypeAt(m, w, f) \in Closers THEN 1 ELSE 0)
           + Cardinality(OpenedTo(m, w, f, i)) = Cardinality(ClosedTo(m, w, f, i))
  PROVE  OutsideLoops(m, r, w[i])
  <1> DEFINE n == Len(w)
             O == OpenedTo(m, w, f, i)
             C == {k \in f + 1 .. i : TypeAt(m, w, k) \in Closers}
             P(k) == m.node[w[k]].jmp
             g == [k \in C |-> CHOOSE j \in 1 .. n : w[j] = P(k)]
  <1>1. /\ n \in Nat /\ DOMAIN w = 1 .. n
        /\ \A k \in 1 .. n : w[k] \in NodeId /\ Live(m, w[k])
        /\ \A x \in NodeId : Live(m, x) => \E k \in 1 .. n : x = w[k]
        /\ \A k, j \in 1 .. n : w[k] = w[j] => k = j
        /\ \A k, j \in 1 .. n : r[w[k]] < r[w[j]] <=> k < j
        /\ r \in [NodeId -> Int]
    <2>1. InOrder(m, r, w)
      BY Ordered
    <2>2. QED BY <2>1 DEF InOrder
  <1> HIDE DEF n
  <1>2. f \in 1 .. n /\ i \in 1 .. n /\ f <= i
    BY DEF n
  <1>3. IsFiniteSet(1 .. n)
    BY <1>1, FS_Interval
  <1>4. /\ O \subseteq 1 .. n /\ C \subseteq 1 .. n
        /\ IsFiniteSet(O) /\ IsFiniteSet(C)
    <2>1. ASSUME NEW k, k \in f .. i PROVE k \in 1 .. n
      BY <1>1, <1>2, <2>1
    <2>2. O \subseteq f .. i /\ C \subseteq f .. i
      BY <1>1, <1>2 DEF OpenedTo
    <2>3. O \subseteq 1 .. n /\ C \subseteq 1 .. n
      BY <2>1, <2>2
    <2>4. QED BY <2>3, <1>3, FS_Subset
  <1>5. Cardinality(O) = Cardinality(C)
    <2>1. Cardinality(O) \in Nat /\ Cardinality(C) \in Nat
      BY <1>4, FS_CardinalityType
    <2>2. CASE TypeAt(m, w, f) \in Closers
      <3>1. ClosedTo(m, w, f, i) = C \cup {f}
        BY <1>1, <1>2, <2>2 DEF ClosedTo
      <3>2. f \notin C
        BY <1>2
      <3>3. Cardinality(C \cup {f}) = Cardinality(C) + 1
        BY <1>4, <3>2, FS_AddElement
      <3>4. 1 + Cardinality(O) = Cardinality(C \cup {f})
        BY <2>2, <3>1
      <3>5. QED BY <2>1, <3>3, <3>4
    <2>3. CASE TypeAt(m, w, f) \notin Closers
      <3>1. ClosedTo(m, w, f, i) = C
        BY <1>1, <1>2, <2>3 DEF ClosedTo
      <3>2. 0 + Cardinality(O) = Cardinality(C)
        BY <2>3, <3>1
      <3>3. QED BY <2>1, <3>2
    <2>4. QED BY <2>2, <2>3
  <1>6. ASSUME NEW k \in C
        PROVE  g[k] \in O /\ w[g[k]] = P(k) /\ m.node[P(k)].jmp = w[k] /\ k <= i
    <2>1. k \in 1 .. n /\ w[k] \in NodeId /\ m.node[w[k]].type \in Closers
      BY <1>1, <1>4 DEF TypeAt
    <2>2. /\ P(k) \in NodeId /\ Live(m, P(k)) /\ m.node[P(k)].jmp = w[k]
          /\ m.node[P(k)].type \in Openers /\ r[P(k)] < r[w[k]]
      BY <2>1, Partners DEF Bracket
    <2>3. g[k] \in 1 .. n /\ w[g[k]] = P(k)
      BY <1>1, <2>2
    <2>4. g[k] < k
      BY <1>1, <2>1, <2>2, <2>3
    <2>5. f <= g[k]
      <3> SUFFICES ASSUME g[k] < f PROVE FALSE
        BY <2>3, <1>2
      <3>1. r[P(k)] < r[w[f]]
        BY <1>1, <1>2, <2>3
      <3>2. r[w[k]] <= r[w[f]]
        BY <2>2, <3>1
      <3>3. f < k /\ f \in 1 .. n
        BY <1>2
      <3>4. r[w[f]] < r[w[k]]
        BY <1>1, <2>1, <3>3
      <3>5. r[w[f]] \in Int /\ r[w[k]] \in Int
        BY <1>1, <2>1, <3>3
      <3>6. QED BY <3>2, <3>4, <3>5
    <2>6. g[k] \in f .. i - 1
      BY <1>2, <2>3, <2>4, <2>5
    <2>7. g[k] \in O
      BY <2>2, <2>3, <2>6 DEF OpenedTo, TypeAt
    <2>8. k <= i
      BY <1>2
    <2>9. QED BY <2>2, <2>3, <2>7, <2>8
  <1>7. g \in Injection(C, O)
    <2>1. g \in [C -> O]
      BY <1>6
    <2> HIDE DEF g, P, C, O
    <2>2. ASSUME NEW a \in C, NEW b \in C, g[a] = g[b] PROVE a = b
      <3>1. w[a] = w[b]
        BY <1>6, <2>2
      <3>2. QED BY <1>1, <1>4, <3>1
    <2>3. QED BY <2>1, <2>2 DEF Injection, IsInjective
  <1>8. g \in Surjection(C, O)
    BY <1>4, <1>5, <1>7, FS_Injection
  <1> HIDE DEF g, P, C
  <1>9. ASSUME NEW y \in NodeId, m.node[y].type \in Openers, r[y] <= r[w[i]]
        PROVE  ~(r[w[i]] < r[m.node[y].jmp])
    <2> DEFINE z == m.node[y].jmp
    <2>1. Live(m, y) /\ z \in NodeId /\ Live(m, z) /\ m.node[y].type \in Bracket
      BY <1>9, Partners DEF Bracket
    <2>2. PICK k \in 1 .. n : y = w[k]
      BY <1>1, <2>1
    <2>3. r[z] \in Int /\ r[y] \in Int /\ r[w[i]] \in Int /\ r[w[f]] \in Int
      BY <1>1, <1>2, <2>1
    <2>4. k < i
      <3>1. k # i
        BY <1>9, <2>2 DEF TypeAt
      <3>2. ~(i < k)
        BY <1>1, <1>2, <1>9, <2>2, <2>3
      <3>3. QED BY <3>1, <3>2, <1>2
    <2> HIDE DEF z
    <2>5. CASE k < f
      <3>1. r[y] < r[w[f]]
        BY <1>1, <1>2, <2>2, <2>5
      <3>2. r[z] <= r[w[f]]
        BY <1>9, <3>1 DEF z
      <3>3. r[w[f]] <= r[w[i]]
        BY <1>1, <1>2, <2>3
      <3>4. QED BY <2>3, <3>2, <3>3 DEF z
    <2>6. CASE f <= k
      <3>1. k \in O
        BY <1>2, <1>9, <2>2, <2>4, <2>6 DEF OpenedTo, TypeAt
      <3>2. PICK c \in C : g[c] = k
        BY <1>8, <3>1 DEF Surjection
      <3>3. z = w[c] /\ c \in 1 .. n /\ c <= i
        
        <4>1. c \in 1 .. n /\ w[k] = P(c) /\ m.node[P(c)].jmp = w[c] /\ c <= i
          BY <1>4, <1>6, <3>2
        <4>2. QED BY <2>2, <4>1 DEF z
      <3>4. ~(r[w[i]] < r[w[c]])
        BY <1>1, <1>2, <3>3
      <3>5. QED BY <3>3, <3>4 DEF z
    <2>7. QED BY <2>2, <2>5, <2>6, <1>2
  <1>10. QED BY <1>9 DEF OutsideLoops

\* Where LastOutside finds a place no loop is open, if all those that are opened
\* before x are closed by then.
LEMMA PlaceOutside ==
  ASSUME NEW t, Pool(t), NEW beside, NEW r, NEW m, m = Skeleton(t, beside), Sound(m, r),
         NEW x \in NodeId, Live(m, x),
         \A y \in NodeId : m.node[y].type \in Openers /\ r[y] < r[x] => r[m.node[y].jmp] <= r[x],
         NEW lp, lp = IF m.node[x].type \in Closers THEN 1 ELSE 0,
         NEW stops, NEW p, p = LastOutside(t, x, lp, stops)
  PROVE  /\ p # Null => p \in NodeId /\ Live(m, p) /\ OutsideLoops(m, r, p)
         /\ lp = 1 /\ stops \cap Closers = {} => p # Null
  <1> DEFINE w == Walk(t)
             f == IndexIn(w, x)
             c == Candidates(t, w, f, lp, stops)
  <1>1. p = IF c = {} THEN Null ELSE w[Max(c)]
    BY LastOutsideParts
  <1>2. InOrder(m, r, w)
    <2>1. m.next = t.next
      BY SkeletonParts
    <2>2. w = Walk(m)
      BY <2>1, WalkByNext
    <2>3. QED BY <2>2, Ordered
  <1>3. \A y \in NodeId : Live(m, y) =>
          /\ t.node[y].type \in Openers <=> m.node[y].type \in Openers
          /\ t.node[y].type \in Closers <=> m.node[y].type \in Closers
    BY SkeletonParts DEF Bracket
  <1>4. w = Walk(m)
    <2>1. m.next = t.next
      BY SkeletonParts
    <2>2. QED BY <2>1, WalkByNext
  <1> HIDE DEF w
  <1>5. /\ Len(w) \in Nat /\ DOMAIN w = 1 .. Len(w)
        /\ \A i \in 1 .. Len(w) : w[i] \in NodeId /\ Live(m, w[i])
    BY <1>2 DEF InOrder
  <1>6. f \in 1 .. Len(w) /\ w[f] = x
    <2>1. \E i \in 1 .. Len(w) : w[i] = x
      BY <1>2 DEF InOrder
    <2>2. QED BY <1>5, <2>1 DEF IndexIn
  <1>7. \A i \in 1 .. Len(w) :
          /\ TypeAt(t, w, i) \in Openers <=> TypeAt(m, w, i) \in Openers
          /\ TypeAt(t, w, i) \in Closers <=> TypeAt(m, w, i) \in Closers
    BY <1>3, <1>5 DEF TypeAt
  <1> HIDE DEF f
  <1> DEFINE s  == Stopped(t, w, f, stops)
             to == UpTo(s, Len(w))
  <1>8. /\ to \in Int /\ to <= Len(w)
        /\ f \notin s => f <= to
    <2>1. s \in SUBSET (f .. Len(w))
      BY DEF Stopped
    <2> HIDE DEF s
    <2>2. QED BY <1>5, <1>6, <2>1, UpToWithin
  <1>9. \A i : i \in c <=> /\ i \in f .. to
                           /\ TypeAt(t, w, i) \notin Openers
                           /\ lp + Cardinality(OpenedTo(t, w, f, i)) = Cardinality(ClosedTo(t, w, f, i))
    BY DEF Candidates
  <1> HIDE DEF to
  <1>10. c \in SUBSET (1 .. Len(w))
    <2>1. f .. to \subseteq 1 .. Len(w)
      BY <1>5, <1>6, <1>8
    <2>2. QED BY <1>9, <2>1
  <1>11. ASSUME NEW i \in c
         PROVE  OutsideLoops(m, r, w[i])
    <2>1. i \in 1 .. Len(w) /\ f <= i /\ f \in Nat
      BY <1>6, <1>9, <1>10
    <2>2. OpenedTo(t, w, f, i) = OpenedTo(m, w, f, i) /\ ClosedTo(t, w, f, i) = ClosedTo(m, w, f, i)
      <3>1. ASSUME NEW k, k \in f .. i PROVE k \in 1 .. Len(w)
        BY <1>5, <1>6, <2>1, <3>1
      <3>2. \A k \in f .. i - 1 : k \in f .. i
        BY <1>6, <2>1
      <3>3. QED BY <1>7, <3>1, <3>2 DEF OpenedTo, ClosedTo
    <2>3. TypeAt(m, w, i) \notin Openers
      BY <1>7, <1>9, <2>1
    <2>4. lp = IF TypeAt(m, w, f) \in Closers THEN 1 ELSE 0
      BY <1>6 DEF TypeAt
    <2>5. (IF TypeAt(m, w, f) \in Closers THEN 1 ELSE 0)
            + Cardinality(OpenedTo(m, w, f, i)) = Cardinality(ClosedTo(m, w, f, i))
      BY <1>9, <2>2, <2>4
    <2> HIDE DEF c
    <2>6. QED BY <1>4, <1>6, <2>1, <2>3, <2>5, AllClosed
  <1>12. ASSUME lp = 1, stops \cap Closers = {} PROVE c # {}
    <2>1. TypeAt(m, w, f) \in Closers /\ TypeAt(t, w, f) \in Closers
      BY <1>6, <1>7, <1>12 DEF TypeAt
    <2>2. TypeAt(t, w, f) \notin Openers /\ TypeAt(t, w, f) \notin stops
      BY <1>12, <2>1 DEF Openers, Closers
    <2>3. f \in f .. to
      <3>1. f \notin s
        BY <2>2 DEF Stopped
      <3>2. QED BY <1>6, <1>8, <3>1
    <2>4. Cardinality(OpenedTo(t, w, f, f)) = 0
      <3>1. OpenedTo(t, w, f, f) = {}
        BY <1>6 DEF OpenedTo
      <3>2. QED BY <3>1, FS_EmptySet
    <2>5. Cardinality(ClosedTo(t, w, f, f)) = 1
      <3>1. ClosedTo(t, w, f, f) = {f}
        BY <1>6, <2>1 DEF ClosedTo
      <3>2. QED BY <3>1, FS_Singleton
    <2>6. f \in c
      BY <1>9, <1>12, <2>2, <2>3, <2>4, <2>5
    <2>7. QED BY <2>6
  <1> HIDE DEF c
  <1>13. c # {} => Max(c) \in c
    BY <1>5, <1>10, Greatest
  <1>14. c # {} => /\ p = w[Max(c)] /\ p \in NodeId /\ Live(m, p) /\ OutsideLoops(m, r, p)
                   /\ p # Null
    <2> SUFFICES ASSUME c # {}
                 PROVE  /\ p = w[Max(c)] /\ p \in NodeId /\ Live(m, p) /\ OutsideLoops(m, r, p)
                        /\ p # Null
      OBVIOUS
    <2>1. p = w[Max(c)]
      BY <1>1
    <2>2. Max(c) \in c /\ Max(c) \in 1 .. Len(w)
      BY <1>10, <1>13
    <2>3. OutsideLoops(m, r, w[Max(c)])
      BY <1>11, <2>2
    <2>4. w[Max(c)] \in NodeId /\ Live(m, w[Max(c)])
      BY <1>5, <2>2
    <2>5. QED BY <2>1, <2>3, <2>4
  <1>15. QED BY <1>1, <1>12, <1>14

\* Within a loop as many are closed as are opened, the loop itself among them.
LEMMA LoopBalanced ==
  ASSUME NEW m, NEW r, Sound(m, r), NEW w, w = Walk(m),
         NEW i \in 1 .. Len(w), NEW k \in 1 .. Len(w),
         TypeAt(m, w, i) \in Openers, w[k] = m.node[w[i]].jmp
  PROVE  /\ i < k /\ TypeAt(m, w, k) \in Closers
         /\ IsFiniteSet(OpenedTo(m, w, i, k)) /\ IsFiniteSet(ClosedTo(m, w, i, k))
         /\ Cardinality(OpenedTo(m, w, i, k)) = Cardinality(ClosedTo(m, w, i, k))
  <1> DEFINE n == Len(w)
             O == {a \in i .. k - 1 : TypeAt(m, w, a) \in Openers}
             C == {a \in i .. k : TypeAt(m, w, a) \in Closers}
             P(a) == m.node[w[a]].jmp
             g == [a \in O |-> CHOOSE b \in 1 .. n : w[b] = P(a)]
  <1>1. /\ n \in Nat /\ DOMAIN w = 1 .. n
        /\ \A a \in 1 .. n : w[a] \in NodeId /\ Live(m, w[a])
        /\ \A x \in NodeId : Live(m, x) => \E a \in 1 .. n : x = w[a]
        /\ \A a, b \in 1 .. n : w[a] = w[b] => a = b
        /\ \A a, b \in 1 .. n : r[w[a]] < r[w[b]] <=> a < b
        /\ r \in [NodeId -> Int]
    <2>1. InOrder(m, r, w)
      BY Ordered
    <2>2. QED BY <2>1 DEF InOrder
  <1>2. i \in 1 .. n /\ k \in 1 .. n
    OBVIOUS
  <1> HIDE DEF n
  <1>3. ASSUME NEW a \in 1 .. n, TypeAt(m, w, a) \in Bracket
        PROVE  \E b \in 1 .. n :
                 /\ w[b] = P(a) /\ m.node[w[b]].jmp = w[a]
                 /\ TypeAt(m, w, a) \in Openers => TypeAt(m, w, b) \in Closers /\ a < b
                 /\ TypeAt(m, w, a) \in Closers => TypeAt(m, w, b) \in Openers /\ b < a
    <2>1. w[a] \in NodeId /\ m.node[w[a]].type \in Bracket
      BY <1>1, <1>3 DEF TypeAt
    <2>2. /\ P(a) \in NodeId /\ Live(m, P(a)) /\ m.node[P(a)].jmp = w[a]
          /\ m.node[w[a]].type \in Openers => m.node[P(a)].type \in Closers /\ r[w[a]] < r[P(a)]
          /\ m.node[w[a]].type \in Closers => m.node[P(a)].type \in Openers /\ r[P(a)] < r[w[a]]
      BY <2>1, Partners
    <2>3. PICK b \in 1 .. n : P(a) = w[b]
      BY <1>1, <2>2
    <2>4. w[b] \in NodeId /\ w[a] \in NodeId
      BY <1>1
    <2> HIDE DEF P
    <2>5. /\ w[b] = P(a) /\ m.node[w[b]].jmp = w[a]
          /\ TypeAt(m, w, a) \in Openers => TypeAt(m, w, b) \in Closers /\ r[w[a]] < r[w[b]]
          /\ TypeAt(m, w, a) \in Closers => TypeAt(m, w, b) \in Openers /\ r[w[b]] < r[w[a]]
      BY <2>2, <2>3 DEF TypeAt
    <2>6. QED BY <1>1, <2>5
  <1>4. \A a, b, c, d \in 1 .. n :
          /\ TypeAt(m, w, a) \in Openers /\ TypeAt(m, w, b) \in Openers
          /\ w[c] = P(a) /\ w[d] = P(b) /\ a < b /\ b < c
          => d < c
    <2>1. \A x, y \in NodeId : m.node[x].type \in Openers /\ m.node[y].type \in Openers
                               /\ r[x] < r[y] /\ r[y] < r[m.node[x].jmp]
                               => r[m.node[y].jmp] < r[m.node[x].jmp]
      BY DEF Sound, NestedBy, Inside
    <2> SUFFICES ASSUME NEW a \in 1 .. n, NEW b \in 1 .. n, NEW c \in 1 .. n, NEW d \in 1 .. n,
                        TypeAt(m, w, a) \in Openers, TypeAt(m, w, b) \in Openers,
                        w[c] = P(a), w[d] = P(b), a < b, b < c
                 PROVE  d < c
      OBVIOUS
    <2>2. w[a] \in NodeId /\ w[b] \in NodeId /\ r[w[a]] < r[w[b]] /\ r[w[b]] < r[w[c]]
      BY <1>1
    <2>3. r[w[d]] < r[w[c]]
      BY <2>1, <2>2 DEF TypeAt
    <2>4. QED BY <1>1, <2>3
  <1> HIDE DEF P
  <1>5. i < k /\ TypeAt(m, w, k) \in Closers /\ w[k] = P(i) /\ P(k) = w[i]
    <2>1. TypeAt(m, w, i) \in Bracket
      BY DEF Bracket
    <2>2. w[k] = P(i)
      BY DEF P
    <2>3. PICK b \in 1 .. n : w[b] = P(i) /\ m.node[w[b]].jmp = w[i] /\ TypeAt(m, w, b) \in Closers /\ i < b
      BY <1>2, <1>3, <2>1
    <2>4. b = k
      BY <1>1, <1>2, <2>2, <2>3
    <2>5. QED BY <2>2, <2>3, <2>4 DEF P
  <1>6. /\ O \subseteq 1 .. n /\ C \subseteq 1 .. n
        /\ IsFiniteSet(O) /\ IsFiniteSet(C)
    <2>1. O \subseteq 1 .. n /\ C \subseteq 1 .. n
      BY <1>1, <1>2
    <2>2. IsFiniteSet(1 .. n)
      BY <1>1, FS_Interval
    <2> HIDE DEF O, C
    <2>3. QED BY <2>1, <2>2, FS_Subset
  <1>7. ASSUME NEW a \in O
        PROVE  g[a] \in C /\ w[g[a]] = P(a)
    <2>1. a \in 1 .. n /\ TypeAt(m, w, a) \in Openers /\ TypeAt(m, w, a) \in Bracket /\ i <= a /\ a < k
      BY <1>2, <1>6 DEF Bracket
    <2>2. PICK b \in 1 .. n : w[b] = P(a) /\ TypeAt(m, w, b) \in Closers /\ a < b
      BY <1>3, <2>1
    <2>3. g[a] = b
      BY <1>1, <2>2
    <2>4. b <= k
      <3>1. CASE a = i
        <4>1. b = k
          BY <1>1, <1>2, <1>5, <2>2, <3>1
        <4>2. QED BY <4>1, <1>2
      <3>2. CASE a # i
        <4>1. i < a
          BY <1>2, <2>1, <3>2
        <4>2. b < k
          BY <1>2, <1>4, <1>5, <2>1, <2>2, <4>1
        <4>3. QED BY <4>2
      <3>3. QED BY <3>1, <3>2
    <2>5. b \in i .. k
      BY <1>2, <2>1, <2>2, <2>4
    <2>6. QED BY <2>2, <2>3, <2>5
  <1>8. ASSUME NEW c \in C
        PROVE  \E a \in O : g[a] = c
    <2>1. c \in 1 .. n /\ TypeAt(m, w, c) \in Closers /\ TypeAt(m, w, c) \in Bracket /\ i <= c /\ c <= k
      BY <1>2, <1>6 DEF Bracket
    <2>2. PICK a \in 1 .. n : w[a] = P(c) /\ m.node[w[a]].jmp = w[c] /\ TypeAt(m, w, a) \in Openers /\ a < c
      BY <1>3, <2>1
    <2>3. w[c] = P(a)
      BY <2>2 DEF P
    <2>4. i <= a
      <3> SUFFICES ASSUME a < i PROVE FALSE
        BY <1>2
      <3>1. c # k
        <4>1. c = k => w[a] = w[i]
          BY <1>5, <2>2
        <4>2. QED BY <1>1, <1>2, <4>1
      <3>2. c # i
        BY <2>1 DEF TypeAt, Openers, Closers
      <3>3. i < c /\ c < k
        BY <1>2, <2>1, <3>1, <3>2
      <3>4. k < c
        BY <1>2, <1>4, <1>5, <2>1, <2>2, <2>3, <3>3
      <3>5. QED BY <1>2, <3>3, <3>4, <2>1
    <2>5. a \in O
      BY <1>2, <2>1, <2>2, <2>4
    <2>6. w[g[a]] = w[c] /\ g[a] \in C
      BY <1>7, <2>3, <2>5
    <2>7. g[a] = c
      BY <1>1, <1>6, <2>1, <2>6
    <2>8. QED BY <2>5, <2>7
  <1>9. g \in Bijection(O, C)
    <2>1. g \in [O -> C]
      BY <1>7
    <2>2. ASSUME NEW a \in O, NEW b \in O, g[a] = g[b] PROVE a = b
      <3>1. P(a) = P(b)
        BY <1>7, <2>2
      <3>2. a \in 1 .. n /\ b \in 1 .. n /\ TypeAt(m, w, a) \in Bracket /\ TypeAt(m, w, b) \in Bracket
        BY <1>6 DEF Bracket
      <3>3. w[a] = w[b]
        BY <1>3, <3>1, <3>2
      <3>4. QED BY <1>1, <3>2, <3>3
    <2> HIDE DEF g, O, C
    <2>3. g \in Injection(O, C)
      BY <2>1, <2>2 DEF Injection, IsInjective
    <2>4. g \in Surjection(O, C)
      BY <1>8, <2>1 DEF Surjection
    <2>5. QED BY <2>3, <2>4 DEF Bijection
  <1> HIDE DEF g, O, C
  <1>10. Cardinality(O) = Cardinality(C)
    BY <1>6, <1>9, FS_Bijection DEF ExistsBijection
  <1>11. O = OpenedTo(m, w, i, k) /\ C = ClosedTo(m, w, i, k)
    BY DEF O, C, OpenedTo, ClosedTo
  <1>12. QED BY <1>5, <1>6, <1>10, <1>11

\* Where nothing is open and nothing could be marked any more, there is something
\* that stops the run, or a loop that holds something that does.
LEMMA Blocked ==
  ASSUME NEW t, Pool(t), NEW beside, NEW r, NEW m, m = Skeleton(t, beside), Sound(m, r),
         NEW w, w = Walk(t), NEW f \in 1 .. Len(w), NEW i \in 1 .. Len(w), f <= i,
         NEW lp \in Nat, NEW stops, stops \subseteq Stoppers,
         \A a \in f .. i - 1 : TypeAt(t, w, a) \notin stops,
         TypeAt(t, w, i) \notin Closers,
         lp + Cardinality(OpenedTo(t, w, f, i)) = Cardinality({a \in f .. i - 1 : TypeAt(t, w, a) \in Closers}),
         \A a \in Candidates(t, w, f, lp, stops) : a < i
  PROVE  Held(t, m, r, w[i])
  <1> DEFINE n  == Len(w)
             s  == Stopped(t, w, f, stops)
             to == UpTo(s, n)
  <1>0. w = Walk(m)
    <2>1. m.next = t.next
      BY SkeletonParts
    <2>2. QED BY <2>1, WalkByNext
  <1>1. /\ n \in Nat /\ DOMAIN w = 1 .. n
        /\ \A a \in 1 .. n : w[a] \in NodeId /\ Live(m, w[a])
        /\ \A x \in NodeId : Live(m, x) => \E a \in 1 .. n : x = w[a]
        /\ \A a, b \in 1 .. n : r[w[a]] < r[w[b]] <=> a < b
    <2>1. InOrder(m, r, w)
      BY <1>0, Ordered
    <2>2. QED BY <2>1 DEF InOrder
  <1>2. f \in 1 .. n /\ i \in 1 .. n
    OBVIOUS
  <1> HIDE DEF n
  <1>3. \A y \in NodeId : Live(m, y) =>
          /\ t.node[y].type \in Bracket <=> m.node[y].type \in Bracket
          /\ m.node[y].type \in Bracket => m.node[y] = t.node[y]
    BY SkeletonParts
  <1>4. \A a \in 1 .. n :
          /\ TypeAt(t, w, a) \in Openers <=> TypeAt(m, w, a) \in Openers
          /\ TypeAt(t, w, a) \in Closers <=> TypeAt(m, w, a) \in Closers
    BY <1>1, <1>3 DEF TypeAt, Bracket
  <1>5. ASSUME NEW a \in f .. n, \A b \in f .. a : TypeAt(t, w, b) \notin stops
        PROVE  a \in f .. to
    <2>1. CASE s = {}
      BY <1>1, <1>2, <2>1 DEF UpTo
    <2>2. CASE s # {}
      <3>1. s \in SUBSET Nat /\ s \subseteq f .. n
        BY <1>1, <1>2 DEF Stopped, n
      <3> HIDE DEF s
      <3>2. Min(s) \in s
        BY <2>2, <3>1, Smallest
      <3>3. Min(s) \in f .. n /\ TypeAt(t, w, Min(s)) \in stops
        BY <3>1, <3>2 DEF Stopped, s
      <3>4. ~(Min(s) \in f .. a)
        BY <1>5, <3>3
      <3>5. a < Min(s) /\ to = Min(s) - 1
        BY <1>2, <2>2, <3>3, <3>4 DEF UpTo
      <3> HIDE DEF to
      <3>6. QED BY <1>2, <3>3, <3>5
    <2>3. QED BY <2>1, <2>2
  <1>6. ASSUME NEW a \in f .. n, \A b \in f .. a : TypeAt(t, w, b) \notin stops, i <= a,
               TypeAt(t, w, a) \notin Openers,
               lp + Cardinality(OpenedTo(t, w, f, a)) = Cardinality(ClosedTo(t, w, f, a))
        PROVE  FALSE
    <2>1. a \in f .. to
      BY <1>5, <1>6
    <2>2. a \in Candidates(t, w, f, lp, stops)
      BY <1>6, <2>1 DEF Candidates, n
    <2>3. a < i
      BY <2>2
    <2>4. QED BY <1>2, <1>6, <2>3
  <1> HIDE DEF s, to
  <1>7. CASE TypeAt(t, w, i) \in stops
    BY <1>7 DEF Held, TypeAt
  <1>8. CASE TypeAt(t, w, i) \notin stops /\ TypeAt(t, w, i) \notin Openers
    <2>1. \A b \in f .. i : TypeAt(t, w, b) \notin stops
      BY <1>2, <1>8
    <2>2. ClosedTo(t, w, f, i) = {a \in f .. i - 1 : TypeAt(t, w, a) \in Closers}
      BY <1>2 DEF ClosedTo
    <2>3. i \in f .. n /\ i <= i
      BY <1>1, <1>2
    <2>4. lp + Cardinality(OpenedTo(t, w, f, i)) = Cardinality(ClosedTo(t, w, f, i))
      BY <2>2
    <2>5. QED BY <1>6, <1>8, <2>1, <2>3, <2>4
  <1>9. CASE TypeAt(t, w, i) \in Openers
    <2>1. w[i] \in NodeId /\ m.node[w[i]].type \in Openers /\ m.node[w[i]].type \in Bracket
      BY <1>1, <1>2, <1>4, <1>9 DEF TypeAt, Bracket
    <2>2. m.node[w[i]].jmp \in NodeId /\ Live(m, m.node[w[i]].jmp) /\ m.node[w[i]] = t.node[w[i]]
      BY <1>1, <1>2, <1>3, <2>1, Partners
    <2>3. PICK k \in 1 .. n : m.node[w[i]].jmp = w[k]
      BY <1>1, <2>2
    <2> DEFINE O == OpenedTo(m, w, i, k)
               C == ClosedTo(m, w, i, k)
    <2>4. /\ i < k /\ TypeAt(m, w, k) \in Closers
          /\ IsFiniteSet(O) /\ IsFiniteSet(C) /\ Cardinality(O) = Cardinality(C)
      <3>1. k \in 1 .. Len(w) /\ TypeAt(m, w, i) \in Openers /\ w[k] = m.node[w[i]].jmp
        BY <1>2, <1>4, <1>9, <2>3 DEF n
      <3>2. QED BY <1>0, <3>1, LoopBalanced
    <2>5. \A a \in f .. k : a \in 1 .. n
      BY <1>1, <1>2
    <2>6. CASE \E b \in i .. k : TypeAt(t, w, b) \in stops
      <3>1. PICK b \in i .. k : TypeAt(t, w, b) \in stops
        BY <2>6
      <3>2. b \in 1 .. n /\ TypeAt(t, w, k) \in Closers
        BY <1>2, <1>4, <2>4, <2>5, <3>1
      <3>3. TypeAt(t, w, b) \notin Openers \cup Closers
        BY <3>1 DEF Stoppers, Openers, Closers
      <3>4. b # i /\ b # k
        BY <1>9, <3>2, <3>3
      <3>5. i < b /\ b < k
        BY <1>2, <3>1, <3>4
      <3>6. r[w[i]] < r[w[b]] /\ r[w[b]] < r[w[k]]
        BY <1>1, <1>2, <3>2, <3>5
      <3>7. /\ w[b] \in NodeId /\ Live(m, w[b]) /\ t.node[w[b]].type \in Stoppers
            /\ t.node[w[i]].type \in Openers /\ t.node[w[i]].jmp = w[k]
        BY <1>1, <1>9, <2>2, <2>3, <3>1, <3>2 DEF TypeAt
      <3>8. QED BY <3>6, <3>7 DEF Held
    <2>7. CASE \A b \in i .. k : TypeAt(t, w, b) \notin stops
      <3> DEFINE O0 == OpenedTo(t, w, f, i)
                 C0 == {a \in f .. i - 1 : TypeAt(t, w, a) \in Closers}
      <3>1. \A b \in f .. k : b \in f .. i - 1 \/ b \in i .. k
        BY <1>2, <2>4
      <3>2. \A b \in f .. k : TypeAt(t, w, b) \notin stops
        BY <2>7, <3>1
      <3>3. OpenedTo(t, w, f, k) = O0 \cup O /\ O0 \cap O = {}
        <4>1. \A b : b \in f .. k - 1 <=> b \in f .. i - 1 \/ b \in i .. k - 1
          BY <1>2, <2>4
        <4>2. \A b \in i .. k - 1 : b \notin f .. i - 1 /\ b \in 1 .. n
          BY <1>1, <1>2
        <4>3. \A b \in i .. k - 1 : TypeAt(t, w, b) \in Openers <=> TypeAt(m, w, b) \in Openers
          BY <1>4, <4>2
        <4>4. QED BY <4>1, <4>2, <4>3 DEF OpenedTo
      <3>4. ClosedTo(t, w, f, k) = C0 \cup C /\ C0 \cap C = {}
        <4>1. \A b : b \in f .. k <=> b \in f .. i - 1 \/ b \in i .. k
          BY <1>2, <2>4
        <4>2. \A b \in i .. k : b \notin f .. i - 1 /\ b \in 1 .. n
          BY <1>1, <1>2
        <4>3. \A b \in i .. k : TypeAt(t, w, b) \in Closers <=> TypeAt(m, w, b) \in Closers
          BY <1>4, <4>2
        <4>4. QED BY <4>1, <4>2, <4>3 DEF ClosedTo
      <3>5. IsFiniteSet(O0) /\ IsFiniteSet(C0)
        <4>1. IsFiniteSet(f .. i - 1)
          BY <1>2, FS_Interval
        <4>2. O0 \subseteq f .. i - 1 /\ C0 \subseteq f .. i - 1
          BY DEF OpenedTo
        <4> HIDE DEF O0, C0
        <4>3. QED BY <4>1, <4>2, FS_Subset
      <3>6. lp + Cardinality(O0) = Cardinality(C0)
        OBVIOUS
      <3> HIDE DEF O0, C0, O, C
      <3>7. Cardinality(O0 \cup O) = Cardinality(O0) + Cardinality(O)
        <4>1. Cardinality(O0 \cup O) = Cardinality(O0) + Cardinality(O) - Cardinality(O0 \cap O)
          BY <2>4, <3>5, FS_Union
        <4>2. Cardinality(O0 \cap O) = 0
          BY <3>3, FS_EmptySet
        <4>3. QED BY <2>4, <3>5, <4>1, <4>2, FS_CardinalityType
      <3>8. Cardinality(C0 \cup C) = Cardinality(C0) + Cardinality(C)
        <4>1. Cardinality(C0 \cup C) = Cardinality(C0) + Cardinality(C) - Cardinality(C0 \cap C)
          BY <2>4, <3>5, FS_Union
        <4>2. Cardinality(C0 \cap C) = 0
          BY <3>4, FS_EmptySet
        <4>3. QED BY <2>4, <3>5, <4>1, <4>2, FS_CardinalityType
      <3>9. lp + Cardinality(OpenedTo(t, w, f, k)) = Cardinality(ClosedTo(t, w, f, k))
        <4>1. /\ Cardinality(O0) \in Nat /\ Cardinality(C0) \in Nat
              /\ Cardinality(O) \in Nat /\ Cardinality(C) \in Nat
          BY <2>4, <3>5, FS_CardinalityType
        <4>2. QED BY <2>4, <3>3, <3>4, <3>6, <3>7, <3>8, <4>1
      <3>10. TypeAt(t, w, k) \notin Openers
        <4>1. TypeAt(t, w, k) \in Closers
          BY <1>4, <2>4
        <4>2. QED BY <4>1 DEF Openers, Closers
      <3>11. k \in f .. n /\ i <= k
        BY <1>1, <1>2, <2>4
      <3>12. QED BY <1>6, <3>2, <3>9, <3>10, <3>11
    <2>8. QED BY <2>6, <2>7
  <1>10. QED BY <1>7, <1>8, <1>9

\* What follows the place that LastOutside finds is held; so is the node that it
\* looks from, if it finds none.
LEMMA PlaceBlocked ==
  ASSUME NEW t, Pool(t), NEW beside, NEW r, NEW m, m = Skeleton(t, beside), Sound(m, r),
         NEW x \in NodeId, Live(m, x),
         \A y \in NodeId : m.node[y].type \in Openers /\ r[y] < r[x] => r[m.node[y].jmp] <= r[x],
         NEW lp, lp = IF m.node[x].type \in Closers THEN 1 ELSE 0,
         NEW stops, stops \subseteq Stoppers, NEW p, p = LastOutside(t, x, lp, stops)
  PROVE  /\ p # Null /\ t.next[p] # Null => Held(t, m, r, t.next[p])
         /\ p = Null /\ lp = 0 => Held(t, m, r, x)
  <1> DEFINE w == Walk(t)
             f == IndexIn(w, x)
             c == Candidates(t, w, f, lp, stops)
             s  == Stopped(t, w, f, stops)
             to == UpTo(s, Len(w))
  <1>1. p = IF c = {} THEN Null ELSE w[Max(c)]
    BY LastOutsideParts
  <1>2. p # Null => p \in NodeId /\ Live(m, p) /\ OutsideLoops(m, r, p)
    BY PlaceOutside
  <1>3. m.next = t.next
    BY SkeletonParts
  <1>4. w = Walk(m)
    BY <1>3, WalkByNext
  <1>5. InOrder(m, r, w)
    BY <1>4, Ordered
  <1> HIDE DEF w
  <1>6. /\ Len(w) \in Nat /\ DOMAIN w = 1 .. Len(w)
        /\ \A i \in 1 .. Len(w) : w[i] \in NodeId /\ Live(m, w[i])
        /\ \A y \in NodeId : Live(m, y) => \E i \in 1 .. Len(w) : y = w[i]
        /\ \A i, j \in 1 .. Len(w) : r[w[i]] < r[w[j]] <=> i < j
        /\ \A i \in 1 .. Len(w) : m.next[w[i]] # Null => i + 1 \in 1 .. Len(w) /\ w[i + 1] = m.next[w[i]]
        /\ r \in [NodeId -> Int]
    BY <1>5 DEF InOrder
  <1>7. \A y \in NodeId : Live(m, y) =>
          /\ t.node[y].type \in Openers <=> m.node[y].type \in Openers
          /\ t.node[y].type \in Closers <=> m.node[y].type \in Closers
    BY SkeletonParts DEF Bracket
  <1>8. f \in 1 .. Len(w) /\ w[f] = x
    <2>1. \E i \in 1 .. Len(w) : w[i] = x
      BY <1>6
    <2>2. QED BY <1>6, <2>1 DEF IndexIn
  <1> HIDE DEF f
  <1>9. lp \in Nat
    OBVIOUS
  <1>10. \A i : i \in c <=> /\ i \in f .. to
                            /\ TypeAt(t, w, i) \notin Openers
                            /\ lp + Cardinality(OpenedTo(t, w, f, i)) = Cardinality(ClosedTo(t, w, f, i))
    BY DEF Candidates
  <1>11. s \in SUBSET (f .. Len(w))
    BY DEF Stopped
  <1> HIDE DEF s
  <1>12. to \in Int /\ to <= Len(w)
    BY <1>6, <1>8, <1>11, UpToWithin
  <1>13. \A i \in f .. to : TypeAt(t, w, i) \notin stops
    <2>1. CASE s = {}
      <3>1. \A i \in f .. to : i \in f .. Len(w)
        BY <1>6, <1>8, <1>12
      <3>2. QED BY <2>1, <3>1 DEF Stopped, s
    <2>2. CASE s # {}
      <3>1. s \in SUBSET Nat
        BY <1>6, <1>8, <1>11
      <3>2. Min(s) \in s /\ \A y \in s : Min(s) <= y
        BY <2>2, <3>1, Smallest
      <3>3. to = Min(s) - 1
        BY <2>2 DEF UpTo
      <3> HIDE DEF to
      <3>4. ASSUME NEW i \in f .. to, TypeAt(t, w, i) \in stops PROVE FALSE
        <4>1. i \in f .. Len(w)
          BY <1>6, <1>8, <1>12
        <4>2. i \in s
          BY <3>4, <4>1 DEF Stopped, s
        <4>3. Min(s) \in Nat /\ Min(s) <= i
          BY <3>1, <3>2, <4>2
        <4>4. QED BY <1>12, <3>3, <4>3
      <3>5. QED BY <3>4
    <2>3. QED BY <2>1, <2>2
  <1> HIDE DEF to
  <1>14. c \in SUBSET (1 .. Len(w))
    <2>1. f .. to \subseteq 1 .. Len(w)
      BY <1>6, <1>8, <1>12
    <2>2. QED BY <1>10, <2>1
  <1> HIDE DEF c
  <1>15. ASSUME p # Null, t.next[p] # Null PROVE Held(t, m, r, t.next[p])
    <2> DEFINE k == Max(c)
    <2>1. c # {} /\ p = w[k]
      BY <1>1, <1>15
    <2>2. k \in c /\ \A i \in c : i <= k
      BY <1>6, <1>14, <2>1, Greatest
    <2> HIDE DEF k
    <2>3. k \in 1 .. Len(w) /\ k \in f .. to
      BY <1>10, <1>14, <2>2
    <2>4. k + 1 \in 1 .. Len(w) /\ w[k + 1] = t.next[p]
      BY <1>3, <1>6, <1>15, <2>1, <2>3
    <2>5. TypeAt(t, w, k + 1) \notin Closers
      <3> SUFFICES ASSUME TypeAt(t, w, k + 1) \in Closers PROVE FALSE
        OBVIOUS
      <3> DEFINE z == w[k + 1]
                 y == m.node[z].jmp
      <3>1. z \in NodeId /\ Live(m, z) /\ m.node[z].type \in Closers
        BY <1>6, <1>7, <2>4 DEF TypeAt
      <3>2. y \in NodeId /\ Live(m, y) /\ m.node[y].jmp = z /\ m.node[y].type \in Openers /\ r[y] < r[z]
        BY <3>1, Partners DEF Bracket
      <3>3. PICK a \in 1 .. Len(w) : y = w[a]
        BY <1>6, <3>2
      <3>4. a < k + 1
        BY <1>6, <2>4, <3>2, <3>3
      <3>5. ~(k < a) /\ k < k + 1
        BY <1>8, <2>3, <3>3, <3>4
      <3>6. ~(r[p] < r[y]) /\ r[p] < r[z]
        BY <1>6, <2>1, <2>3, <2>4, <3>3, <3>5
      <3> HIDE DEF y, z
      <3>7. r[p] \in Int /\ r[y] \in Int /\ r[z] \in Int
        BY <1>2, <1>6, <1>15, <3>1, <3>2
      <3>8. r[y] <= r[p]
        BY <3>6, <3>7
      <3>9. QED BY <1>2, <1>15, <3>2, <3>6, <3>8 DEF OutsideLoops
    <2>6. f <= k /\ k \in Nat /\ f \in Nat /\ (k + 1) - 1 = k
      BY <1>6, <1>8, <2>3
    <2>7. \A a \in f .. (k + 1) - 1 : TypeAt(t, w, a) \notin stops
      <3>1. \A a \in f .. k : a \in f .. to
        BY <1>12, <2>3, <2>6
      <3>2. QED BY <1>13, <2>6, <3>1
    <2>8. OpenedTo(t, w, f, k + 1) = OpenedTo(t, w, f, k)
      <3>1. TypeAt(t, w, k) \notin Openers
        BY <1>10, <2>2
      <3>2. \A a : a \in f .. k <=> a \in f .. k - 1 \/ a = k
        BY <2>6
      <3>3. QED BY <2>6, <3>1, <3>2 DEF OpenedTo
    <2>9. lp + Cardinality(OpenedTo(t, w, f, k + 1))
            = Cardinality({a \in f .. (k + 1) - 1 : TypeAt(t, w, a) \in Closers})
      <3>1. ClosedTo(t, w, f, k) = {a \in f .. (k + 1) - 1 : TypeAt(t, w, a) \in Closers}
        BY <2>6 DEF ClosedTo
      <3>2. QED BY <1>10, <2>2, <2>8, <3>1
    <2>10. \A a \in Candidates(t, w, f, lp, stops) : a < k + 1
      <3>1. \A a \in c : a \in Nat /\ a <= k
        BY <1>14, <2>2
      <3>2. QED BY <2>6, <3>1 DEF c
    <2>11. f <= k + 1 /\ w = Walk(t)
      BY <2>6 DEF w
    <2>12. Held(t, m, r, w[k + 1])
      BY <1>8, <1>9, <2>4, <2>5, <2>7, <2>9, <2>10, <2>11, Blocked
    <2>13. QED BY <2>4, <2>12
  <1>16. ASSUME p = Null, lp = 0 PROVE Held(t, m, r, x)
    <2>1. c = {}
      <3> SUFFICES ASSUME c # {} PROVE FALSE
        OBVIOUS
      <3>1. Max(c) \in c
        BY <1>6, <1>14, Greatest
      <3>2. w[Max(c)] \in NodeId
        BY <1>6, <1>14, <3>1
      <3>3. QED BY <1>1, <1>16, <3>2
    <2>2. TypeAt(t, w, f) \notin Closers
      BY <1>7, <1>8, <1>16 DEF TypeAt
    <2>3. \A a : a \notin f .. f - 1
      BY <1>8
    <2> DEFINE O == OpenedTo(t, w, f, f)
               C == {a \in f .. f - 1 : TypeAt(t, w, a) \in Closers}
    <2>4. O = {} /\ C = {}
      BY <2>3 DEF OpenedTo
    <2> HIDE DEF O, C
    <2>5. lp + Cardinality(O) = Cardinality(C)
      BY <1>16, <2>4, FS_EmptySet
    <2> USE DEF O, C
    <2>6. \A a \in Candidates(t, w, f, lp, stops) : a < f
      BY <2>1 DEF c
    <2>7. f <= f /\ w = Walk(t)
      BY <1>8 DEF w
    <2>8. Held(t, m, r, w[f])
      BY <1>8, <1>9, <2>2, <2>3, <2>5, <2>6, <2>7, Blocked
    <2>9. QED BY <1>8, <2>8
  <1>17. QED BY <1>15, <1>16

(***************************************************************************)
(* A mark is put behind p.                                                 *)
(***************************************************************************)
\* Places twice as far apart, with one between p and what follows it.
Spread(r, p, id) == [x \in NodeId |-> IF x = id THEN 2 * r[p] + 1 ELSE 2 * r[x]]

\* A node behind p finds its place between p and what followed it.
LEMMA Inserting ==
  ASSUME NEW m, NEW r, Sound(m, r), NEW p \in NodeId, Live(m, p),
         NEW id, id = m.num + 1, id \in NodeId, ~Live(m, id),
         NEW u, u = AddNodeAfter(m, p, Blank("NOP"))
  PROVE  Sound(u, Spread(r, p, id))
  <1> DEFINE q == m.next[p]
             s == Spread(r, p, id)
  <1>1. /\ m \in Tree
        /\ m.next \in [Link -> Link] /\ m.prev \in [NodeId -> Link] /\ m.node \in [NodeId -> Node]
        /\ p # id /\ p # Null /\ id # Null
    BY DEF Sound, Tree
  <1>2. /\ u.next = [m.next EXCEPT ![id] = q, ![p] = id]
        /\ u.prev = SetPrev([m.prev EXCEPT ![id] = p], q, id)
        /\ u.node = [m.node EXCEPT ![id] = Blank("NOP")]
        /\ u.num = id
    BY <1>1 DEF AddNodeAfter
  <1>3. /\ \A x \in Link : (x = Null \/ Live(m, x)) /\ m.next[x] # Null =>
             Live(m, m.next[x]) /\ m.prev[m.next[x]] = x
        /\ \A x \in NodeId : Live(m, x) =>
             (m.prev[x] # Null => Live(m, m.prev[x])) /\ m.next[m.prev[x]] = x
    BY DEF Sound, DoublyLinked
  <1>4. q \in Link /\ (q # Null => q \in NodeId /\ Live(m, q) /\ m.prev[q] = p /\ q # id)
    BY <1>1, <1>3 DEF Live
  <1>5. Blank("NOP") \in Node /\ Blank("NOP").type = "NOP"
    BY BlankType DEF Blank, Token
  <1>6. u \in Tree
    <2>1. u = [ next |-> [m.next EXCEPT ![id] = q, ![p] = id],
                prev |-> SetPrev([m.prev EXCEPT ![id] = p], q, id),
                node |-> [m.node EXCEPT ![id] = Blank("NOP")],
                num  |-> id ]
      BY <1>1, <1>2 DEF AddNodeAfter
    <2>2. [m.next EXCEPT ![id] = q, ![p] = id] \in [Link -> Link]
      BY <1>1, <1>4
    <2>3. SetPrev([m.prev EXCEPT ![id] = p], q, id) \in [NodeId -> Link]
      BY <1>1, <1>4 DEF SetPrev
    <2>4. [m.node EXCEPT ![id] = Blank("NOP")] \in [NodeId -> Node]
      BY <1>1, <1>5
    <2>5. id \in 0 .. MaxNode
      OBVIOUS
    <2>6. QED BY <2>1, <2>2, <2>3, <2>4, <2>5 DEF Tree
  <1>7. /\ u.next[id] = q /\ u.next[p] = id
        /\ \A x \in Link : x # id /\ x # p => u.next[x] = m.next[x]
        /\ u.prev[id] = p /\ (q # Null => u.prev[q] = id)
        /\ \A x \in NodeId : x # id /\ x # q => u.prev[x] = m.prev[x]
        /\ u.node[id] = Blank("NOP")
        /\ \A x \in NodeId : x # id => u.node[x] = m.node[x]
    BY <1>1, <1>2, <1>4 DEF SetPrev
  <1> HIDE DEF q
  <1>8. \A x : Live(u, x) <=> x = id \/ Live(m, x)
    BY <1>5, <1>7 DEF Live
  <1>9. DoublyLinked(u)
    <2>1. ASSUME NEW x \in Link, x = Null \/ Live(u, x), u.next[x] # Null
          PROVE  Live(u, u.next[x]) /\ u.prev[u.next[x]] = x
      <3>1. CASE x = id
        BY <1>4, <1>7, <1>8, <2>1, <3>1
      <3>2. CASE x = p
        BY <1>1, <1>7, <1>8, <3>2
      <3>3. CASE x # id /\ x # p
        <4>1. /\ u.next[x] = m.next[x] /\ Live(m, m.next[x]) /\ m.prev[m.next[x]] = x
          BY <1>3, <1>7, <1>8, <2>1, <3>3
        <4>2. m.next[x] # id /\ m.next[x] # q /\ m.next[x] \in NodeId
          BY <1>4, <4>1, <2>1, <3>3 DEF Live
        <4>3. QED BY <1>7, <1>8, <4>1, <4>2
      <3>4. QED BY <3>1, <3>2, <3>3
    <2>2. ASSUME NEW x \in NodeId, Live(u, x)
          PROVE  (u.prev[x] # Null => Live(u, u.prev[x])) /\ u.next[u.prev[x]] = x
      <3>1. CASE x = id
        BY <1>7, <1>8, <3>1
      <3>2. CASE x = q /\ x # id
        BY <1>1, <1>4, <1>7, <1>8, <3>2
      <3>3. CASE x # id /\ x # q
        <4>1. /\ u.prev[x] = m.prev[x] /\ Live(m, x) /\ m.next[m.prev[x]] = x
              /\ m.prev[x] # Null => Live(m, m.prev[x])
          BY <1>3, <1>7, <1>8, <2>2, <3>3
        <4>2. m.prev[x] # p
          BY <4>1, <3>3 DEF q
        <4>3. m.prev[x] # id /\ m.prev[x] \in Link
          BY <1>1, <4>1
        <4>4. QED BY <1>7, <1>8, <4>1, <4>2, <4>3
      <3>4. QED BY <3>1, <3>2, <3>3
    <2>3. QED BY <2>1, <2>2 DEF DoublyLinked
  <1>10. \A x \in NodeId : u.node[x].type \in Bracket =>
           x # id /\ u.node[x] = m.node[x] /\ m.node[x].jmp # id /\ m.node[x].jmp \in NodeId
           /\ Live(m, x) /\ u.node[m.node[x].jmp] = m.node[m.node[x].jmp]
    <2> SUFFICES ASSUME NEW x \in NodeId, u.node[x].type \in Bracket
                 PROVE  x # id /\ u.node[x] = m.node[x] /\ m.node[x].jmp # id /\ m.node[x].jmp \in NodeId
                        /\ Live(m, x) /\ u.node[m.node[x].jmp] = m.node[m.node[x].jmp]
      OBVIOUS
    <2>1. x # id
      BY <1>5, <1>7 DEF Bracket, Openers, Closers
    <2>2. u.node[x] = m.node[x] /\ m.node[x].type \in Bracket
      BY <1>7, <2>1
    <2>3. Live(m, x) /\ m.node[x].jmp \in NodeId /\ Live(m, m.node[x].jmp)
      BY <2>2, Partners
    <2>4. QED BY <1>7, <2>1, <2>2, <2>3
  <1>11. BracketsPaired(u)
    <2>1. \A x \in NodeId : m.node[x].type \in Bracket =>
            /\ m.node[m.node[x].jmp].jmp = x
            /\ m.node[x].type \in Openers => m.node[m.node[x].jmp].type \in Closers
            /\ m.node[x].type \in Closers => m.node[m.node[x].jmp].type \in Openers
      BY DEF Sound, BracketsPaired
    <2>2. QED BY <1>10, <2>1 DEF BracketsPaired
  <1>12. r \in [NodeId -> Int] /\ s \in [NodeId -> Int]
         /\ s[id] = 2 * r[p] + 1 /\ \A x \in NodeId : x # id => s[x] = 2 * r[x]
    BY DEF Sound, Ranks, Spread
  <1> HIDE DEF s
  <1>13. Ranks(u, s)
    <2>1. \A x \in NodeId : Live(m, x) /\ m.next[x] # Null => r[x] < r[m.next[x]]
      BY DEF Sound, Ranks
    <2>2. ASSUME NEW x \in NodeId, Live(u, x), u.next[x] # Null PROVE s[x] < s[u.next[x]]
      <3>1. CASE x = id
        <4>1. q # Null /\ u.next[x] = q
          BY <1>7, <2>2, <3>1
        <4>2. r[p] < r[q]
          BY <2>1, <4>1 DEF q
        <4>3. r[p] \in Int /\ r[q] \in Int /\ s[q] = 2 * r[q] /\ s[x] = 2 * r[p] + 1
          BY <1>4, <1>12, <4>1, <3>1
        <4>4. QED BY <4>1, <4>2, <4>3
      <3>2. CASE x = p
        <4>1. u.next[x] = id /\ s[id] = 2 * r[p] + 1 /\ s[x] = 2 * r[p] /\ r[p] \in Int
          BY <1>1, <1>7, <1>12, <3>2
        <4>2. QED BY <4>1
      <3>3. CASE x # id /\ x # p
        <4>1. Live(m, x) /\ u.next[x] = m.next[x] /\ r[x] < r[m.next[x]] /\ Live(m, m.next[x])
          BY <1>3, <1>7, <1>8, <2>1, <2>2, <3>3
        <4>2. m.next[x] \in NodeId /\ m.next[x] # id
          BY <4>1 DEF Live
        <4>3. s[x] = 2 * r[x] /\ s[m.next[x]] = 2 * r[m.next[x]] /\ r[x] \in Int /\ r[m.next[x]] \in Int
          BY <1>12, <3>3, <4>2
        <4>4. QED BY <4>1, <4>3
      <3>4. QED BY <3>1, <3>2, <3>3
    <2>3. QED BY <1>12, <2>2 DEF Ranks
  <1>14. NestedBy(u, s)
    <2>1. \A x \in NodeId : m.node[x].type \in Openers =>
            /\ r[x] < r[m.node[x].jmp]
            /\ \A y \in NodeId : m.node[y].type \in Openers /\ r[x] < r[y] /\ r[y] < r[m.node[x].jmp] =>
                 r[m.node[y].jmp] < r[m.node[x].jmp]
      BY DEF Sound, NestedBy, Inside
    <2>2. ASSUME NEW x \in NodeId, u.node[x].type \in Openers
          PROVE  /\ m.node[x].type \in Openers /\ u.node[x].jmp = m.node[x].jmp
                 /\ s[x] = 2 * r[x] /\ s[m.node[x].jmp] = 2 * r[m.node[x].jmp]
                 /\ r[x] \in Int /\ r[m.node[x].jmp] \in Int
      <3>1. u.node[x].type \in Bracket
        BY <2>2 DEF Bracket
      <3>2. x # id /\ u.node[x] = m.node[x] /\ m.node[x].jmp # id /\ m.node[x].jmp \in NodeId
        BY <1>10, <3>1
      <3>3. QED BY <1>12, <2>2, <3>2
    <2>3. ASSUME NEW x \in NodeId, u.node[x].type \in Openers
          PROVE  s[x] < s[u.node[x].jmp]
      BY <2>1, <2>2, <2>3
    <2>4. ASSUME NEW x \in NodeId, u.node[x].type \in Openers, NEW y \in NodeId, u.node[y].type \in Openers,
                 s[x] < s[y], s[y] < s[u.node[x].jmp]
          PROVE  s[u.node[y].jmp] < s[u.node[x].jmp]
      <3>1. r[x] < r[y] /\ r[y] < r[m.node[x].jmp]
        BY <2>2, <2>4
      <3>2. r[m.node[y].jmp] < r[m.node[x].jmp]
        BY <2>1, <2>2, <2>4, <3>1
      <3>3. QED BY <2>2, <2>4, <3>2
    <2>5. QED BY <2>3, <2>4 DEF NestedBy, Inside
  <1>15. QED BY <1>6, <1>9, <1>11, <1>13, <1>14 DEF Sound, s

\* A mark put behind a place where no loop is open stands outside of the loops,
\* and the list beside the program is not disturbed.
LEMMA Marking ==
  ASSUME NEW t, NEW beside, NEW r, Pool(t), Sound(Skeleton(t, beside), r), MarksOutside(t, beside, r),
         beside \subseteq NodeId, \A x \in beside : x <= t.num,
         NEW p \in NodeId, Live(Skeleton(t, beside), p), OutsideLoops(Skeleton(t, beside), r, p),
         t.num + 1 <= MaxNode,
         NEW u, u = Suspended(t, p)
  PROVE  /\ Pool(u) /\ u.num = t.num + 1
         /\ Sound(Skeleton(u, beside), Spread(r, p, u.num)) /\ MarksOutside(u, beside, Spread(r, p, u.num))
         /\ \A x \in NodeId : x # u.num => u.node[x] = t.node[x]
         /\ \A x \in beside : u.next[x] = t.next[x] /\ (x # t.next[p] => u.prev[x] = t.prev[x])
         /\ \A x \in NodeId : x > u.num => u.next[x] = Null
  <1> DEFINE m  == Skeleton(t, beside)
             v  == Skeleton(u, beside)
             id == t.num + 1
             q  == t.next[p]
             s  == Spread(r, p, id)
  <1>1. /\ t.next \in [Link -> Link] /\ t.prev \in [NodeId -> Link] /\ DOMAIN t.node = NodeId
        /\ t.num \in 0 .. MaxNode /\ id \in NodeId /\ p # Null
        /\ \A x \in NodeId : x > t.num => t.node[x].type = "FREE" /\ t.next[x] = Null
    BY DEF Pool
  <1>2. /\ m \in Tree /\ m.next = t.next /\ m.prev = t.prev /\ m.num = t.num
        /\ \A x : Live(m, x) <=> Live(t, x) /\ x \notin beside
    BY SkeletonParts
  <1>3. u = [ next |-> [t.next EXCEPT ![id] = q, ![p] = id],
              prev |-> SetPrev([t.prev EXCEPT ![id] = p], q, id),
              node |-> [t.node EXCEPT ![id] = Blank("SUSP")],
              num  |-> id ]
    BY <1>1 DEF Suspended, AddNodeAfter
  <1>4. ~Live(t, id) /\ ~Live(m, id) /\ id \notin beside /\ p # id
    BY <1>1, <1>2 DEF Live
  <1>5. q \in Link /\ (q # Null => q \in NodeId /\ Live(m, q))
    BY <1>2, <1>1 DEF Sound, DoublyLinked, Live
  <1>6. Blank("SUSP").type = "SUSP"
    BY DEF Blank
  <1>7. /\ u.next[id] = q /\ u.next[p] = id
        /\ \A x \in Link : x # id /\ x # p => u.next[x] = t.next[x]
        /\ \A x \in NodeId : x # id /\ x # q => u.prev[x] = t.prev[x]
        /\ u.node[id] = Blank("SUSP") /\ DOMAIN u.node = NodeId
        /\ \A x \in NodeId : x # id => u.node[x] = t.node[x]
        /\ u.num = id
    BY <1>1, <1>3, <1>5 DEF SetPrev
  <1>8. Pool(u)
    <2>1. u.next \in [Link -> Link]
      BY <1>1, <1>3, <1>5
    <2>2. u.prev \in [NodeId -> Link]
      BY <1>1, <1>3, <1>5 DEF SetPrev
    <2>3. ASSUME NEW x \in NodeId, u.node[x].type \in Bracket PROVE u.node[x] \in Node
      BY <1>6, <1>7, <2>3 DEF Pool, Bracket, Openers, Closers
    <2>4. ASSUME NEW x \in NodeId, x > u.num PROVE u.node[x].type = "FREE" /\ u.next[x] = Null
      <3>1. x # id /\ x > t.num
        BY <1>1, <1>7, <2>4
      <3>2. x # p
        BY <1>1, <1>2, <3>1 DEF Live
      <3>3. QED BY <1>1, <1>7, <3>1, <3>2
    <2>5. DOMAIN u = {"next", "prev", "node", "num"} /\ u.num \in 0 .. MaxNode
      BY <1>1, <1>3
    <2>6. QED BY <1>7, <2>1, <2>2, <2>3, <2>4, <2>5 DEF Pool
  <1>9. v = AddNodeAfter(m, p, Blank("NOP"))
    <2>1. ASSUME NEW x \in NodeId
          PROVE  SkeletonNode(u, beside, x) = [m.node EXCEPT ![id] = Blank("NOP")][x]
      <3>1. m.node[x] = SkeletonNode(t, beside, x) /\ DOMAIN m.node = NodeId
        BY DEF Skeleton
      <3>2. CASE x = id
        BY <1>4, <1>6, <1>7, <3>1, <3>2 DEF SkeletonNode, Bracket, Openers, Closers
      <3>3. CASE x # id
        BY <1>7, <3>1, <3>3 DEF SkeletonNode
      <3>4. QED BY <3>2, <3>3
    <2>2. v.node = [m.node EXCEPT ![id] = Blank("NOP")]
      <3>1. m.node = [x \in NodeId |-> m.node[x]] /\ v.node = [x \in NodeId |-> SkeletonNode(u, beside, x)]
        BY DEF Skeleton
      <3>2. [m.node EXCEPT ![id] = Blank("NOP")] = [x \in NodeId |-> [m.node EXCEPT ![id] = Blank("NOP")][x]]
        BY <3>1
      <3>3. QED BY <2>1, <3>1, <3>2
    <2>3. v = [ next |-> u.next, prev |-> u.prev, node |-> v.node, num |-> u.num ]
      BY DEF Skeleton
    <2>4. v = [ next |-> [m.next EXCEPT ![id] = q, ![p] = id],
                prev |-> SetPrev([m.prev EXCEPT ![id] = p], q, id),
                node |-> [m.node EXCEPT ![id] = Blank("NOP")],
                num  |-> id ]
      BY <1>2, <1>3, <2>2, <2>3
    <2> HIDE DEF v, m
    <2>5. QED BY <1>1, <1>2, <2>4 DEF AddNodeAfter
  <1>10. Sound(v, s)
    <2> HIDE DEF m, v, s
    <2>1. Sound(m, r) /\ Live(m, p)
      BY DEF m
    <2>2. QED BY <1>1, <1>2, <1>4, <1>9, <2>1, Inserting DEF s
  <1>11. r \in [NodeId -> Int] /\ s[id] = 2 * r[p] + 1 /\ \A x \in NodeId : x # id => s[x] = 2 * r[x]
    BY <1>1 DEF Sound, Ranks, Spread
  <1>12. \A x \in NodeId : x # id => v.node[x] = m.node[x]
    BY <1>7 DEF Skeleton, SkeletonNode
  <1>13. v.node[id].type \notin Bracket
    BY <1>1, <1>4, <1>6, <1>7 DEF Skeleton, SkeletonNode, Bracket, Openers, Closers, Blank
  <1>14. \A y \in NodeId : v.node[y].type \in Openers =>
           /\ y # id /\ m.node[y].type \in Openers /\ v.node[y] = m.node[y]
           /\ m.node[y].jmp \in NodeId /\ m.node[y].jmp # id
    <2> SUFFICES ASSUME NEW y \in NodeId, v.node[y].type \in Openers
                 PROVE  /\ y # id /\ m.node[y].type \in Openers /\ v.node[y] = m.node[y]
                        /\ m.node[y].jmp \in NodeId /\ m.node[y].jmp # id
      OBVIOUS
    <2>1. y # id /\ v.node[y] = m.node[y]
      BY <1>12, <1>13 DEF Bracket
    <2>2. m.node[y].jmp \in NodeId /\ Live(m, m.node[y].jmp)
      BY <1>2, <2>1, PartnersLive DEF Sound
    <2>3. QED BY <1>4, <2>1, <2>2
  <1> HIDE DEF m, v, s
  <1>15. MarksOutside(u, beside, s)
    <2> SUFFICES ASSUME NEW x \in NodeId, u.node[x].type = "SUSP"
                 PROVE  OutsideLoops(v, s, x)
      BY DEF MarksOutside, v
    <2>1. CASE x = id
      <3>1. \A y \in NodeId : m.node[y].type \in Openers => ~(r[y] <= r[p] /\ r[p] < r[m.node[y].jmp])
        BY DEF OutsideLoops, m
      <3>2. ASSUME NEW y \in NodeId, v.node[y].type \in Openers, s[y] <= s[x], s[x] < s[v.node[y].jmp]
            PROVE  FALSE
        <4>1. s[y] = 2 * r[y] /\ s[v.node[y].jmp] = 2 * r[m.node[y].jmp] /\ s[x] = 2 * r[p] + 1
          BY <1>11, <1>14, <2>1, <3>2
        <4>2. r[y] \in Int /\ r[p] \in Int /\ r[m.node[y].jmp] \in Int
          BY <1>11, <1>14, <3>2
        <4>3. r[y] <= r[p] /\ r[p] < r[m.node[y].jmp]
          BY <3>2, <4>1, <4>2
        <4>4. QED BY <1>14, <3>1, <3>2, <4>3
      <3>3. QED BY <1>4, <2>1, <3>2 DEF OutsideLoops
    <2>2. CASE x # id
      <3>1. OutsideLoops(m, r, x)
        BY <1>7, <2>2 DEF MarksOutside, m
      <3>2. ASSUME NEW y \in NodeId, v.node[y].type \in Openers, s[y] <= s[x], s[x] < s[v.node[y].jmp]
            PROVE  FALSE
        <4>1. s[y] = 2 * r[y] /\ s[v.node[y].jmp] = 2 * r[m.node[y].jmp] /\ s[x] = 2 * r[x]
          BY <1>11, <1>14, <2>2, <3>2
        <4>2. r[y] \in Int /\ r[x] \in Int /\ r[m.node[y].jmp] \in Int
          BY <1>11, <1>14, <3>2
        <4>3. r[y] <= r[x] /\ r[x] < r[m.node[y].jmp]
          BY <3>2, <4>1, <4>2
        <4>4. QED BY <1>14, <3>1, <3>2, <4>3 DEF OutsideLoops
      <3>3. QED BY <3>1, <3>2 DEF OutsideLoops
    <2>3. QED BY <2>1, <2>2
  <1>16. \A x \in beside : x \in NodeId /\ x # id /\ x # p
    BY <1>2, <1>4 DEF m
  <1>17. QED
    BY <1>7, <1>8, <1>10, <1>15, <1>16 DEF v, s, Pool

\* What is left from x on.
FromOn(m, r, x) == {y \in NodeId : Live(m, y) /\ x # Null /\ r[x] <= r[y]}

\* What is held is held as well where the nodes from there on are the same ones, in
\* the same order.
LEMMA HeldKept ==
  ASSUME NEW t, NEW beside, NEW r, NEW m, m = Skeleton(t, beside), Pool(t), Sound(m, r),
         NEW x \in NodeId, Live(m, x), Held(t, m, r, x),
         NEW u, NEW v, NEW s,
         \A y \in FromOn(m, r, x) : Live(v, y) /\ u.node[y] = t.node[y],
         \A y, z \in FromOn(m, r, x) : r[y] < r[z] => s[y] < s[z]
  PROVE  Held(u, v, s, x)
  <1>1. x # Null /\ r[x] <= r[x] /\ r \in [NodeId -> Int]
    BY DEF Sound, Ranks
  <1>2. x \in FromOn(m, r, x) /\ u.node[x] = t.node[x]
    BY <1>1 DEF FromOn
  <1>3. CASE t.node[x].type \in Stoppers
    BY <1>2, <1>3 DEF Held
  <1>4. CASE t.node[x].type \notin Stoppers
    <2>1. t.node[x].type \in Openers
      BY <1>4 DEF Held
    <2>2. PICK y \in NodeId : Live(m, y) /\ t.node[y].type \in Stoppers /\ r[x] < r[y] /\ r[y] < r[t.node[x].jmp]
      BY <1>4 DEF Held
    <2> DEFINE z == t.node[x].jmp
    <2>3. z \in NodeId /\ Live(m, z)
      <3>1. x \notin beside
        BY SkeletonParts
      <3>2. m.node[x].type \in Bracket /\ m.node[x] = t.node[x]
        BY <2>1, <3>1, SkeletonParts DEF Bracket
      <3>3. QED BY <3>2, Partners
    <2> HIDE DEF z
    <2>4. r[x] < r[y] /\ r[y] < r[z] /\ r[x] \in Int /\ r[y] \in Int /\ r[z] \in Int
      BY <1>1, <2>2, <2>3 DEF z
    <2>5. y \in FromOn(m, r, x) /\ z \in FromOn(m, r, x)
      BY <1>1, <2>2, <2>3, <2>4 DEF FromOn
    <2>6. s[x] < s[y] /\ s[y] < s[z] /\ Live(v, y) /\ u.node[y] = t.node[y]
      BY <1>2, <2>4, <2>5
    <2>7. QED BY <1>2, <2>1, <2>2, <2>6 DEF Held, z
  <1>5. QED BY <1>3, <1>4

\* When no mark is ahead and what follows p is held, a mark behind p is the one
\* that is ahead.
LEMMA MarkedAhead ==
  ASSUME NEW t, NEW beside, NEW r, Pool(t), NEW m, m = Skeleton(t, beside), Sound(m, r),
         NEW p \in NodeId, Live(m, p), t.num + 1 <= MaxNode,
         NEW n \in NodeId, Live(m, n), \A z \in NodeId : t.node[z].type = "SUSP" => ~(r[n] <= r[z]),
         t.next[p] # Null => Held(t, m, r, t.next[p]),
         NEW u, u = Suspended(t, p), NEW v, v = Skeleton(u, beside)
  PROVE  Ahead(u, v, Spread(r, p, u.num), n)
  <1> DEFINE id == t.num + 1
             s  == Spread(r, p, id)
             q  == t.next[p]
  <1>1. /\ t.next \in [Link -> Link] /\ DOMAIN t.node = NodeId
        /\ id \in NodeId /\ p # Null /\ r \in [NodeId -> Int]
        /\ t.node[id].type = "FREE"
    BY DEF Pool, Sound, Ranks
  <1>2. u.next = [t.next EXCEPT ![id] = q, ![p] = id] /\ u.num = id
        /\ u.node = [t.node EXCEPT ![id] = Blank("SUSP")]
    BY <1>1 DEF Suspended, AddNodeAfter
  <1>3. \A y : Live(m, y) <=> Live(t, y) /\ y \notin beside
    BY SkeletonParts
  <1>4. p # id /\ n # id /\ ~Live(m, id)
    BY <1>1, <1>3 DEF Live
  <1>5. /\ u.next[id] = q /\ \A y \in NodeId : y # id => u.node[y] = t.node[y]
    BY <1>1, <1>2, <1>4
  <1>6. /\ s[id] = 2 * r[p] + 1 /\ \A y \in NodeId : y # id => s[y] = 2 * r[y]
    BY <1>1 DEF Spread
  <1> HIDE DEF s
  <1>7. \A y \in NodeId : Live(m, y) => Live(v, y) /\ u.node[y] = t.node[y] /\ y # id
    <2> SUFFICES ASSUME NEW y \in NodeId, Live(m, y)
                 PROVE  Live(v, y) /\ u.node[y] = t.node[y] /\ y # id
      OBVIOUS
    <2>1. y # id /\ u.node[y] = t.node[y]
      BY <1>4, <1>5
    <2>2. v.node[y] = m.node[y]
      BY <2>1 DEF Skeleton, SkeletonNode
    <2>3. QED BY <2>1, <2>2 DEF Live
  <1>8. \A y, z \in NodeId : Live(m, y) /\ Live(m, z) /\ r[y] < r[z] => s[y] < s[z]
    <2> SUFFICES ASSUME NEW y \in NodeId, NEW z \in NodeId, Live(m, y), Live(m, z), r[y] < r[z]
                 PROVE  s[y] < s[z]
      OBVIOUS
    <2>1. s[y] = 2 * r[y] /\ s[z] = 2 * r[z]
      BY <1>6, <1>7
    <2>2. r[y] \in Int /\ r[z] \in Int
      BY <1>1
    <2>3. QED BY <2>1, <2>2
  <1>9. ASSUME NEW z \in NodeId, u.node[z].type = "SUSP", s[n] <= s[z]
        PROVE  z = id
    <2> SUFFICES ASSUME z # id PROVE FALSE
      OBVIOUS
    <2>1. t.node[z].type = "SUSP"
      BY <1>5, <1>9
    <2>2. s[n] = 2 * r[n] /\ s[z] = 2 * r[z] /\ r[n] \in Int /\ r[z] \in Int
      BY <1>1, <1>4, <1>6
    <2>3. r[n] <= r[z]
      BY <1>9, <2>2
    <2>4. QED BY <2>1, <2>3
  <1>10. ASSUME q # Null PROVE Held(u, v, s, q)
    <2>1. m.next = t.next
      BY SkeletonParts
    <2>2. q \in NodeId /\ Live(m, q)
      BY <1>1, <1>10, <2>1 DEF Sound, DoublyLinked, Live
    <2>3. Held(t, m, r, q)
      BY <1>10
    <2> HIDE DEF q
    <2>4. /\ \A y \in FromOn(m, r, q) : Live(v, y) /\ u.node[y] = t.node[y]
          /\ \A y, z \in FromOn(m, r, q) : r[y] < r[z] => s[y] < s[z]
      BY <1>7, <1>8 DEF FromOn
    <2>5. QED BY <2>2, <2>3, <2>4, HeldKept
  <1>11. Live(v, n)
    BY <1>7
  <1>12. s = Spread(r, p, u.num)
    BY <1>2 DEF s
  <1> HIDE DEF q
  <1>13. QED BY <1>5, <1>9, <1>10, <1>11, <1>12 DEF Ahead

\* What changes beside the list leaves the mark ahead.
LEMMA AheadKept ==
  ASSUME NEW t, NEW beside, NEW r, NEW m, m = Skeleton(t, beside), Pool(t), Sound(m, r),
         NEW u, NEW v,
         \A y \in NodeId : Live(m, y) => Live(v, y) /\ u.node[y] = t.node[y] /\ u.next[y] = t.next[y],
         \A z \in NodeId : u.node[z].type = "SUSP" => t.node[z].type = "SUSP" /\ Live(m, z),
         NEW n, Ahead(t, m, r, n)
  PROVE  Ahead(u, v, r, n)
  <1>1. SUFFICES ASSUME n # Null PROVE Ahead(u, v, r, n)
    BY DEF Ahead
  <1>2. /\ Live(m, n) /\ n \in NodeId
        /\ \A z \in NodeId : t.node[z].type = "SUSP" /\ r[n] <= r[z] =>
             /\ t.next[z] # Null => Held(t, m, r, t.next[z])
             /\ \A z2 \in NodeId : t.node[z2].type = "SUSP" /\ r[n] <= r[z2] => z2 = z
    BY <1>1 DEF Ahead, Live
  <1>3. \A y \in NodeId : Live(m, y) => Live(v, y) /\ u.node[y] = t.node[y]
    OBVIOUS
  <1>4. ASSUME NEW z \in NodeId, u.node[z].type = "SUSP", r[n] <= r[z], u.next[z] # Null
        PROVE  Held(u, v, r, u.next[z])
    <2> DEFINE q == t.next[z]
    <2>1. t.node[z].type = "SUSP" /\ Live(m, z) /\ u.next[z] = q /\ q # Null
      BY <1>4
    <2>2. Held(t, m, r, q)
      BY <1>2, <1>4, <2>1
    <2>3. q \in NodeId /\ Live(m, q)
      <3>1. m.next = t.next
        BY SkeletonParts
      <3>2. QED BY <2>1, <3>1 DEF Sound, DoublyLinked, Live
    <2> HIDE DEF q
    <2>4. /\ \A y \in FromOn(m, r, q) : Live(v, y) /\ u.node[y] = t.node[y]
          /\ \A y, y2 \in FromOn(m, r, q) : r[y] < r[y2] => r[y] < r[y2]
      BY <1>3 DEF FromOn
    <2>5. Held(u, v, r, q)
      BY <2>2, <2>3, <2>4, HeldKept
    <2>6. QED BY <2>1, <2>5
  <1>5. QED BY <1>2, <1>3, <1>4 DEF Ahead

\* A list that r gives its order holds in its walk what it holds in its places.
LEMMA HeldInWalk ==
  ASSUME NEW t, NEW m, NEW r, Sound(m, r), m.next = t.next,
         NEW x \in NodeId, Live(m, x), Held(t, m, r, x),
         t.node[x].type \in Openers => t.node[x].jmp \in NodeId /\ Live(m, t.node[x].jmp)
  PROVE  \/ t.node[x].type \in Stoppers
         \/ LET w == Walk(t) IN
            /\ t.node[x].type \in Openers
            /\ \E i, j, k \in DOMAIN w :
                 i < j /\ j < k /\ w[i] = x /\ t.node[w[j]].type \in Stoppers /\ w[k] = t.node[x].jmp
  <1> DEFINE w == Walk(t)
             e == t.node[x].jmp
  <1>1. SUFFICES ASSUME t.node[x].type \notin Stoppers
                 PROVE  /\ t.node[x].type \in Openers
                        /\ \E i, j, k \in DOMAIN w :
                             i < j /\ j < k /\ w[i] = x /\ t.node[w[j]].type \in Stoppers /\ w[k] = e
    OBVIOUS
  <1>2. t.node[x].type \in Openers /\ e \in NodeId /\ Live(m, e)
    BY <1>1 DEF Held
  <1>3. PICK y \in NodeId : Live(m, y) /\ t.node[y].type \in Stoppers /\ r[x] < r[y] /\ r[y] < r[e]
    BY <1>1 DEF Held
  <1>4. w = Walk(m)
    BY WalkByNext
  <1> HIDE DEF w, e
  <1>5. /\ DOMAIN w = 1 .. Len(w)
        /\ \A z \in NodeId : Live(m, z) => \E i \in 1 .. Len(w) : z = w[i]
        /\ \A i, j \in 1 .. Len(w) : r[w[i]] < r[w[j]] <=> i < j
    <2>1. InOrder(m, r, w)
      BY <1>4, Ordered
    <2>2. QED BY <2>1 DEF InOrder
  <1>6. PICK i \in 1 .. Len(w) : x = w[i]
    BY <1>5
  <1>7. PICK j \in 1 .. Len(w) : y = w[j]
    BY <1>3, <1>5
  <1>8. PICK k \in 1 .. Len(w) : e = w[k]
    BY <1>2, <1>5
  <1>9. i < j /\ j < k
    BY <1>3, <1>5, <1>6, <1>7, <1>8
  <1>10. QED BY <1>2, <1>3, <1>5, <1>6, <1>7, <1>8, <1>9

\* What happens beside a list does not disturb it.
LEMMA SoundElsewhere ==
  ASSUME NEW m, NEW r, Sound(m, r), NEW v \in Tree, v.node = m.node,
         \A x \in Link : x = Null \/ Live(m, x) => v.next[x] = m.next[x],
         \A x \in NodeId : Live(m, x) => v.prev[x] = m.prev[x]
  PROVE  Sound(v, r)
  <1>1. m \in Tree /\ DoublyLinked(m) /\ BracketsPaired(m) /\ Ranks(m, r) /\ NestedBy(m, r)
    BY DEF Sound
  <1>2. \A x : Live(v, x) <=> Live(m, x)
    BY DEF Live
  <1>3. DoublyLinked(v)
    <2>1. /\ \A x \in Link : (x = Null \/ Live(m, x)) /\ m.next[x] # Null =>
               Live(m, m.next[x]) /\ m.prev[m.next[x]] = x
          /\ \A x \in NodeId : Live(m, x) =>
               (m.prev[x] # Null => Live(m, m.prev[x])) /\ m.next[m.prev[x]] = x
      BY <1>1 DEF DoublyLinked
    <2>2. ASSUME NEW x \in Link, x = Null \/ Live(v, x), v.next[x] # Null
          PROVE  Live(v, v.next[x]) /\ v.prev[v.next[x]] = x
      <3>1. v.next[x] = m.next[x] /\ Live(m, m.next[x]) /\ m.prev[m.next[x]] = x
        BY <1>2, <2>1, <2>2
      <3>2. m.next[x] \in NodeId
        BY <3>1 DEF Live
      <3>3. QED BY <1>2, <3>1, <3>2
    <2>3. ASSUME NEW x \in NodeId, Live(v, x)
          PROVE  (v.prev[x] # Null => Live(v, v.prev[x])) /\ v.next[v.prev[x]] = x
      <3>1. /\ v.prev[x] = m.prev[x] /\ m.prev[x] \in Link
            /\ m.prev[x] # Null => Live(m, m.prev[x])
            /\ m.next[m.prev[x]] = x
        BY <1>1, <1>2, <2>1, <2>3 DEF Tree
      <3>2. QED BY <1>2, <3>1
    <2>4. QED BY <2>2, <2>3 DEF DoublyLinked
  <1>4. BracketsPaired(v)
    BY <1>1 DEF BracketsPaired
  <1>5. Ranks(v, r)
    BY <1>1, <1>2 DEF Ranks
  <1>6. NestedBy(v, r)
    BY <1>1 DEF NestedBy, Inside
  <1>7. QED BY <1>3, <1>4, <1>5, <1>6 DEF Sound

\* Neither a bracket nor free nor a mark.
Ordinary(x) == x.type \notin Bracket \cup {"FREE", "SUSP"}

\* The nodes that Chained takes.
Taken(t, s) == {x \in NodeId : t.num < x /\ x <= t.num + Len(s)}

\* What is not in b has been left alone.
Untouched(t, u, b) ==
  /\ \A x \in NodeId : x \notin b => u.node[x] = t.node[x] /\ u.prev[x] = t.prev[x]
  /\ \A x \in Link : x \notin b => u.next[x] = t.next[x]

\* The list beside the program grows at its end, and nothing else changes.
LEMMA Lengthened ==
  ASSUME NEW t, Pool(t), NEW beside, NEW start, NEW end, Grown(t, beside, start, end),
         NEW S, \A y \in S : Ordinary(y), NEW s \in Seq(S), t.num + Len(s) <= MaxNode,
         NEW u, u = Chained(t, end, s)
  PROVE  /\ Pool(u)
         /\ Grown(u, beside \cup Taken(t, s), start, LastOf(t, end, s))
         /\ Untouched(t, u, beside \cup Taken(t, s))
  <1> DEFINE new  == Taken(t, s)
             b    == beside \cup new
             last == t.num + Len(s)
  <1>1. /\ t.next \in [Link -> Link] /\ t.prev \in [NodeId -> Link] /\ DOMAIN t.node = NodeId
        /\ t.num \in Nat /\ t.num <= MaxNode
        /\ \A x \in NodeId : x > t.num => t.node[x].type = "FREE" /\ t.next[x] = Null
        /\ \A x \in NodeId : t.node[x].type \in Bracket => t.node[x] \in Node
        /\ DOMAIN t = {"next", "prev", "node", "num"}
    BY DEF Pool
  <1>2. /\ beside \subseteq NodeId /\ start \in beside /\ end \in beside /\ t.next[end] = Null
        /\ \A x \in beside :
             /\ Ordinary(t.node[x])
             /\ start <= x /\ x <= end /\ x <= t.num
             /\ x # end   => t.next[x] \in beside /\ x < t.next[x] /\ t.prev[t.next[x]] = x
             /\ x # start => t.prev[x] \in beside /\ t.next[t.prev[x]] = x
    BY DEF Grown, Ordinary
  <1>3. Len(s) \in Nat /\ last \in Nat
    BY <1>1
  <1>4. CASE s = <<>>
    <2>1. u = t /\ LastOf(t, end, s) = end /\ Len(s) = 0
      BY <1>4 DEF Chained, LastOf
    <2>2. new = {}
      BY <1>1, <2>1 DEF Taken
    <2>3. QED BY <2>1, <2>2 DEF Untouched
  <1>5. CASE s # <<>>
    <2>1. LastOf(t, end, s) = last /\ last \in NodeId /\ t.num + 1 \in NodeId /\ t.num + 1 <= last
      <3>1. Len(s) >= 1
        BY <1>5
      <3>2. QED BY <1>1, <1>3, <1>5, <3>1 DEF LastOf
    <2>2. u = [ next |-> [y \in Link   |-> IF y = end THEN t.num + 1
                                           ELSE IF y \in (t.num + 1 .. last) \ {last} THEN y + 1 ELSE t.next[y]],
                prev |-> [y \in NodeId |-> IF y \in t.num + 1 .. last
                                           THEN (IF y = t.num + 1 THEN end ELSE y - 1)
                                           ELSE t.prev[y]],
                node |-> [y \in NodeId |-> IF y \in t.num + 1 .. last THEN s[y - t.num] ELSE t.node[y]],
                num  |-> last ]
      BY <1>5 DEF Chained
    <2>3. \A y : y \in t.num + 1 .. last <=> y \in new
      BY <1>1, <1>3, <2>1 DEF Taken
    <2>4. /\ end \in NodeId /\ end \notin new /\ last \in new
          /\ \A y \in new : y \notin beside
      BY <1>1, <1>2, <1>3, <2>1 DEF Taken
    <2>5. \A y \in new : y \in NodeId /\ t.num < y /\ y <= last /\ s[y - t.num] \in S
      <3>1. ASSUME NEW y \in new PROVE y \in NodeId /\ t.num < y /\ y <= last /\ y - t.num \in 1 .. Len(s)
        BY <1>1, <1>3 DEF Taken
      <3>2. QED BY <3>1
    <2>6. /\ u.next[end] = t.num + 1 /\ u.next[last] = Null
          /\ \A y \in new : y # last => u.next[y] = y + 1
          /\ \A y \in Link : y # end /\ y \notin new => u.next[y] = t.next[y]
      <3>1. u.next = [y \in Link   |-> IF y = end THEN t.num + 1
                                       ELSE IF y \in (t.num + 1 .. last) \ {last} THEN y + 1 ELSE t.next[y]]
        BY <2>2
      <3>2. t.next[last] = Null
        BY <1>1, <2>1
      <3>3. QED BY <2>1, <2>3, <2>4, <2>5, <3>1, <3>2
    <2>7. /\ u.prev[t.num + 1] = end
          /\ \A y \in new : y # t.num + 1 => u.prev[y] = y - 1
          /\ \A y \in NodeId : y \notin new => u.prev[y] = t.prev[y]
      <3>1. u.prev = [y \in NodeId |-> IF y \in t.num + 1 .. last
                                       THEN (IF y = t.num + 1 THEN end ELSE y - 1)
                                       ELSE t.prev[y]]
        BY <2>2
      <3>2. t.num + 1 \in new
        BY <2>1, <2>3, <1>1, <1>3
      <3>3. QED BY <2>1, <2>3, <2>5, <3>1, <3>2
    <2>8. /\ \A y \in new : u.node[y] = s[y - t.num] /\ Ordinary(u.node[y])
          /\ \A y \in NodeId : y \notin new => u.node[y] = t.node[y]
      <3>1. u.node = [y \in NodeId |-> IF y \in t.num + 1 .. last THEN s[y - t.num] ELSE t.node[y]]
        BY <2>2
      <3>2. \A y \in new : u.node[y] = s[y - t.num]
        BY <2>3, <2>5, <3>1
      <3>3. QED BY <2>3, <2>5, <3>1, <3>2
    <2>9. Pool(u)
      <3>1. u.next \in [Link -> Link]
        <4>1. DOMAIN u.next = Link /\ u.next = [y \in Link |-> u.next[y]]
          BY <2>2
        <4>2. ASSUME NEW y \in Link PROVE u.next[y] \in Link
          <5>1. CASE y = end
            BY <2>1, <2>6, <5>1
          <5>2. CASE y \in new
            <6>1. ASSUME y # last PROVE y + 1 \in NodeId
              <7>1. y \in Nat /\ last \in Nat /\ y <= last /\ last <= MaxNode /\ MaxNode \in Nat
                BY <2>1, <2>5, <5>2
              <7>2. y + 1 \in Nat /\ 1 <= y + 1 /\ y + 1 <= MaxNode
                BY <6>1, <7>1
              <7>3. QED BY <7>2
            <6>2. QED BY <2>6, <5>2, <6>1
          <5>3. CASE y # end /\ y \notin new
            BY <1>1, <2>6, <5>3
          <5>4. QED BY <5>1, <5>2, <5>3
        <4>3. QED BY <4>1, <4>2
      <3>2. u.prev \in [NodeId -> Link]
        <4>1. DOMAIN u.prev = NodeId /\ u.prev = [y \in NodeId |-> u.prev[y]]
          BY <2>2
        <4>2. ASSUME NEW y \in NodeId PROVE u.prev[y] \in Link
          <5>1. CASE y = t.num + 1
            BY <2>4, <2>7, <5>1
          <5>2. CASE y \in new /\ y # t.num + 1
            <6>1. y - 1 \in NodeId
              BY <1>1, <2>5, <5>2
            <6>2. QED BY <2>7, <5>2, <6>1
          <5>3. CASE y \notin new
            BY <1>1, <2>7, <5>3
          <5>4. QED BY <5>1, <5>2, <5>3
        <4>3. QED BY <4>1, <4>2
      <3>3. DOMAIN u.node = NodeId /\ DOMAIN u = {"next", "prev", "node", "num"} /\ u.num = last
        BY <2>2
      <3>4. \A x \in NodeId : u.node[x].type \in Bracket => u.node[x] \in Node
        BY <1>1, <2>8 DEF Ordinary
      <3>5. ASSUME NEW x \in NodeId, x > u.num PROVE u.node[x].type = "FREE" /\ u.next[x] = Null
        <4>1. x > last /\ x > t.num
          BY <1>1, <1>3, <3>3, <3>5
        <4>2. x \notin new /\ x # end
          BY <1>2, <1>1, <1>3, <2>5, <4>1
        <4>3. QED BY <1>1, <2>6, <2>8, <4>1, <4>2
      <3>6. last \in 0 .. MaxNode
        BY <1>3
      <3>7. QED BY <3>1, <3>2, <3>3, <3>4, <3>5, <3>6 DEF Pool
    <2>10. Grown(u, b, start, last)
      <3>1. b \subseteq NodeId /\ start \in b /\ last \in b
        BY <1>2, <2>4, <2>5
      <3>2. ASSUME NEW x \in b
            PROVE  /\ Ordinary(u.node[x])
                   /\ start <= x /\ x <= last /\ x <= u.num
                   /\ x # last  => u.next[x] \in b /\ x < u.next[x] /\ u.prev[u.next[x]] = x
                   /\ x # start => u.prev[x] \in b /\ u.next[u.prev[x]] = x
        <4>0. u.num = last
          BY <2>2
        <4>1. CASE x \in new
          <5>1. Ordinary(u.node[x]) /\ x <= last /\ x \in NodeId /\ t.num < x
            BY <2>5, <2>8, <4>1
          <5>2. start <= x /\ x # start /\ start \in NodeId
            BY <1>1, <1>2, <5>1
          <5>3. ASSUME x # last PROVE u.next[x] \in b /\ x < u.next[x] /\ u.prev[u.next[x]] = x
            <6>1. u.next[x] = x + 1 /\ x + 1 \in t.num + 1 .. last /\ x + 1 # t.num + 1
              BY <1>1, <1>3, <2>6, <4>1, <5>1, <5>3
            <6>2. x + 1 \in new
              BY <2>3, <6>1
            <6>3. u.prev[x + 1] = (x + 1) - 1
              BY <2>7, <6>1, <6>2
            <6>4. QED BY <5>1, <6>1, <6>2, <6>3
          <5>4. u.prev[x] \in b /\ u.next[u.prev[x]] = x
            <6>1. CASE x = t.num + 1
              BY <1>2, <2>6, <2>7, <6>1
            <6>2. CASE x # t.num + 1
              <7>1. u.prev[x] = x - 1 /\ x - 1 \in t.num + 1 .. last /\ x - 1 # last
                BY <1>1, <1>3, <2>7, <4>1, <5>1, <6>2
              <7>2. x - 1 \in new
                BY <2>3, <7>1
              <7>3. u.next[x - 1] = (x - 1) + 1
                BY <2>6, <7>1, <7>2
              <7>4. QED BY <5>1, <7>1, <7>2, <7>3
            <6>3. QED BY <6>1, <6>2
          <5>5. QED BY <4>0, <5>1, <5>2, <5>3, <5>4
        <4>2. CASE x \in beside
          <5>1. x \in NodeId /\ x \notin new /\ x <= t.num /\ start <= x /\ start \in NodeId
            BY <1>2, <2>4, <4>2
          <5>2. Ordinary(u.node[x]) /\ x <= last /\ x # last
            BY <1>1, <1>2, <2>1, <2>8, <4>2, <5>1
          <5>3. u.next[x] \in b /\ x < u.next[x] /\ u.prev[u.next[x]] = x
            <6>1. CASE x = end
              BY <1>1, <2>1, <2>3, <2>6, <2>7, <5>1, <6>1
            <6>2. CASE x # end
              <7>1. u.next[x] = t.next[x] /\ t.next[x] \in beside /\ x < t.next[x] /\ t.prev[t.next[x]] = x
                BY <1>2, <2>6, <4>2, <5>1, <6>2
              <7>2. t.next[x] \in NodeId /\ t.next[x] \notin new
                BY <1>2, <2>4, <7>1
              <7>3. QED BY <2>7, <7>1, <7>2
            <6>3. QED BY <6>1, <6>2
          <5>4. ASSUME x # start PROVE u.prev[x] \in b /\ u.next[u.prev[x]] = x
            <6>1. u.prev[x] = t.prev[x] /\ t.prev[x] \in beside /\ t.next[t.prev[x]] = x
              BY <1>2, <2>7, <4>2, <5>1, <5>4
            <6>2. t.prev[x] # end /\ t.prev[x] \notin new /\ t.prev[x] \in Link
              BY <1>2, <2>4, <5>1, <6>1
            <6>3. QED BY <2>6, <6>1, <6>2
          <5>5. QED BY <4>0, <5>1, <5>2, <5>3, <5>4
        <4>3. QED BY <4>1, <4>2
      <3>3. QED BY <2>6, <3>1, <3>2 DEF Grown, Ordinary
    <2>11. \A x \in Link : x \notin b => u.next[x] = t.next[x]
      BY <1>2, <2>6
    <2>12. \A x \in NodeId : x \notin b => u.node[x] = t.node[x] /\ u.prev[x] = t.prev[x]
      BY <2>7, <2>8
    <2>13. QED BY <2>1, <2>9, <2>10, <2>11, <2>12 DEF Untouched
  <1>6. QED BY <1>4, <1>5

(***************************************************************************)
(* The prefix is taken out.                                                *)
(***************************************************************************)
\* The nodes that are freed are those in front of x.
LEMMA Cutting ==
  ASSUME NEW t, Pool(t), NEW beside, NEW r, NEW m, m = Skeleton(t, beside), Sound(m, r),
         NEW x \in Link, x = Null \/ Live(m, x), NEW u, u = WithoutPrefix(t, x)
  PROVE  /\ Pool(u) /\ u.num = t.num /\ u.next[Null] = x
         /\ \A y \in NodeId : Live(m, y) /\ y \notin FromOn(m, r, x) => u.node[y] = FreeNode
         /\ \A y \in NodeId : ~Live(m, y) \/ y \in FromOn(m, r, x) =>
              u.node[y] = t.node[y] /\ u.next[y] = t.next[y] /\ u.prev[y] = t.prev[y]
  <1> DEFINE w    == Walk(t)
             gone == {w[i] : i \in {j \in DOMAIN w : \A k \in 1 .. j : w[k] # x}}
  <1>1. /\ t.next \in [Link -> Link] /\ t.prev \in [NodeId -> Link] /\ DOMAIN t.node = NodeId
        /\ t.num \in 0 .. MaxNode
        /\ \A y \in NodeId : y > t.num => t.node[y].type = "FREE" /\ t.next[y] = Null
        /\ \A y \in NodeId : t.node[y].type \in Bracket => t.node[y] \in Node
        /\ DOMAIN t = {"next", "prev", "node", "num"}
    BY DEF Pool
  <1>2. u = Edit(t, [y \in Link   |-> IF y = Null THEN x ELSE IF y \in gone THEN Null ELSE t.next[y]],
                    [y \in NodeId |-> IF y \in gone THEN Null ELSE t.prev[y]],
                    [y \in NodeId |-> IF y \in gone THEN FreeNode ELSE t.node[y]])
    BY DEF WithoutPrefix
  <1>3. InOrder(m, r, w)
    <2>1. m.next = t.next
      BY SkeletonParts
    <2>2. w = Walk(m)
      BY <2>1, WalkByNext
    <2>3. QED BY <2>2, Ordered
  <1> HIDE DEF w
  <1>4. /\ Len(w) \in Nat /\ DOMAIN w = 1 .. Len(w)
        /\ \A i \in 1 .. Len(w) : w[i] \in NodeId /\ Live(m, w[i])
        /\ \A y \in NodeId : Live(m, y) => \E i \in 1 .. Len(w) : y = w[i]
        /\ \A i, j \in 1 .. Len(w) : w[i] = w[j] => i = j
        /\ \A i, j \in 1 .. Len(w) : r[w[i]] < r[w[j]] <=> i < j
        /\ r \in [NodeId -> Int]
    BY <1>3 DEF InOrder
  <1>5. ASSUME NEW j \in 1 .. Len(w)
        PROVE  (\A k \in 1 .. j : w[k] # x) <=> w[j] \notin FromOn(m, r, x)
    <2>0. w[j] \in NodeId /\ Live(m, w[j]) /\ \A k \in 1 .. j : k \in 1 .. Len(w)
      BY <1>4
    <2>1. CASE x = Null
      BY <1>4, <2>0, <2>1 DEF FromOn
    <2>2. CASE x # Null
      <3>1. PICK a \in 1 .. Len(w) : x = w[a]
        BY <1>4, <2>2
      <3>2. r[x] \in Int /\ r[w[j]] \in Int
        BY <1>4, <2>2, <2>0
      <3>3. w[j] \in FromOn(m, r, x) <=> ~(r[w[j]] < r[w[a]])
        BY <2>0, <2>2, <3>1, <3>2 DEF FromOn
      <3>4. r[w[j]] < r[w[a]] <=> j < a
        BY <1>4, <3>1
      <3>5. (\A k \in 1 .. j : w[k] # x) <=> j < a
        <4>1. ASSUME j < a, NEW k \in 1 .. j PROVE w[k] # x
          BY <1>4, <2>0, <3>1, <4>1
        <4>2. ASSUME ~(j < a) PROVE a \in 1 .. j
          BY <4>2
        <4>3. QED BY <3>1, <4>1, <4>2
      <3>6. QED BY <3>3, <3>4, <3>5
    <2>3. QED BY <2>1, <2>2
  <1>6. \A y : y \in gone <=> y \in NodeId /\ Live(m, y) /\ y \notin FromOn(m, r, x)
    <2>1. ASSUME NEW y, y \in gone PROVE y \in NodeId /\ Live(m, y) /\ y \notin FromOn(m, r, x)
      BY <1>4, <1>5, <2>1
    <2>2. ASSUME NEW y \in NodeId, Live(m, y), y \notin FromOn(m, r, x) PROVE y \in gone
      <3>1. PICK i \in 1 .. Len(w) : y = w[i]
        BY <1>4, <2>2
      <3>2. \A k \in 1 .. i : w[k] # x
        BY <1>5, <2>2, <3>1
      <3>3. QED BY <1>4, <3>1, <3>2
    <2>3. QED BY <2>1, <2>2
  <1> HIDE DEF gone
  <1>7. /\ u.next = [y \in Link   |-> IF y = Null THEN x ELSE IF y \in gone THEN Null ELSE t.next[y]]
        /\ u.prev = [y \in NodeId |-> IF y \in gone THEN Null ELSE t.prev[y]]
        /\ u.node = [y \in NodeId |-> IF y \in gone THEN FreeNode ELSE t.node[y]]
        /\ u.num = t.num /\ DOMAIN u = {"next", "prev", "node", "num"}
    BY <1>1, <1>2 DEF Edit
  <1>8. FreeNode.type = "FREE"
    BY DEF FreeNode, Blank
  <1>9. Pool(u)
    <2>1. u.next \in [Link -> Link] /\ u.prev \in [NodeId -> Link]
      BY <1>1, <1>7
    <2>2. \A y \in NodeId : u.node[y].type \in Bracket => u.node[y] \in Node
      BY <1>1, <1>7, <1>8 DEF Bracket, Openers, Closers
    <2>3. \A y \in NodeId : y > u.num => u.node[y].type = "FREE" /\ u.next[y] = Null
      BY <1>1, <1>7, <1>8
    <2>4. QED BY <1>1, <1>7, <2>1, <2>2, <2>3 DEF Pool
  <1>10. QED BY <1>6, <1>7, <1>9

\* What is left from x on is a list of its own, but for the link back of x.
Remnant(v, K, x, r) ==
  /\ K \subseteq NodeId /\ r \in [NodeId -> Int]
  /\ x = Null => K = {}
  /\ x # Null => x \in K
  /\ \A y \in K :
       /\ v.node[y].type # "FREE" /\ r[x] <= r[y]
       /\ v.next[y] # Null => v.next[y] \in K /\ v.prev[v.next[y]] = y /\ r[y] < r[v.next[y]]
       /\ y # x => v.prev[y] \in K /\ v.next[v.prev[y]] = y
  /\ \A y \in K : v.node[y].type \in Bracket =>
       /\ v.node[y].jmp \in K /\ v.node[v.node[y].jmp].jmp = y
       /\ v.node[y].type \in Openers => v.node[v.node[y].jmp].type \in Closers /\ r[y] < r[v.node[y].jmp]
       /\ v.node[y].type \in Closers => v.node[v.node[y].jmp].type \in Openers
  /\ \A y, z \in K :
       /\ v.node[y].type \in Openers /\ v.node[z].type \in Openers
       /\ r[y] < r[z] /\ r[z] < r[v.node[y].jmp]
       => r[v.node[z].jmp] < r[v.node[y].jmp]

\* Nothing in front of x is needed by what is left, as no loop straddles x.
LEMMA Remaining ==
  ASSUME NEW t, Pool(t), NEW beside, NEW r, NEW m, m = Skeleton(t, beside), Sound(m, r),
         NEW x \in Link, x = Null \/ Live(m, x),
         x # Null => \A y \in NodeId : m.node[y].type \in Openers /\ r[y] < r[x] => r[m.node[y].jmp] < r[x],
         NEW v, \A y \in FromOn(m, r, x) : v.node[y] = t.node[y] /\ v.next[y] = t.next[y] /\ v.prev[y] = t.prev[y]
  PROVE  Remnant(v, FromOn(m, r, x), x, r)
  <1> DEFINE K == FromOn(m, r, x)
  <1>1. /\ m \in Tree /\ m.next = t.next /\ m.prev = t.prev
        /\ \A y : Live(m, y) <=> Live(t, y) /\ y \notin beside
        /\ \A y \in NodeId :
             /\ m.node[y].type \in Bracket <=> t.node[y].type \in Bracket /\ y \notin beside
             /\ m.node[y].type \in Bracket => m.node[y] = t.node[y]
    BY SkeletonParts
  <1>2. InOrder(m, r, Walk(m))
    BY Ordered
  <1> DEFINE w == Walk(m)
  <1> HIDE DEF w
  <1>3. /\ \A i \in 1 .. Len(w) : w[i] \in NodeId /\ Live(m, w[i])
        /\ \A y \in NodeId : Live(m, y) => \E i \in 1 .. Len(w) : y = w[i]
        /\ \A i, j \in 1 .. Len(w) : w[i] = w[j] => i = j
        /\ \A i, j \in 1 .. Len(w) : r[w[i]] < r[w[j]] <=> i < j
        /\ \A i \in 1 .. Len(w) : m.next[w[i]] # Null => i + 1 \in 1 .. Len(w) /\ w[i + 1] = m.next[w[i]]
        /\ m.next[Null] # Null => 1 \in 1 .. Len(w) /\ w[1] = m.next[Null]
        /\ r \in [NodeId -> Int]
    BY <1>2 DEF InOrder, w
  <1>4. \A y : y \in K <=> y \in NodeId /\ Live(m, y) /\ x # Null /\ r[x] <= r[y]
    BY DEF FromOn
  <1>5. x # Null => x \in NodeId /\ x \in K /\ r[x] \in Int
    BY <1>3, <1>4
  <1>6. \A y \in K : v.node[y] = t.node[y] /\ v.next[y] = m.next[y] /\ v.prev[y] = m.prev[y]
    BY <1>1
  <1> HIDE DEF K
  <1>7. ASSUME NEW y \in K
        PROVE  v.node[y].type \in Bracket <=> m.node[y].type \in Bracket
    BY <1>1, <1>4, <1>6
  <1>8. \A y \in K : v.node[y].type \in Bracket => v.node[y] = m.node[y] /\ m.node[y].type \in Bracket
    BY <1>1, <1>4, <1>6, <1>7
  <1>9. /\ \A y \in Link : (y = Null \/ Live(m, y)) /\ m.next[y] # Null =>
             Live(m, m.next[y]) /\ m.prev[m.next[y]] = y
        /\ \A y \in NodeId : Live(m, y) =>
             (m.prev[y] # Null => Live(m, m.prev[y])) /\ m.next[m.prev[y]] = y
        /\ \A y \in NodeId : Live(m, y) /\ m.next[y] # Null => r[y] < r[m.next[y]]
    BY DEF Sound, DoublyLinked, Ranks
  <1>10. ASSUME NEW y \in K
         PROVE  v.node[y].type # "FREE" /\ r[x] <= r[y]
    BY <1>1, <1>4, <1>6 DEF Live
  <1>11. ASSUME NEW y \in K, v.next[y] # Null
         PROVE  v.next[y] \in K /\ v.prev[v.next[y]] = y /\ r[y] < r[v.next[y]]
    <2>1. y \in NodeId /\ Live(m, y) /\ x # Null /\ r[x] <= r[y] /\ v.next[y] = m.next[y]
      BY <1>4, <1>6
    <2>2. Live(m, m.next[y]) /\ m.prev[m.next[y]] = y /\ r[y] < r[m.next[y]] /\ m.next[y] \in NodeId
      BY <1>9, <1>11, <2>1 DEF Live
    <2>3. r[x] \in Int /\ r[y] \in Int /\ r[m.next[y]] \in Int
      BY <1>3, <1>5, <2>1, <2>2
    <2>4. m.next[y] \in K
      BY <1>4, <2>1, <2>2, <2>3
    <2>5. QED BY <1>6, <2>1, <2>2, <2>4
  <1>12. ASSUME NEW y \in K, y # x
         PROVE  v.prev[y] \in K /\ v.next[v.prev[y]] = y
    <2>1. y \in NodeId /\ Live(m, y) /\ x # Null /\ r[x] <= r[y] /\ v.prev[y] = m.prev[y]
      BY <1>4, <1>6
    <2>2. (m.prev[y] # Null => Live(m, m.prev[y])) /\ m.next[m.prev[y]] = y
      BY <1>9, <2>1
    <2>3. PICK a \in 1 .. Len(w) : x = w[a]
      BY <1>3, <1>5, <1>4, <2>1
    <2>4. PICK b \in 1 .. Len(w) : y = w[b]
      BY <1>3, <2>1
    <2>5. a < b
      <3>1. ~(r[w[b]] < r[w[a]])
        BY <1>3, <1>5, <2>1, <2>3, <2>4
      <3>2. ~(b < a)
        BY <1>3, <3>1
      <3>3. a # b
        BY <1>12, <2>3, <2>4
      <3>4. QED BY <3>2, <3>3
    <2>6. m.prev[y] # Null
      <3> SUFFICES ASSUME m.prev[y] = Null PROVE FALSE
        OBVIOUS
      <3>1. m.next[Null] = y /\ y # Null
        BY <2>1, <2>2
      <3>2. 1 \in 1 .. Len(w) /\ w[1] = y
        BY <1>3, <3>1
      <3>3. b = 1
        BY <1>3, <2>4, <3>2
      <3>4. QED BY <2>5, <3>3
    <2>7. m.prev[y] \in NodeId /\ Live(m, m.prev[y])
      BY <2>2, <2>6 DEF Live
    <2>8. PICK c \in 1 .. Len(w) : m.prev[y] = w[c]
      BY <1>3, <2>7
    <2>9. c + 1 \in 1 .. Len(w) /\ w[c + 1] = y
      <3>1. m.next[w[c]] = y /\ y # Null
        BY <2>1, <2>2, <2>8
      <3>2. QED BY <1>3, <3>1
    <2>10. b = c + 1
      BY <1>3, <2>4, <2>9
    <2>11. ~(c < a)
      BY <2>5, <2>10
    <2>12. ~(r[w[c]] < r[w[a]])
      BY <1>3, <2>11
    <2>13. r[x] <= r[m.prev[y]]
      BY <1>3, <1>5, <2>1, <2>3, <2>7, <2>8, <2>12
    <2>14. m.prev[y] \in K
      BY <1>4, <2>1, <2>7, <2>13
    <2>15. QED BY <1>6, <2>1, <2>2, <2>14
  <1>13. ASSUME NEW y \in K, v.node[y].type \in Bracket
         PROVE  /\ v.node[y] = m.node[y] /\ m.node[y].jmp \in K
                /\ v.node[m.node[y].jmp] = m.node[m.node[y].jmp] /\ m.node[m.node[y].jmp].jmp = y
                /\ m.node[y].type \in Openers =>
                     m.node[m.node[y].jmp].type \in Closers /\ r[y] < r[m.node[y].jmp]
                /\ m.node[y].type \in Closers => m.node[m.node[y].jmp].type \in Openers
    <2> DEFINE z == m.node[y].jmp
    <2>1. v.node[y] = m.node[y] /\ m.node[y].type \in Bracket /\ y \in NodeId /\ x # Null /\ r[x] <= r[y]
      BY <1>4, <1>8, <1>13
    <2>2. /\ z \in NodeId /\ Live(m, z) /\ m.node[z].jmp = y
          /\ m.node[y].type \in Openers => m.node[z].type \in Closers /\ r[y] < r[z]
          /\ m.node[y].type \in Closers => m.node[z].type \in Openers /\ r[z] < r[y]
      BY <2>1, Partners
    <2> HIDE DEF z
    <2>3. r[x] \in Int /\ r[y] \in Int /\ r[z] \in Int
      BY <1>3, <1>5, <2>1, <2>2
    <2>4. r[x] <= r[z]
      <3>1. CASE m.node[y].type \in Openers
        BY <2>1, <2>2, <2>3, <3>1
      <3>2. CASE m.node[y].type \in Closers
        <4>1. r[z] < r[x] => r[m.node[z].jmp] < r[x]
          BY <2>1, <2>2, <3>2
        <4>2. QED BY <2>1, <2>2, <2>3, <4>1
      <3>3. QED BY <2>1, <3>1, <3>2 DEF Bracket
    <2>5. z \in K
      BY <1>4, <2>1, <2>2, <2>4
    <2>6. m.node[z].type \in Bracket
      BY <2>1, <2>2 DEF Bracket
    <2>7. v.node[z] = m.node[z]
      BY <1>7, <1>8, <2>5, <2>6
    <2>8. QED BY <2>1, <2>2, <2>5, <2>7 DEF z
  <1>14. ASSUME NEW y \in K, NEW z \in K, v.node[y].type \in Openers, v.node[z].type \in Openers,
                r[y] < r[z], r[z] < r[v.node[y].jmp]
         PROVE  r[v.node[z].jmp] < r[v.node[y].jmp]
    <2>1. v.node[y] = m.node[y] /\ v.node[z] = m.node[z] /\ y \in NodeId /\ z \in NodeId
      BY <1>4, <1>8, <1>14 DEF Bracket
    <2>2. QED BY <1>14, <2>1 DEF Sound, NestedBy, Inside
  <1>15. \A y \in K : v.node[y].type \in Bracket =>
           /\ v.node[y].jmp \in K /\ v.node[v.node[y].jmp].jmp = y
           /\ v.node[y].type \in Openers => v.node[v.node[y].jmp].type \in Closers /\ r[y] < r[v.node[y].jmp]
           /\ v.node[y].type \in Closers => v.node[v.node[y].jmp].type \in Openers
    <2> SUFFICES ASSUME NEW y \in K, v.node[y].type \in Bracket
                 PROVE  /\ v.node[y].jmp \in K /\ v.node[v.node[y].jmp].jmp = y
                        /\ v.node[y].type \in Openers =>
                             v.node[v.node[y].jmp].type \in Closers /\ r[y] < r[v.node[y].jmp]
                        /\ v.node[y].type \in Closers => v.node[v.node[y].jmp].type \in Openers
      OBVIOUS
    <2>1. QED BY <1>13
  <1>16. K \subseteq NodeId /\ (x = Null => K = {}) /\ (x # Null => x \in K) /\ r \in [NodeId -> Int]
    BY <1>3, <1>4, <1>5
  <1>17. QED BY <1>10, <1>11, <1>12, <1>14, <1>15, <1>16 DEF Remnant, K

(***************************************************************************)
(* The list that has grown takes the place of the prefix.                  *)
(***************************************************************************)
\* A link back of the head that is left over is put aside.
Headed(t) == [t EXCEPT !.prev = SetPrev(t.prev, t.next[Null], Null)]

\* The links after the T_NOP is gone and the two lists are joined.
LEMMA JoinedParts ==
  ASSUME NEW v, Pool(v), NEW start \in NodeId, NEW end \in NodeId, NEW x \in Link, v.next[Null] = x,
         x # start, x # end, v.next[start] # x \/ v.next[start] = Null,
         v.next[start] # start, v.next[start] # Null => end # start, end <= v.num,
         NEW g, g = Headed(Joined(WithoutNop(v, start), v.next[start], end))
  PROVE  LET y0 == v.next[start] IN
         /\ Pool(g)
         /\ g.next[Null] = IF y0 = Null THEN x ELSE y0
         /\ g.node[start] = FreeNode
         /\ \A y \in NodeId : y # start => g.node[y] = v.node[y]
         /\ \A y \in NodeId : y # start /\ (y # end \/ y0 = Null) => g.next[y] = v.next[y]
         /\ \A y \in NodeId : y # start /\ y # y0 /\ y # x => g.prev[y] = v.prev[y]
         /\ y0 # Null => g.next[end] = x /\ g.prev[y0] = Null
         /\ x # Null => g.prev[x] = IF y0 = Null THEN Null ELSE end
  <1> DEFINE y0 == v.next[start]
             a  == SetPrev(v.prev, y0, Null)
             wn == WithoutNop(v, start)
             f  == Joined(wn, y0, end)
  <1>1. /\ v.next \in [Link -> Link] /\ v.prev \in [NodeId -> Link] /\ DOMAIN v.node = NodeId
        /\ v.num \in 0 .. MaxNode /\ DOMAIN v = {"next", "prev", "node", "num"}
        /\ \A y \in NodeId : y > v.num => v.node[y].type = "FREE" /\ v.next[y] = Null
        /\ \A y \in NodeId : v.node[y].type \in Bracket => v.node[y] \in Node
        /\ y0 \in Link /\ start # Null /\ end # Null
    BY DEF Pool
  <1>2. a \in [NodeId -> Link] /\ (y0 # Null => a[y0] = Null)
        /\ \A y \in NodeId : y # y0 => a[y] = v.prev[y]
    BY <1>1 DEF SetPrev
  <1>3. /\ wn.next = [v.next EXCEPT ![start] = Null]
        /\ wn.prev = [a EXCEPT ![start] = Null]
        /\ wn.node = [v.node EXCEPT ![start] = FreeNode]
        /\ wn.num = v.num /\ DOMAIN wn = {"next", "prev", "node", "num"}
    <2> DEFINE e == Edit(v, v.next, a, v.node)
    <2>1. /\ e.next = v.next /\ e.prev = a /\ e.node = v.node /\ e.num = v.num
          /\ DOMAIN e = {"next", "prev", "node", "num"}
      BY <1>1 DEF Edit
    <2>2. wn = Freed(e, start)
      BY DEF WithoutNop
    <2> HIDE DEF e, wn, a
    <2>3. QED BY <2>1, <2>2 DEF Freed, Edit
  <1>4. FreeNode.type = "FREE"
    BY DEF FreeNode, Blank
  <1> HIDE DEF wn, a, y0
  <1>5. /\ wn.next \in [Link -> Link] /\ wn.prev \in [NodeId -> Link] /\ DOMAIN wn.node = NodeId
        /\ wn.next[Null] = x
        /\ \A y \in NodeId : y # start => wn.next[y] = v.next[y]
        /\ y0 # Null => y0 # start /\ wn.prev[y0] = Null
        /\ \A y \in NodeId : y # y0 /\ y # start => wn.prev[y] = v.prev[y]
        /\ wn.node[start] = FreeNode /\ \A y \in NodeId : y # start => wn.node[y] = v.node[y]
    <2>1. /\ wn.next \in [Link -> Link] /\ wn.next[Null] = x
          /\ \A y \in NodeId : y # start => wn.next[y] = v.next[y]
      BY <1>1, <1>3
    <2>2. /\ wn.prev \in [NodeId -> Link]
          /\ y0 # Null => y0 # start /\ wn.prev[y0] = Null
          /\ \A y \in NodeId : y # y0 /\ y # start => wn.prev[y] = v.prev[y]
      <3>1. y0 # start
        BY DEF y0
      <3>2. QED BY <1>1, <1>2, <1>3, <3>1
    <2>3. /\ DOMAIN wn.node = NodeId
          /\ wn.node[start] = FreeNode /\ \A y \in NodeId : y # start => wn.node[y] = v.node[y]
      BY <1>1, <1>3
    <2>4. QED BY <2>1, <2>2, <2>3
  <1>6. CASE y0 = Null
    <2>1. f = wn
      BY <1>6 DEF Joined
    <2> HIDE DEF f
    <2>2. /\ g.next = wn.next /\ g.prev = SetPrev(wn.prev, x, Null) /\ g.node = wn.node /\ g.num = wn.num
          /\ DOMAIN g = {"next", "prev", "node", "num"}
      <3>1. g = Headed(wn)
        BY <2>1 DEF f, wn, y0
      <3>2. QED BY <1>3, <1>5, <3>1 DEF Headed
    <2>3. /\ g.prev \in [NodeId -> Link] /\ (x # Null => g.prev[x] = Null)
          /\ \A y \in NodeId : y # x => g.prev[y] = wn.prev[y]
      BY <1>1, <1>5, <2>2 DEF SetPrev
    <2>4. Pool(g)
      <3>1. \A y \in NodeId : y > v.num => g.next[y] = Null
        <4>1. \A y \in NodeId : wn.next[y] = v.next[y] \/ wn.next[y] = Null
          BY <1>1, <1>3
        <4>2. QED BY <1>1, <2>2, <4>1
      <3>2. \A y \in NodeId : wn.node[y] = v.node[y] \/ wn.node[y] = FreeNode
        BY <1>1, <1>3
      <3>3. \A y \in NodeId : g.node[y].type \in Bracket => g.node[y] \in Node
        BY <1>1, <1>4, <2>2, <3>2 DEF Bracket, Openers, Closers
      <3>4. \A y \in NodeId : y > g.num => g.node[y].type = "FREE" /\ g.next[y] = Null
        BY <1>1, <1>3, <1>4, <2>2, <3>1, <3>2
      <3>5. g.next \in [Link -> Link] /\ DOMAIN g.node = NodeId /\ g.num \in 0 .. MaxNode
        BY <1>1, <1>3, <1>5, <2>2
      <3>6. QED BY <2>2, <2>3, <3>3, <3>4, <3>5 DEF Pool
    <2>5. QED BY <1>1, <1>5, <1>6, <2>2, <2>3, <2>4 DEF y0
  <1>7. CASE y0 # Null
    <2>1. y0 \in NodeId /\ y0 # x /\ end # start
      BY <1>1, <1>7 DEF y0
    <2>2. f = Edit(wn, [wn.next EXCEPT ![end] = x, ![Null] = y0], SetPrev(wn.prev, x, end), wn.node)
      BY <1>5, <1>7, <1>1 DEF Joined
    <2>3. /\ f.next = [wn.next EXCEPT ![end] = x, ![Null] = y0] /\ f.prev = SetPrev(wn.prev, x, end)
          /\ f.node = wn.node /\ f.num = wn.num /\ DOMAIN f = {"next", "prev", "node", "num"}
      BY <1>3, <2>2 DEF Edit
    <2>4. g = Headed(f)
      BY DEF f, wn, y0
    <2> HIDE DEF f
    <2>5. /\ f.next \in [Link -> Link] /\ f.next[Null] = y0 /\ f.next[end] = x
          /\ \A y \in NodeId : y # end => f.next[y] = wn.next[y]
      BY <1>1, <1>5, <2>1, <2>3
    <2>6. /\ f.prev \in [NodeId -> Link] /\ (x # Null => f.prev[x] = end)
          /\ \A y \in NodeId : y # x => f.prev[y] = wn.prev[y]
      BY <1>1, <1>5, <2>3 DEF SetPrev
    <2>7. /\ g.next = f.next /\ g.prev = [f.prev EXCEPT ![y0] = Null] /\ g.node = wn.node /\ g.num = wn.num
          /\ DOMAIN g = {"next", "prev", "node", "num"}
      BY <1>7, <2>3, <2>4, <2>5 DEF Headed, SetPrev
    <2>8. /\ g.prev \in [NodeId -> Link] /\ g.prev[y0] = Null
          /\ \A y \in NodeId : y # y0 => g.prev[y] = f.prev[y]
      BY <2>1, <2>6, <2>7
    <2>9. Pool(g)
      <3>1. \A y \in NodeId : y > v.num => g.next[y] = Null
        <4>1. \A y \in NodeId : y > v.num => y # end
          BY <1>1
        <4>2. \A y \in NodeId : wn.next[y] = v.next[y] \/ wn.next[y] = Null
          BY <1>1, <1>3
        <4>3. QED BY <1>1, <2>5, <2>7, <4>1, <4>2
      <3>2. QED BY <1>1, <1>3, <1>4, <1>5, <2>5, <2>7, <2>8, <3>1 DEF Pool, Bracket, Openers, Closers
    <2>10. QED BY <1>1, <1>5, <1>7, <2>1, <2>5, <2>6, <2>7, <2>8, <2>9 DEF y0
  <1>8. QED BY <1>6, <1>7

\* The T_NOP that began the list is gone, and what has grown behind it stands in
\* front of what is left.
LEMMA Replaced ==
  ASSUME NEW v, Pool(v), NEW b, NEW start, NEW end, Grown(v, b, start, end),
         NEW K, NEW x \in Link, NEW r, Remnant(v, K, x, r), v.next[Null] = x,
         K \cap b = {}, \A y \in NodeId : Live(v, y) => y \in K \cup b,
         NEW g, g = Headed(Joined(WithoutNop(v, start), v.next[start], end))
  PROVE  /\ DoublyLinked(g) /\ BracketsPaired(g) /\ Complete(g) /\ Nested(g)
         /\ \E q : Sound(Skeleton(g, {}), q) /\ \A y, z \in K : r[y] < r[z] => q[y] < q[z]
         /\ \A y \in K : Live(Skeleton(g, {}), y) /\ g.node[y] = v.node[y]
         /\ Pool(g)
         /\ g.next[IF v.next[start] = Null THEN Null ELSE end] = x
  <1> DEFINE y0 == v.next[start]
  <1>1. /\ b \subseteq NodeId /\ start \in b /\ end \in b /\ v.next[end] = Null
        /\ \A y \in b :
             /\ v.node[y].type \notin Bracket \cup {"FREE", "SUSP"}
             /\ start <= y /\ y <= end /\ y <= v.num
             /\ y # end   => v.next[y] \in b /\ y < v.next[y] /\ v.prev[v.next[y]] = y
             /\ y # start => v.prev[y] \in b /\ v.next[v.prev[y]] = y
    BY DEF Grown
  <1>2. /\ K \subseteq NodeId /\ r \in [NodeId -> Int]
        /\ x = Null => K = {}
        /\ x # Null => x \in K
        /\ \A y \in K :
             /\ v.node[y].type # "FREE" /\ r[x] <= r[y]
             /\ v.next[y] # Null => v.next[y] \in K /\ v.prev[v.next[y]] = y /\ r[y] < r[v.next[y]]
             /\ y # x => v.prev[y] \in K /\ v.next[v.prev[y]] = y
    BY DEF Remnant
  <1>3. \A y : ~(y \in K /\ y \in b)
    OBVIOUS
  <1>4. /\ start \in NodeId /\ end \in NodeId /\ x # start /\ x # end /\ end <= v.num
        /\ y0 \in Link /\ y0 # start /\ (y0 # Null => y0 \in b /\ end # start /\ v.prev[y0] = start)
        /\ (y0 # x \/ y0 = Null)
        /\ (y0 = Null => \A y \in b : y = start)
    <2>1. start \in NodeId /\ end \in NodeId /\ end <= v.num
      BY <1>1
    <2>2. x # start /\ x # end
      BY <1>1, <1>2, <1>3, <2>1
    <2>3. CASE start = end
      <3>1. y0 = Null
        BY <1>1, <2>3
      <3>2. ASSUME NEW y \in b PROVE y = start
        BY <1>1, <2>3
      <3>3. QED BY <2>1, <2>2, <3>1, <3>2
    <2>4. CASE start # end
      <3>1. y0 \in b /\ start < y0 /\ v.prev[y0] = start
        BY <1>1, <2>4
      <3>2. y0 \in NodeId /\ y0 # start /\ y0 # x
        BY <1>1, <1>2, <1>3, <3>1, <2>1
      <3>3. QED BY <2>1, <2>2, <2>4, <3>1, <3>2
    <2>5. QED BY <2>3, <2>4
  <1>5. /\ Pool(g)
        /\ g.next[Null] = IF y0 = Null THEN x ELSE y0
        /\ g.node[start] = FreeNode
        /\ \A y \in NodeId : y # start => g.node[y] = v.node[y]
        /\ \A y \in NodeId : y # start /\ (y # end \/ y0 = Null) => g.next[y] = v.next[y]
        /\ \A y \in NodeId : y # start /\ y # y0 /\ y # x => g.prev[y] = v.prev[y]
        /\ y0 # Null => g.next[end] = x /\ g.prev[y0] = Null
        /\ x # Null => g.prev[x] = IF y0 = Null THEN Null ELSE end
    BY <1>4, JoinedParts
  <1> DEFINE B == b \ {start}
             m == Skeleton(g, {})
  <1>6. /\ m \in Tree /\ m.next = g.next /\ m.prev = g.prev
        /\ \A y : Live(m, y) <=> Live(g, y)
        /\ \A y \in NodeId : m.node[y].type \in Bracket <=> g.node[y].type \in Bracket
        /\ \A y \in NodeId : m.node[y].type \in Bracket => m.node[y] = g.node[y]
    BY <1>5, SkeletonParts
  <1> HIDE DEF m, y0
  <1>7. \A y : Live(m, y) <=> y \in K \/ y \in B
    <2>1. FreeNode.type = "FREE"
      BY DEF FreeNode, Blank
    <2>2. ASSUME NEW y, Live(m, y) PROVE y \in K \/ y \in B
      <3>1. y \in NodeId /\ g.node[y].type # "FREE"
        BY <1>6, <2>2 DEF Live
      <3>2. y # start /\ g.node[y] = v.node[y]
        BY <1>5, <2>1, <3>1
      <3>3. Live(v, y)
        BY <3>1, <3>2 DEF Live
      <3>4. QED BY <3>1, <3>2, <3>3
    <2>3. ASSUME NEW y, y \in K \/ y \in B PROVE Live(m, y)
      <3>1. y \in NodeId /\ y # start /\ v.node[y].type # "FREE"
        BY <1>1, <1>2, <1>3, <2>3
      <3>2. g.node[y] = v.node[y]
        BY <1>5, <3>1
      <3>3. QED BY <1>6, <3>1, <3>2 DEF Live
    <2>4. QED BY <2>2, <2>3
  <1>8. ASSUME NEW y \in K
        PROVE  /\ y \in NodeId /\ m.next[y] = v.next[y] /\ y \notin b /\ v.node[y] = g.node[y]
               /\ y # x => m.prev[y] = v.prev[y]
    <2>1. y \in NodeId /\ y \notin b /\ y # start /\ y # end
      BY <1>1, <1>2, <1>3
    <2>2. y # y0
      BY <1>4, <2>1
    <2>3. QED BY <1>5, <1>6, <2>1, <2>2
  <1>9. ASSUME NEW y \in B
        PROVE  /\ y \in NodeId /\ y \notin K /\ y # x /\ y0 # Null /\ y # start
               /\ y # end => m.next[y] = v.next[y] /\ v.next[y] \in B /\ y < v.next[y] /\ v.next[y] # y0
               /\ y = end => m.next[y] = x
               /\ y # y0 => m.prev[y] = v.prev[y] /\ v.prev[y] \in B /\ v.prev[y] # end
               /\ y = y0 => m.prev[y] = Null
    <2>1. y \in NodeId /\ y \notin K /\ y # start /\ y \in b /\ y0 # Null /\ start \in NodeId
      BY <1>1, <1>3, <1>4
    <2>2. y # x
      BY <1>2, <2>1
    <2>3. ASSUME y # end
          PROVE  m.next[y] = v.next[y] /\ v.next[y] \in B /\ y < v.next[y] /\ v.next[y] # y0
      <3>1. v.next[y] \in b /\ y < v.next[y] /\ v.prev[v.next[y]] = y /\ start <= y
        BY <1>1, <2>1, <2>3
      <3>2. v.next[y] # start
        BY <1>1, <2>1, <3>1
      <3>3. v.next[y] # y0
        BY <1>4, <2>1, <3>1
      <3>4. m.next[y] = v.next[y]
        BY <1>5, <1>6, <2>1, <2>3
      <3>5. QED BY <3>1, <3>2, <3>3, <3>4
    <2>4. ASSUME y # y0
          PROVE  m.prev[y] = v.prev[y] /\ v.prev[y] \in B /\ v.prev[y] # end
      <3>1. v.prev[y] \in b /\ v.next[v.prev[y]] = y
        BY <1>1, <2>1
      <3>2. v.prev[y] # start
        BY <2>4, <3>1 DEF y0
      <3>3. v.prev[y] # end
        BY <1>1, <2>1, <3>1
      <3>4. m.prev[y] = v.prev[y]
        BY <1>5, <1>6, <2>1, <2>2, <2>4
      <3>5. QED BY <3>1, <3>2, <3>3, <3>4
    <2>5. (y = end => m.next[y] = x) /\ (y = y0 => m.prev[y] = Null)
      BY <1>5, <1>6, <2>1
    <2>6. QED BY <2>1, <2>2, <2>3, <2>4, <2>5
  <1> HIDE DEF B
  <1>10. /\ m.next[Null] = IF y0 = Null THEN x ELSE y0
         /\ y0 # Null => y0 \in B /\ end \in B
         /\ x # Null => m.prev[x] = IF y0 = Null THEN Null ELSE end
         /\ y0 = Null => B = {}
    BY <1>1, <1>4, <1>5, <1>6 DEF B
  <1>11. ASSUME NEW y \in K, v.next[y] # Null
         PROVE  v.next[y] # x /\ v.next[y] \in K /\ v.prev[v.next[y]] = y /\ r[y] < r[v.next[y]]
    <2>1. /\ v.next[y] \in K /\ v.prev[v.next[y]] = y /\ r[y] < r[v.next[y]] /\ r[x] <= r[y]
          /\ x \in K
      BY <1>2, <1>11
    <2>2. r[x] \in Int /\ r[y] \in Int
      BY <1>2, <2>1
    <2>3. QED BY <2>1, <2>2
  <1>12. DoublyLinked(m)
    <2>1. ASSUME NEW y \in Link, y = Null \/ Live(m, y), m.next[y] # Null
          PROVE  Live(m, m.next[y]) /\ m.prev[m.next[y]] = y
      <3>1. CASE y = Null
        BY <1>2, <1>7, <1>9, <1>10, <2>1, <3>1
      <3>2. CASE y \in K
        <4>1. m.next[y] = v.next[y]
          BY <1>8, <3>2
        <4>2. v.next[y] # x /\ v.next[y] \in K /\ v.prev[v.next[y]] = y
          BY <1>11, <2>1, <3>2, <4>1
        <4>3. QED BY <1>7, <1>8, <4>1, <4>2
      <3>3. CASE y \in B /\ y = end
        <4>1. m.next[y] = x /\ y0 # Null /\ x \in K
          BY <1>2, <1>9, <2>1, <3>3
        <4>2. QED BY <1>7, <1>10, <2>1, <3>3, <4>1
      <3>4. CASE y \in B /\ y # end
        <4>1. m.next[y] = v.next[y] /\ v.next[y] \in B /\ v.next[y] # y0
          BY <1>9, <3>4
        <4>2. m.prev[v.next[y]] = v.prev[v.next[y]]
          BY <1>9, <4>1
        <4>3. v.prev[v.next[y]] = y
          BY <1>1, <3>4 DEF B
        <4>4. QED BY <1>7, <4>1, <4>2, <4>3
      <3>5. QED BY <1>7, <2>1, <3>1, <3>2, <3>3, <3>4
    <2>2. ASSUME NEW y \in NodeId, Live(m, y)
          PROVE  (m.prev[y] # Null => Live(m, m.prev[y])) /\ m.next[m.prev[y]] = y
      <3>1. CASE y \in K /\ y = x
        <4>1. CASE y0 = Null
          BY <1>10, <3>1, <4>1
        <4>2. CASE y0 # Null
          BY <1>7, <1>9, <1>10, <3>1, <4>2
        <4>3. QED BY <4>1, <4>2
      <3>2. CASE y \in K /\ y # x
        <4>1. m.prev[y] = v.prev[y] /\ v.prev[y] \in K /\ v.next[v.prev[y]] = y
          BY <1>2, <1>8, <3>2
        <4>2. m.next[v.prev[y]] = v.next[v.prev[y]]
          BY <1>8, <4>1
        <4>3. QED BY <1>7, <4>1, <4>2
      <3>3. CASE y \in B /\ y = y0
        BY <1>9, <1>10, <3>3
      <3>4. CASE y \in B /\ y # y0
        <4>1. m.prev[y] = v.prev[y] /\ v.prev[y] \in B /\ v.prev[y] # end
          BY <1>9, <3>4
        <4>2. m.next[v.prev[y]] = v.next[v.prev[y]]
          BY <1>9, <4>1
        <4>3. v.next[v.prev[y]] = y
          BY <1>1, <3>4 DEF B
        <4>4. QED BY <1>7, <4>1, <4>2, <4>3
      <3>5. QED BY <1>7, <2>2, <3>1, <3>2, <3>3, <3>4
    <2>3. QED BY <2>1, <2>2 DEF DoublyLinked
  <1>13. \A y \in NodeId : m.node[y].type \in Bracket => y \in K /\ m.node[y] = v.node[y]
    <2> SUFFICES ASSUME NEW y \in NodeId, m.node[y].type \in Bracket PROVE y \in K /\ m.node[y] = v.node[y]
      OBVIOUS
    <2>1. Live(m, y) /\ g.node[y].type \in Bracket /\ m.node[y] = g.node[y]
      BY <1>6 DEF Live, Bracket, Openers, Closers
    <2>2. y \notin B
      <3> SUFFICES ASSUME y \in B PROVE FALSE
        OBVIOUS
      <3>1. g.node[y] = v.node[y]
        BY <1>5, <1>9
      <3>2. QED BY <1>1, <2>1, <3>1 DEF B
    <2>3. y \in K
      BY <1>7, <2>1, <2>2
    <2>4. QED BY <1>8, <2>1, <2>3
  <1>14. /\ \A y \in K : v.node[y].type \in Bracket =>
              /\ v.node[y].jmp \in K /\ v.node[v.node[y].jmp].jmp = y
              /\ v.node[y].type \in Openers => v.node[v.node[y].jmp].type \in Closers /\ r[y] < r[v.node[y].jmp]
              /\ v.node[y].type \in Closers => v.node[v.node[y].jmp].type \in Openers
         /\ \A y, z \in K :
              /\ v.node[y].type \in Openers /\ v.node[z].type \in Openers
              /\ r[y] < r[z] /\ r[z] < r[v.node[y].jmp]
              => r[v.node[z].jmp] < r[v.node[y].jmp]
    BY DEF Remnant
  <1>15. ASSUME NEW y \in NodeId, m.node[y].type \in Bracket
         PROVE  /\ y \in K /\ m.node[y] = v.node[y] /\ v.node[y].jmp \in K
                /\ m.node[v.node[y].jmp] = v.node[v.node[y].jmp]
    <2> DEFINE z == v.node[y].jmp
    <2>1. y \in K /\ m.node[y] = v.node[y]
      BY <1>13, <1>15
    <2>2. z \in K /\ v.node[z].type \in Bracket
      BY <1>14, <1>15, <2>1 DEF Bracket
    <2>3. z \in NodeId /\ g.node[z] = v.node[z]
      BY <1>8, <2>2
    <2>4. m.node[z] = v.node[z]
      BY <1>6, <2>2, <2>3
    <2>5. QED BY <2>1, <2>2, <2>4
  <1>16. BracketsPaired(m)
    <2> SUFFICES ASSUME NEW y \in NodeId, m.node[y].type \in Bracket
                 PROVE  LET z == m.node[y].jmp IN
                        /\ z \in NodeId /\ m.node[z].jmp = y
                        /\ m.node[y].type \in Openers => m.node[z].type \in Closers
                        /\ m.node[y].type \in Closers => m.node[z].type \in Openers
      BY DEF BracketsPaired
    <2>1. /\ y \in K /\ m.node[y] = v.node[y] /\ v.node[y].jmp \in K
          /\ m.node[v.node[y].jmp] = v.node[v.node[y].jmp]
      BY <1>15
    <2>2. QED BY <1>2, <1>14, <2>1
  <1>17. PICK low \in NodeId : \A y \in NodeId : r[low] <= r[y]
    <2>1. NodeId # {} /\ NodeId \in SUBSET NodeId
      <3>1. start \in NodeId
        BY <1>4
      <3>2. QED BY <3>1
    <2>2. QED BY <1>2, <2>1, Foremost
  <1> DEFINE q == [y \in NodeId |-> IF y \in K THEN r[y] - r[low] + MaxNode + 1 ELSE y]
  <1>18. /\ q \in [NodeId -> Int]
         /\ \A y \in K : q[y] = r[y] - r[low] + MaxNode + 1 /\ q[y] > MaxNode
         /\ \A y \in NodeId : y \notin K => q[y] = y
    <2>1. r[low] \in Int /\ MaxNode \in Int
      BY <1>2
    <2>2. ASSUME NEW y \in NodeId PROVE r[y] - r[low] + MaxNode + 1 \in Int /\ r[y] - r[low] + MaxNode + 1 > MaxNode
      <3>1. r[y] \in Int /\ r[low] <= r[y]
        BY <1>2, <1>17
      <3>2. QED BY <2>1, <3>1
    <2> DEFINE h(y) == r[y] - r[low] + MaxNode + 1
    <2>3. \A y \in NodeId : h(y) \in Int /\ h(y) > MaxNode
      BY <2>2
    <2>4. q = [y \in NodeId |-> IF y \in K THEN h(y) ELSE y]
      OBVIOUS
    <2> HIDE DEF h, q
    <2>5. /\ q \in [NodeId -> Int] /\ \A y \in K : q[y] = h(y) /\ q[y] > MaxNode
          /\ \A y \in NodeId : y \notin K => q[y] = y
      BY <1>2, <2>3, <2>4
    <2>6. QED BY <2>5 DEF h
  <1> HIDE DEF q
  <1>19. \A y, z \in K : q[y] < q[z] <=> r[y] < r[z]
    <2> SUFFICES ASSUME NEW y \in K, NEW z \in K PROVE q[y] < q[z] <=> r[y] < r[z]
      OBVIOUS
    <2>1. r[y] \in Int /\ r[z] \in Int /\ r[low] \in Int
      BY <1>2
    <2>2. q[y] = r[y] - r[low] + MaxNode + 1 /\ q[z] = r[z] - r[low] + MaxNode + 1
      BY <1>18
    <2>3. QED BY <2>1, <2>2
  <1>20. Ranks(m, q)
    <2>1. ASSUME NEW y \in NodeId, Live(m, y), m.next[y] # Null
          PROVE  q[y] < q[m.next[y]]
      <3>1. CASE y \in K
        <4>1. m.next[y] = v.next[y]
          BY <1>8, <3>1
        <4>2. v.next[y] \in K /\ r[y] < r[v.next[y]]
          BY <1>11, <2>1, <3>1, <4>1
        <4>3. QED BY <1>19, <3>1, <4>1, <4>2
      <3>2. CASE y \in B /\ y = end
        <4>1. m.next[y] = x /\ y \notin K /\ x \in K
          BY <1>2, <1>9, <2>1, <3>2
        <4>2. q[y] = y /\ q[x] > MaxNode /\ q[x] \in Int
          BY <1>2, <1>18, <4>1
        <4>3. QED BY <4>1, <4>2
      <3>3. CASE y \in B /\ y # end
        <4>1. m.next[y] = v.next[y] /\ y < v.next[y] /\ v.next[y] \in B /\ y \notin K
          BY <1>9, <3>3
        <4>2. v.next[y] \in NodeId /\ v.next[y] \notin K
          BY <1>9, <4>1
        <4>3. QED BY <1>18, <4>1, <4>2
      <3>4. QED BY <1>7, <2>1, <3>1, <3>2, <3>3
    <2>2. QED BY <1>18, <2>1 DEF Ranks
  <1>21. NestedBy(m, q)
    <2>1. ASSUME NEW y \in NodeId, m.node[y].type \in Openers
          PROVE  y \in K /\ m.node[y] = v.node[y] /\ v.node[y].jmp \in K /\ v.node[y].type \in Bracket
      BY <1>15, <2>1 DEF Bracket
    <2>2. ASSUME NEW y \in NodeId, m.node[y].type \in Openers
          PROVE  q[y] < q[m.node[y].jmp]
      BY <1>14, <1>19, <2>1, <2>2
    <2>3. ASSUME NEW y \in NodeId, m.node[y].type \in Openers, NEW z \in NodeId, m.node[z].type \in Openers,
                 q[y] < q[z], q[z] < q[m.node[y].jmp]
          PROVE  q[m.node[z].jmp] < q[m.node[y].jmp]
      <3>1. /\ y \in K /\ m.node[y] = v.node[y] /\ v.node[y].jmp \in K
            /\ z \in K /\ m.node[z] = v.node[z] /\ v.node[z].jmp \in K
        BY <2>1, <2>3
      <3>2. r[y] < r[z] /\ r[z] < r[v.node[y].jmp]
        BY <1>19, <2>3, <3>1
      <3>3. r[v.node[z].jmp] < r[v.node[y].jmp]
        BY <1>14, <2>3, <3>1, <3>2
      <3>4. QED BY <1>19, <3>1, <3>3
    <2>4. QED BY <2>2, <2>3 DEF NestedBy, Inside
  <1>22. Sound(m, q)
    BY <1>6, <1>12, <1>16, <1>20, <1>21 DEF Sound
  <1>23. DoublyLinked(g) /\ BracketsPaired(g) /\ Complete(g) /\ Nested(g)
    BY <1>5, <1>22, SkeletonWhole DEF m
  <1>24. \A y \in K : Live(m, y) /\ g.node[y] = v.node[y]
    BY <1>7, <1>8
  <1>25. g.next[IF y0 = Null THEN Null ELSE end] = x
    BY <1>5
  <1>26. \E p : Sound(m, p) /\ \A y, z \in K : r[y] < r[z] => p[y] < p[z]
    BY <1>19, <1>22
  <1>27. QED BY <1>5, <1>23, <1>24, <1>25, <1>26 DEF m, y0

(***************************************************************************)
(* The steps.                                                              *)
(***************************************************************************)
\* A tree that the pass is given is a pool with one list in it.
LEMMA Given ==
  ASSUME NEW t \in OptTrees
  PROVE  /\ Pool(t) /\ DoublyLinked(t)
         /\ \E r : Sound(Skeleton(t, {}), r) /\ MarksOutside(t, {}, r)
         /\ \A x \in NodeId : t.node[x].type # "SUSP"
  <1>1. /\ t \in Tree /\ WellFormed(t) /\ Complete(t) /\ Nested(t)
        /\ \A x \in NodeId : x > t.num => t.next[x] = Null
    BY OptAssumption
  <1>2. DoublyLinked(t) /\ BracketsPaired(t) /\ Unallocated(t)
    BY <1>1 DEF WellFormed
  <1>3. Pool(t)
    <2>1. \A x \in NodeId : x > t.num => t.node[x].type = "FREE"
      BY <1>2 DEF Unallocated, FreeNode, Blank
    <2>2. QED BY <1>1, <2>1 DEF Pool, Tree
  <1>4. PICK r : Places(t, r) /\ NestedBy(t, r)
    BY <1>1, <1>2, CompletePlaces
  <1> DEFINE m == Skeleton(t, {})
  <1>5. /\ m \in Tree /\ m.next = t.next /\ m.prev = t.prev
        /\ \A x : Live(m, x) <=> Live(t, x)
        /\ \A x \in NodeId : m.node[x].type \in Bracket <=> t.node[x].type \in Bracket
        /\ \A x \in NodeId : m.node[x].type \in Bracket => m.node[x] = t.node[x]
    BY <1>3, SkeletonParts
  <1> HIDE DEF m
  <1>6. DoublyLinked(m)
    BY <1>2, <1>5 DEF DoublyLinked
  <1>7. \A x \in NodeId : m.node[x].type \in Bracket =>
          /\ m.node[x] = t.node[x] /\ t.node[x].jmp \in NodeId
          /\ m.node[t.node[x].jmp] = t.node[t.node[x].jmp]
    <2> SUFFICES ASSUME NEW x \in NodeId, m.node[x].type \in Bracket
                 PROVE  /\ m.node[x] = t.node[x] /\ t.node[x].jmp \in NodeId
                        /\ m.node[t.node[x].jmp] = t.node[t.node[x].jmp]
      OBVIOUS
    <2>1. m.node[x] = t.node[x]
      BY <1>5
    <2>2. t.node[x].jmp \in NodeId /\ t.node[t.node[x].jmp].type \in Bracket
      BY <1>2, <2>1 DEF BracketsPaired, Bracket
    <2>3. QED BY <1>5, <2>1, <2>2
  <1>8. BracketsPaired(m)
    BY <1>2, <1>7 DEF BracketsPaired
  <1>9. Ranks(m, r)
    BY <1>4, <1>5 DEF Ranks, Places
  <1>10. NestedBy(m, r)
    BY <1>4, <1>7 DEF NestedBy, Inside, Bracket
  <1>11. MarksOutside(t, {}, r) /\ \A x \in NodeId : t.node[x].type # "SUSP"
    <2>1. "SUSP" \notin Token
      BY DEF Token, Bracket, Openers, Closers, Simple, Calc
    <2>2. \A x \in NodeId : t.node[x].type \in Token
      BY <1>1 DEF Tree, Node
    <2>3. QED BY <2>1, <2>2 DEF MarksOutside
  <1>12. QED BY <1>2, <1>3, <1>5, <1>6, <1>8, <1>9, <1>10, <1>11 DEF Sound, m

\* Before the run there is one list, the program.
LEMMA GrowingInit == Init => Growing
  BY DEF Init, Growing, ListSound, NothingLeftToRun, R!Machine, R!Null

\* A list that is whole as it stands.
LEMMA AlreadySound ==
  ASSUME tree \in OptTrees
  PROVE  LET t == Headed(tree) IN DoublyLinked(t) /\ BracketsPaired(t) /\ Complete(t) /\ Nested(t)
  <1>1. /\ tree \in Tree /\ Complete(tree) /\ Nested(tree) /\ DoublyLinked(tree) /\ BracketsPaired(tree)
    BY OptAssumption DEF WellFormed
  <1>2. tree.prev \in [NodeId -> Link] /\ tree.next[Null] \in Link
    BY <1>1 DEF Tree
  <1>3. tree.next[Null] # Null => tree.prev[tree.next[Null]] = Null
    BY <1>1 DEF DoublyLinked
  <1>4. SetPrev(tree.prev, tree.next[Null], Null) = tree.prev
    BY <1>2, <1>3 DEF SetPrev
  <1>5. [tree EXCEPT !.prev = tree.prev] = tree
    BY <1>1 DEF Tree
  <1>6. Headed(tree) = tree
    BY <1>4, <1>5 DEF Headed
  <1>7. QED BY <1>1, <1>6

\* No loop is open in front of the first node.
LEMMA Beginning ==
  ASSUME NEW m, NEW r, Sound(m, r), NEW h, h = m.next[Null], h # Null
  PROVE  /\ h \in NodeId /\ Live(m, h) /\ m.node[h].type \notin Closers
         /\ \A y \in NodeId : m.node[y].type \in Openers => ~(r[y] < r[h])
  <1>1. h \in NodeId /\ Live(m, h)
    BY DEF Sound, DoublyLinked, Live
  <1>2. ASSUME NEW y \in NodeId, m.node[y].type \in Openers PROVE ~(r[y] < r[h])
    <2> DEFINE w == Walk(m)
    <2>1. InOrder(m, r, w)
      BY Ordered
    <2> HIDE DEF w
    <2>2. /\ \A z \in NodeId : Live(m, z) => \E i \in 1 .. Len(w) : z = w[i]
          /\ \A i, j \in 1 .. Len(w) : r[w[i]] < r[w[j]] <=> i < j
          /\ 1 \in 1 .. Len(w) /\ w[1] = h
      BY <2>1 DEF InOrder
    <2>3. Live(m, y)
      BY <1>2 DEF Live, Openers
    <2>4. PICK i \in 1 .. Len(w) : y = w[i]
      BY <2>2, <2>3
    <2>5. ~(i < 1)
      OBVIOUS
    <2>6. QED BY <2>2, <2>4, <2>5
  <1>3. m.node[h].type \notin Closers
    <2> SUFFICES ASSUME m.node[h].type \in Closers PROVE FALSE
      OBVIOUS
    <2>1. LET y == m.node[h].jmp IN
          y \in NodeId /\ m.node[y].type \in Openers /\ r[y] < r[h]
      BY <1>1, Partners DEF Bracket
    <2>2. QED BY <1>2, <2>1
  <1>4. QED BY <1>1, <1>2, <1>3

\* try_opt_runner marks where to stop and begins the second list.
LEMMA TryKeepsGrowing ==
  ASSUME Growing, TryOptRunner
  PROVE  Growing'
  <1> DEFINE stops == {"INP", "INPI", "PRTI"}
             h == tree.next[Null]
             x == LastOutside(tree, h, 0, stops)
             t == Suspended(tree, x)
             s == t.num + 1
             m == Skeleton(tree, {})
  <1>1. phase = "try" /\ tree \in OptTrees /\ opt_run = NoRun /\ vm.n = h /\ vm' = vm
    BY DEF Growing, TryOptRunner
  <1>2. PICK r : Sound(m, r) /\ MarksOutside(tree, {}, r)
    BY <1>1, Given
  <1>3. Pool(tree) /\ DoublyLinked(tree) /\ \A z \in NodeId : tree.node[z].type # "SUSP"
    BY <1>1, Given
  <1>4. m \in Tree /\ m.next = tree.next /\ \A y : Live(m, y) <=> Live(tree, y)
    BY <1>3, SkeletonParts
  <1>5. ASSUME h # Null
        PROVE  /\ h \in NodeId /\ Live(m, h)
               /\ x # Null => x \in NodeId /\ Live(m, x) /\ OutsideLoops(m, r, x)
               /\ x # Null /\ tree.next[x] # Null => Held(tree, m, r, tree.next[x])
               /\ x = Null => Held(tree, m, r, h)
    <2>1. m = Skeleton(tree, {}) /\ Sound(m, r) /\ h = m.next[Null]
      BY <1>2, <1>4
    <2> HIDE DEF m, h
    <2>2. /\ h \in NodeId /\ Live(m, h) /\ m.node[h].type \notin Closers
          /\ \A y \in NodeId : m.node[y].type \in Openers => ~(r[y] < r[h])
      BY <1>5, <2>1, Beginning
    <2>3. \A y \in NodeId : m.node[y].type \in Openers /\ r[y] < r[h] => r[m.node[y].jmp] <= r[h]
      BY <2>2
    <2>4. 0 = IF m.node[h].type \in Closers THEN 1 ELSE 0
      BY <2>2
    <2>5. x = LastOutside(tree, h, 0, stops) /\ stops \subseteq Stoppers
      BY DEF Stoppers
    <2> HIDE DEF x, stops
    <2>6. x # Null => x \in NodeId /\ Live(m, x) /\ OutsideLoops(m, r, x)
      BY <1>3, <2>1, <2>2, <2>3, <2>4, <2>5, PlaceOutside
    <2>7. /\ x # Null /\ tree.next[x] # Null => Held(tree, m, r, tree.next[x])
          /\ x = Null => Held(tree, m, r, h)
      BY <1>3, <2>1, <2>2, <2>3, <2>4, <2>5, PlaceBlocked
    <2>8. QED BY <2>2, <2>6, <2>7
  <1>6. CASE x = Null
    <2>1. phase' = "over" /\ tree' = tree /\ opt_run' = opt_run
      BY <1>6 DEF TryOptRunner
    <2>2. ListSound'
      BY <1>1, <2>1, AlreadySound DEF ListSound, Headed
    <2>3. FirstLeft' = h
      BY <1>1, <2>1 DEF FirstLeft, NoRun
    <2>4. ASSUME h # Null PROVE Stopper(h) \/ HoldsStopper(h)
      <3>1. h \in NodeId /\ Live(m, h) /\ Held(tree, m, r, h)
        BY <1>5, <1>6, <2>4
      <3>2. tree.node[h].type \in Openers => tree.node[h].jmp \in NodeId /\ Live(m, tree.node[h].jmp)
        <4>1. tree.node[h].type \in Openers => m.node[h].type \in Bracket /\ m.node[h] = tree.node[h]
          BY <1>3, <3>1, SkeletonParts DEF Bracket
        <4>2. QED BY <1>2, <3>1, <4>1, Partners
      <3> HIDE DEF m, h
      <3>3. \/ tree.node[h].type \in Stoppers
            \/ LET w == Walk(tree) IN
               /\ tree.node[h].type \in Openers
               /\ \E i, j, k \in DOMAIN w :
                    i < j /\ j < k /\ w[i] = h /\ tree.node[w[j]].type \in Stoppers /\ w[k] = tree.node[h].jmp
        BY <1>2, <1>4, <3>1, <3>2, HeldInWalk
      <3>4. QED BY <3>3 DEF Stopper, HoldsStopper, Stoppers
    <2>5. Stopper(h)' = Stopper(h) /\ HoldsStopper(h)' = HoldsStopper(h)
      BY <2>1 DEF Stopper, HoldsStopper
    <2>6. NothingLeftToRun'
      BY <1>1, <2>1, <2>3, <2>4, <2>5 DEF NothingLeftToRun
    <2>7. QED BY <2>1, <2>2, <2>6 DEF Growing
  <1>7. CASE x # Null
    <2>1. /\ tree.num + 2 <= MaxNode
          /\ tree' = [t EXCEPT !.num = s, !.node[s] = Blank("NOP")]
          /\ opt_run' = [start |-> s, end |-> s]
          /\ phase' = "run"
      BY <1>7 DEF TryOptRunner, HasRoomFor
    <2>2. h # Null
      BY <1>7 DEF LastOutside
    <2>3. /\ h \in NodeId /\ Live(m, h)
          /\ x \in NodeId /\ Live(m, x) /\ OutsideLoops(m, r, x)
          /\ tree.next[x] # Null => Held(tree, m, r, tree.next[x])
      BY <1>5, <1>7, <2>2
    <2>4. tree.num \in Nat /\ tree.num + 1 <= MaxNode
      BY <2>1, <1>3 DEF Pool
    <2> HIDE DEF h, x
    <2> DEFINE q == Spread(r, x, t.num)
               mt == Skeleton(t, {})
    <2>5. /\ Pool(t) /\ t.num = tree.num + 1
          /\ Sound(mt, q) /\ MarksOutside(t, {}, q)
      BY <1>2, <1>3, <2>3, <2>4, Marking DEF m
    <2>6. Ahead(t, mt, q, h)
      <3>1. \A z \in NodeId : tree.node[z].type = "SUSP" => ~(r[h] <= r[z])
        BY <1>3
      <3>2. t = Suspended(tree, x) /\ m = Skeleton(tree, {}) /\ mt = Skeleton(t, {}) /\ q = Spread(r, x, t.num)
        OBVIOUS
      <3> HIDE DEF t, m, mt, q
      <3>3. QED BY <1>2, <1>3, <2>3, <2>4, <3>1, <3>2, MarkedAhead
    <2>7. s \in NodeId /\ s > t.num /\ t.node[s].type = "FREE" /\ t.next[s] = Null /\ t.num \in Nat
      <3>1. s \in NodeId /\ s > t.num /\ t.num \in Nat
        BY <2>1, <2>4, <2>5
      <3>2. QED BY <2>5, <3>1 DEF Pool
    <2> HIDE DEF t, q, s, m
    <2>8. /\ tree'.next = t.next /\ tree'.prev = t.prev /\ tree'.num = s
          /\ tree'.node = [t.node EXCEPT ![s] = Blank("NOP")]
          /\ DOMAIN tree' = {"next", "prev", "node", "num"}
      BY <2>1, <2>5 DEF Pool
    <2>9. DOMAIN t.node = NodeId /\ Blank("NOP").type = "NOP" /\ Blank("NOP") \in Node
      BY <2>5, BlankType DEF Pool, Blank, Token
    <2>10. tree'.node[s] = Blank("NOP") /\ \A y \in NodeId : y # s => tree'.node[y] = t.node[y]
      BY <2>7, <2>8, <2>9
    <2>11. Pool(tree')
      <3>1. s \in 0 .. MaxNode
        BY <2>7
      <3>2. \A y \in NodeId : y > s => y # s /\ y > t.num
        BY <2>7 DEF s
      <3>3. QED BY <2>5, <2>7, <2>8, <2>9, <2>10, <3>1, <3>2 DEF Pool
    <2> DEFINE v == Skeleton(tree', {s})
    <2>12. \A y \in NodeId : SkeletonNode(tree', {s}, y) = SkeletonNode(t, {}, y)
      BY <2>7, <2>10 DEF SkeletonNode
    <2>13. v \in Tree /\ v.node = mt.node /\ v.next = mt.next /\ v.prev = mt.prev
      <3>1. v \in Tree
        BY <2>11, SkeletonParts
      <3>2. QED BY <2>8, <2>12, <3>1 DEF Skeleton
    <2>14. Sound(v, q)
      BY <2>5, <2>13, SoundElsewhere
    <2>15. MarksOutside(tree', {s}, q)
      <3>1. ASSUME NEW y \in NodeId, tree'.node[y].type = "SUSP" PROVE OutsideLoops(v, q, y)
        <4>1. t.node[y].type = "SUSP"
          BY <2>9, <2>10, <3>1
        <4>2. OutsideLoops(mt, q, y)
          BY <2>5, <4>1 DEF MarksOutside
        <4> HIDE DEF v, mt
        <4>3. QED BY <2>13, <4>2 DEF OutsideLoops
      <3>2. QED BY <3>1 DEF MarksOutside
    <2>16. Grown(tree', {s}, s, s)
      BY <2>7, <2>8, <2>9, <2>10 DEF Grown, Bracket, Openers, Closers
    <2>17. TwoLists(tree', {s}, q, opt_run')
      BY <2>1, <2>11, <2>14, <2>15, <2>16 DEF TwoLists
    <2>18. Ahead(tree', v, q, h)
      <3>1. \A y : Live(mt, y) <=> Live(t, y)
        BY <2>5, SkeletonParts
      <3>2. \A y : Live(v, y) <=> Live(mt, y)
        BY <2>13 DEF Live
      <3>3. \A y \in NodeId : Live(mt, y) => Live(v, y) /\ tree'.node[y] = t.node[y] /\ tree'.next[y] = t.next[y]
        BY <2>7, <2>8, <2>10, <3>1, <3>2 DEF Live
      <3>4. \A z \in NodeId : tree'.node[z].type = "SUSP" => t.node[z].type = "SUSP" /\ Live(mt, z)
        BY <2>9, <2>10, <3>1 DEF Live
      <3>5. mt = Skeleton(t, {})
        OBVIOUS
      <3> HIDE DEF mt, v
      <3>6. QED BY <2>5, <2>6, <3>3, <3>4, <3>5, AheadKept
    <2>19. vm'.n = h
      BY <1>1
    <2>20. QED BY <2>1, <2>17, <2>18, <2>19 DEF Growing, ListSound, NothingLeftToRun
  <1>8. QED BY <1>6, <1>7

\* What leaves the nodes beside the program alone leaves their list alone.
LEMMA GrownKept ==
  ASSUME NEW t, NEW beside, NEW start, NEW end, Grown(t, beside, start, end),
         NEW u, t.num \in Int, u.num \in Int, t.num <= u.num,
         \A x \in beside : u.node[x] = t.node[x] /\ u.next[x] = t.next[x] /\ u.prev[x] = t.prev[x]
  PROVE  Grown(u, beside, start, end)
  <1>1. /\ beside \subseteq NodeId /\ start \in beside /\ end \in beside /\ t.next[end] = Null
        /\ \A x \in beside :
             /\ t.node[x].type \notin Bracket \cup {"FREE", "SUSP"}
             /\ start <= x /\ x <= end /\ x <= t.num
             /\ x # end   => t.next[x] \in beside /\ x < t.next[x] /\ t.prev[t.next[x]] = x
             /\ x # start => t.prev[x] \in beside /\ t.next[t.prev[x]] = x
    BY DEF Grown
  <1>2. ASSUME NEW x \in beside
        PROVE  /\ u.node[x].type \notin Bracket \cup {"FREE", "SUSP"}
               /\ start <= x /\ x <= end /\ x <= u.num
               /\ x # end   => u.next[x] \in beside /\ x < u.next[x] /\ u.prev[u.next[x]] = x
               /\ x # start => u.prev[x] \in beside /\ u.next[u.prev[x]] = x
    <2>1. x <= t.num /\ x \in Int
      BY <1>1
    <2>2. x <= u.num
      BY <2>1
    <2>3. QED BY <1>1, <2>2
  <1>3. QED BY <1>1, <1>2 DEF Grown

\* The nodes that print what was printed.
LEMMA RecordedNodes ==
  ASSUME NEW c
  PROVE  \E S : Recorded(c) \in Seq(S) /\ \A y \in S : Ordinary(y)
  <1> DEFINE S == {At("SET", c, 0), Blank("PRT"), At("CHR", c, 0), At("CHR", SChar(c), 0)}
  <1>1. \A tok : Blank(tok).type = tok
    BY DEF Blank
  <1>2. \A tok, v : At(tok, v, 0).type = tok
    BY <1>1 DEF At, Blank
  <1>3. \A y \in S : Ordinary(y)
    <2>1. ASSUME NEW y \in S PROVE y.type \in {"SET", "PRT", "CHR"}
      BY <1>1, <1>2
    <2>2. QED BY <2>1 DEF Ordinary, Bracket, Openers, Closers
  <1> DEFINE a == At("SET", c, 0)
             p == Blank("PRT")
             d == At("CHR", c, 0)
             e == At("CHR", SChar(c), 0)
  <1>4. a \in S /\ p \in S /\ d \in S /\ e \in S
    OBVIOUS
  <1>5. Recorded(c) \in {<<a, p>>, <<d>>, <<e>>}
    BY DEF Recorded
  <1>6. \A y \in S : Ordinary(y)
    BY <1>3
  <1> HIDE DEF S, a, p, d, e
  <1>7. <<a, p>> \in Seq(S) /\ <<d>> \in Seq(S) /\ <<e>> \in Seq(S)
    BY <1>4
  <1>8. QED BY <1>5, <1>6, <1>7

\* Nothing comes between a node and the next one.
LEMMA Adjacent ==
  ASSUME NEW m, NEW r, Sound(m, r), NEW n \in NodeId, Live(m, n), m.next[n] # Null,
         NEW y \in NodeId, Live(m, y)
  PROVE  /\ m.next[n] \in NodeId /\ Live(m, m.next[n]) /\ r[n] < r[m.next[n]]
         /\ r[y] < r[m.next[n]] => r[y] <= r[n]
         /\ r[y] = r[n] => y = n
         /\ r \in [NodeId -> Int]
  <1> DEFINE w == Walk(m)
  <1>1. InOrder(m, r, w)
    BY Ordered
  <1> HIDE DEF w
  <1>2. /\ \A i \in 1 .. Len(w) : w[i] \in NodeId /\ Live(m, w[i])
        /\ \A x \in NodeId : Live(m, x) => \E i \in 1 .. Len(w) : x = w[i]
        /\ \A i, j \in 1 .. Len(w) : r[w[i]] < r[w[j]] <=> i < j
        /\ \A i \in 1 .. Len(w) : m.next[w[i]] # Null => i + 1 \in 1 .. Len(w) /\ w[i + 1] = m.next[w[i]]
        /\ r \in [NodeId -> Int]
    BY <1>1 DEF InOrder
  <1>3. PICK i \in 1 .. Len(w) : n = w[i]
    BY <1>2
  <1>4. PICK j \in 1 .. Len(w) : y = w[j]
    BY <1>2
  <1>5. i + 1 \in 1 .. Len(w) /\ w[i + 1] = m.next[n]
    BY <1>2, <1>3
  <1>6. r[n] \in Int /\ r[y] \in Int /\ r[m.next[n]] \in Int /\ m.next[n] \in NodeId /\ Live(m, m.next[n])
    BY <1>2, <1>5
  <1>7. i \in Nat /\ j \in Nat
    OBVIOUS
  <1>8. r[n] < r[m.next[n]]
    BY <1>2, <1>3, <1>5, <1>7
  <1>9. ASSUME r[y] < r[m.next[n]] PROVE r[y] <= r[n]
    <2>1. j < i + 1
      BY <1>2, <1>4, <1>5, <1>9
    <2>2. ~(i < j)
      BY <1>7, <2>1
    <2>3. ~(r[n] < r[y])
      BY <1>2, <1>3, <1>4, <2>2
    <2>4. QED BY <1>6, <2>3
  <1>10. ASSUME r[y] = r[n] PROVE y = n
    <2>1. ~(i < j) /\ ~(j < i)
      BY <1>2, <1>3, <1>4, <1>6, <1>10
    <2>2. QED BY <1>3, <1>4, <1>7, <2>1
  <1>11. QED BY <1>2, <1>6, <1>8, <1>9, <1>10

\* Behind a mark every loop that was opened before has been closed.
LEMMA BehindMark ==
  ASSUME NEW m, NEW r, Sound(m, r), NEW n \in NodeId, Live(m, n), m.next[n] # Null, OutsideLoops(m, r, n),
         NEW y \in NodeId, m.node[y].type \in Openers, r[y] < r[m.next[n]]
  PROVE  r[m.node[y].jmp] <= r[n] /\ r[m.node[y].jmp] < r[m.next[n]]
  <1>1. Live(m, y) /\ m.node[y].jmp \in NodeId
    <2>1. m.node[y].type \in Bracket
      BY DEF Bracket
    <2>2. QED BY <2>1, Partners
  <1>2. /\ r[y] <= r[n] /\ r[n] < r[m.next[n]] /\ m.next[n] \in NodeId /\ r \in [NodeId -> Int]
    BY <1>1, Adjacent
  <1>3. ~(r[n] < r[m.node[y].jmp])
    BY <1>2 DEF OutsideLoops
  <1>4. r[n] \in Int /\ r[m.node[y].jmp] \in Int /\ r[m.next[n]] \in Int
    BY <1>1, <1>2
  <1>5. QED BY <1>2, <1>3, <1>4

\* The mark that has been met is part of the program.
LEMMA MarkMet ==
  ASSUME NEW t, NEW beside, NEW r, NEW o, TwoLists(t, beside, r, o), NEW n \in NodeId, t.node[n].type = "SUSP"
  PROVE  LET m == Skeleton(t, beside) IN
         /\ Live(m, n) /\ OutsideLoops(m, r, n) /\ m.next = t.next
         /\ t.next[n] # Null => t.next[n] \in NodeId /\ Live(m, t.next[n])
  <1> DEFINE m == Skeleton(t, beside)
  <1>1. Pool(t) /\ Sound(m, r) /\ MarksOutside(t, beside, r) /\ Grown(t, beside, o.start, o.end)
    BY DEF TwoLists
  <1>2. n \notin beside
    BY <1>1 DEF Grown
  <1>3. m.next = t.next /\ \A x : Live(m, x) <=> Live(t, x) /\ x \notin beside
    BY <1>1, SkeletonParts
  <1>4. Live(m, n)
    BY <1>2, <1>3 DEF Live
  <1>5. t.next[n] # Null => Live(m, t.next[n])
    BY <1>1, <1>3, <1>4 DEF Sound, DoublyLinked
  <1>6. OutsideLoops(m, r, n)
    BY <1>1 DEF MarksOutside
  <1>7. QED BY <1>3, <1>4, <1>5, <1>6 DEF Live

\* A turn of the run, back to the start of a loop or on, passes no mark but the
\* one that it stands before: no loop holds one.
LEMMA GoesAhead ==
  ASSUME NEW t, Pool(t), NEW beside, NEW r, NEW m, m = Skeleton(t, beside), Sound(m, r),
         MarksOutside(t, beside, r),
         NEW n \in NodeId, Ahead(t, m, r, n),
         NEW k, k = n \/ (t.node[n].type \in Bracket /\ k = t.node[n].jmp)
  PROVE  k \in NodeId /\ Ahead(t, m, r, k) /\ Ahead(t, m, r, t.next[k])
  <1>1. r \in [NodeId -> Int] /\ m.next = t.next
    BY SkeletonParts DEF Sound, Ranks
  <1>2. /\ Live(m, n)
        /\ \A z \in NodeId : t.node[z].type = "SUSP" /\ r[n] <= r[z] =>
             /\ t.next[z] # Null => Held(t, m, r, t.next[z])
             /\ \A z2 \in NodeId : t.node[z2].type = "SUSP" /\ r[n] <= r[z2] => z2 = z
    BY DEF Ahead
  <1>3. ASSUME NEW n2 \in NodeId, Live(m, n2),
               \A z \in NodeId : t.node[z].type = "SUSP" /\ r[n2] <= r[z] => r[n] <= r[z]
        PROVE  Ahead(t, m, r, n2)
    BY <1>2, <1>3 DEF Ahead
  <1>4. /\ k \in NodeId /\ Live(m, k)
        /\ \A z \in NodeId : t.node[z].type = "SUSP" /\ r[k] <= r[z] => r[n] <= r[z]
    <2>1. CASE k = n
      BY <1>2, <2>1
    <2>2. CASE k # n
      <3>1. n \notin beside /\ t.node[n].type \in Bracket /\ k = t.node[n].jmp
        BY <1>2, <2>2, SkeletonParts
      <3>2. m.node[n] = t.node[n] /\ m.node[n].type \in Bracket
        BY <3>1, SkeletonParts
      <3>3. /\ k \in NodeId /\ Live(m, k) /\ m.node[k].jmp = n
            /\ m.node[n].type \in Openers => r[n] < r[k]
            /\ m.node[n].type \in Closers => m.node[k].type \in Openers /\ r[k] < r[n]
        BY <3>1, <3>2, Partners
      <3>4. ASSUME NEW z \in NodeId, t.node[z].type = "SUSP", r[k] <= r[z]
            PROVE  r[n] <= r[z]
        <4>1. r[k] \in Int /\ r[z] \in Int /\ r[n] \in Int
          BY <1>1, <3>3
        <4>2. CASE m.node[n].type \in Openers
          BY <3>3, <3>4, <4>1, <4>2
        <4>3. CASE m.node[n].type \in Closers
          <5>1. OutsideLoops(m, r, z)
            BY <3>4 DEF MarksOutside
          <5>2. ~(r[k] <= r[z] /\ r[z] < r[m.node[k].jmp])
            BY <3>3, <4>3, <5>1 DEF OutsideLoops
          <5>3. QED BY <3>3, <3>4, <4>1, <5>2
        <4>4. QED BY <3>2, <4>2, <4>3 DEF Bracket
      <3>5. QED BY <3>3, <3>4
    <2>3. QED BY <2>1, <2>2
  <1>5. Ahead(t, m, r, k)
    BY <1>3, <1>4
  <1>6. CASE t.next[k] = Null
    BY <1>4, <1>5, <1>6 DEF Ahead
  <1>7. CASE t.next[k] # Null
    <2> DEFINE q == t.next[k]
    <2>1. q \in NodeId /\ Live(m, q) /\ r[k] < r[q]
      BY <1>1, <1>4, <1>7, Adjacent
    <2> HIDE DEF q
    <2>2. ASSUME NEW z \in NodeId, t.node[z].type = "SUSP", r[q] <= r[z]
          PROVE  r[n] <= r[z]
      <3>1. r[k] \in Int /\ r[q] \in Int /\ r[z] \in Int
        BY <1>1, <1>4, <2>1
      <3>2. r[k] <= r[z]
        BY <2>1, <2>2, <3>1
      <3>3. QED BY <1>4, <2>2, <3>2
    <2>3. Ahead(t, m, r, q)
      BY <1>3, <2>1, <2>2
    <2>4. QED BY <1>4, <1>5, <2>3 DEF q
  <1>8. QED BY <1>6, <1>7

\* On from a node, or nowhere.
LEMMA OnwardGoes ==
  ASSUME NEW t, NEW x, GoodMachine(x)
  PROVE  R!Onward(t, x).n \in {Null, x.n, t.next[x.n]}
  BY DEF R!Onward, R!Halted, GoodMachine, Fields

\* Where a turn of the run may leave it: before the node that it met or the other
\* bracket of its loop, behind one of them, or nowhere.
LEMMA StepGoes ==
  ASSUME GoodNodes(tree.node), GoodMachine(vm), vm.n \in NodeId,
         nd.type \in {"MOV", "ADD", "SET", "NOP", "CALC", "CALCMULT", "LT"} \cup Bracket
  PROVE  \E k : /\ k = vm.n \/ (nd.type \in Bracket /\ k = nd.jmp)
                /\ R!Step(tree, vm).n \in {Null, k, tree.next[k]}
  <1>1. \A m : GoodMachine(m) => R!Onward(tree, m).n \in {Null, m.n, tree.next[m.n]}
    BY OnwardGoes
  <1>2. SUFFICES GoodMachine(Executed) /\ (Executed.n = vm.n \/ (nd.type \in Bracket /\ Executed.n = nd.jmp))
    BY <1>1 DEF R!Step, Executed
  <1>3. Good(nd)
    BY DEF GoodNodes, nd
  <1>4. CASE nd.type = "MOV"
    <2>1. Executed = [vm EXCEPT !.p = @ + nd.count]
      BY <1>4, ExecMov DEF Executed, nd
    <2>2. QED BY <1>3, <1>4, <2>1 DEF GoodMachine, Fields, Good
  <1>5. CASE nd.type \in {"NOP"} \cup Bracket
    <2>1. Executed = vm \/ (nd.type \in Bracket /\ Executed = [vm EXCEPT !.n = nd.jmp])
      <3>1. CASE nd.type = "NOP"
        BY <3>1 DEF Executed, R!Exec, R!NodeOf, nd, R!Openers
      <3>2. CASE nd.type = "ENDIF"
        BY <3>2 DEF Executed, R!Exec, R!NodeOf, nd, R!Openers
      <3>3. CASE nd.type = "END"
        BY <3>3 DEF Executed, R!Exec, R!NodeOf, nd, R!Openers, Bracket, Closers
      <3>4. CASE nd.type \in Openers
        BY <3>4, SMTT(30) DEF Executed, R!Exec, R!NodeOf, nd, R!Openers, Bracket, Openers
      <3>5. QED BY <1>5, <3>1, <3>2, <3>3, <3>4 DEF Bracket, Closers
    <2>2. QED BY <2>1 DEF GoodMachine, Fields
  <1>6. CASE nd.type \in {"ADD", "SET", "CALC", "CALCMULT", "LT"}
    <2>1. PICK v : Executed = R!Put(vm, nd.offset, v)
      BY <1>6 DEF Executed, R!Exec, R!NodeOf, nd, R!Openers
    <2>2. QED BY <2>1 DEF R!Put, GoodMachine, Fields
  <1>7. QED BY <1>4, <1>5, <1>6

\* A turn that prints lengthens the second list.
LEMMA OutputKeepsGrowing ==
  ASSUME Growing, Noted, RunOutput
  PROVE  Growing'
  <1>1. PICK c : /\ tree.num + Len(Recorded(c)) <= MaxNode
                 /\ tree' = Chained(tree, opt_run.end, Recorded(c))
                 /\ opt_run' = [opt_run EXCEPT !.end = LastOf(tree, opt_run.end, Recorded(c))]
    BY DEF RunOutput, HasRoomFor
  <1>2. phase = "run" /\ phase' = "run"
    BY DEF RunOutput, Running
  <1>3. PICK beside, r : TwoLists(tree, beside, r, opt_run) /\ Ahead(tree, Skeleton(tree, beside), r, vm.n)
    BY <1>2 DEF Growing
  <1> DEFINE s == Recorded(c)
             b == beside \cup Taken(tree, s)
             m == Skeleton(tree, beside)
             v == Skeleton(tree', b)
  <1>4. /\ Pool(tree) /\ Sound(m, r) /\ MarksOutside(tree, beside, r)
        /\ Grown(tree, beside, opt_run.start, opt_run.end)
        /\ opt_run = [start |-> opt_run.start, end |-> opt_run.end]
    BY <1>3 DEF TwoLists
  <1>5. PICK S : s \in Seq(S) /\ \A y \in S : Ordinary(y)
    BY RecordedNodes
  <1> HIDE DEF s
  <1>6. /\ Pool(tree')
        /\ Grown(tree', b, opt_run.start, LastOf(tree, opt_run.end, s))
        /\ \A x \in NodeId : x \notin b => tree'.node[x] = tree.node[x] /\ tree'.prev[x] = tree.prev[x]
        /\ \A x \in Link : x \notin b => tree'.next[x] = tree.next[x]
    <2>1. tree.num + Len(s) <= MaxNode /\ tree' = Chained(tree, opt_run.end, s)
      BY <1>1 DEF s
    <2> DEFINE u == Chained(tree, opt_run.end, s)
    <2>2. /\ Pool(u)
          /\ Grown(u, beside \cup Taken(tree, s), opt_run.start, LastOf(tree, opt_run.end, s))
          /\ Untouched(tree, u, beside \cup Taken(tree, s))
      BY <1>4, <1>5, <2>1, Lengthened
    <2>3. u = tree'
      BY <2>1
    <2> HIDE DEF u
    <2>4. QED BY <2>2, <2>3 DEF Untouched
  <1>7. opt_run' = [start |-> opt_run.start, end |-> LastOf(tree, opt_run.end, s)]
    BY <1>1, <1>4 DEF s
  <1>8. \A y \in Taken(tree, s) : y \in NodeId /\ tree.node[y].type = "FREE"
    <2>1. ASSUME NEW y \in Taken(tree, s) PROVE y \in NodeId /\ y > tree.num
      BY DEF Taken
    <2>2. QED BY <1>4, <2>1 DEF Pool
  <1>9. \A y \in NodeId : SkeletonNode(tree', b, y) = SkeletonNode(tree, beside, y)
    BY <1>6, <1>8 DEF SkeletonNode
  <1>10. v \in Tree /\ v.node = m.node /\ v.next = tree'.next /\ v.prev = tree'.prev
    <2>1. v \in Tree
      BY <1>6, SkeletonParts
    <2>2. QED BY <1>9, <2>1 DEF Skeleton
  <1>11. /\ m.next = tree.next /\ m.prev = tree.prev
         /\ \A x : Live(m, x) <=> Live(tree, x) /\ x \notin beside
    BY <1>4, SkeletonParts
  <1>12. \A x : Live(m, x) => x \in NodeId /\ x \notin b
    BY <1>8, <1>11 DEF Live
  <1>13. Null \notin b
    BY <1>4, <1>8 DEF Grown
  <1> HIDE DEF m, v, b
  <1>14. Sound(v, r)
    BY <1>4, <1>6, <1>10, <1>11, <1>12, <1>13, SoundElsewhere
  <1>15. MarksOutside(tree', b, r)
    <2>1. ASSUME NEW x \in NodeId, tree'.node[x].type = "SUSP" PROVE OutsideLoops(v, r, x)
      <3>1. x \notin b
        BY <1>6, <2>1 DEF Grown
      <3>2. OutsideLoops(m, r, x)
        BY <1>4, <1>6, <2>1, <3>1 DEF MarksOutside, m
      <3>3. QED BY <1>10, <3>2 DEF OutsideLoops
    <2>2. QED BY <2>1 DEF MarksOutside, v
  <1>16. TwoLists(tree', b, r, opt_run')
    BY <1>6, <1>7, <1>14, <1>15 DEF TwoLists, v
  <1>17. Ahead(tree, m, r, vm'.n)
    <2>1. vm'.n \in {Null, vm.n, tree.next[vm.n]} /\ vm.n \in NodeId
      BY <1>2, OnwardGoes DEF RunOutput, Running, Noted
    <2>2. Ahead(tree, m, r, vm.n) /\ m = Skeleton(tree, beside)
      BY <1>3 DEF m
    <2>3. Ahead(tree, m, r, tree.next[vm.n])
      BY <1>4, <2>1, <2>2, GoesAhead DEF m
    <2>4. QED BY <2>1, <2>2, <2>3 DEF Ahead
  <1>18. Ahead(tree', v, r, vm'.n)
    <2>1. \A y \in NodeId : Live(m, y) => Live(v, y) /\ tree'.node[y] = tree.node[y] /\ tree'.next[y] = tree.next[y]
      <3>1. \A y : Live(v, y) <=> Live(m, y)
        BY <1>10 DEF Live
      <3>2. QED BY <1>6, <1>12, <3>1
    <2>2. \A z \in NodeId : tree'.node[z].type = "SUSP" => tree.node[z].type = "SUSP" /\ Live(m, z)
      <3>1. ASSUME NEW z \in NodeId, tree'.node[z].type = "SUSP" PROVE z \notin b
        BY <1>6, <3>1 DEF Grown
      <3>2. beside \subseteq b
        BY DEF b
      <3>3. QED BY <1>6, <1>11, <3>1, <3>2 DEF Live
    <2>3. m = Skeleton(tree, beside)
      BY DEF m
    <2> DEFINE n == vm'.n
    <2>4. Ahead(tree, m, r, n)
      BY <1>17
    <2> HIDE DEF n
    <2>5. Ahead(tree', v, r, n)
      BY <1>4, <2>1, <2>2, <2>3, <2>4, AheadKept
    <2>6. QED BY <2>5 DEF n
  <1>19. QED BY <1>2, <1>16, <1>18 DEF Growing, ListSound, NothingLeftToRun, v

\* The mark is moved past a loop that is not entered.
LEMMA MoveKeepsGrowing ==
  ASSUME Growing, Noted, phase = "run", vm.n \in NodeId, nd.type = "SUSP",
         NEW x, x = tree.next[vm.n], Dead(x), MoveSuspension(x)
  PROVE  Growing'
  <1>1. PICK beside, r : TwoLists(tree, beside, r, opt_run) /\ Ahead(tree, Skeleton(tree, beside), r, vm.n)
    BY DEF Growing
  <1> DEFINE m     == Skeleton(tree, beside)
             n     == vm.n
             j     == m.node[x].jmp
             stops == {"INP", "INPI", "STOP"}
             p     == LastOutside(tree, j, 1, stops)
             q     == Spread(r, p, tree'.num)
  <1>2. /\ Pool(tree) /\ Sound(m, r) /\ MarksOutside(tree, beside, r)
        /\ Grown(tree, beside, opt_run.start, opt_run.end)
        /\ opt_run = [start |-> opt_run.start, end |-> opt_run.end]
    BY <1>1 DEF TwoLists
  <1>3. /\ x \in NodeId /\ Live(m, x) /\ m.next[n] = x
        /\ Live(m, n) /\ OutsideLoops(m, r, n) /\ m.next = tree.next
    <2>1. tree.next[n] # Null /\ tree.node[n].type = "SUSP"
      BY DEF Dead, nd
    <2>2. QED BY <1>1, <2>1, MarkMet
  <1>4. m.node[x].type \in Openers /\ m.node[x] = tree.node[x]
    <2>1. x \notin beside
      BY <1>2, <1>3, SkeletonParts
    <2>2. tree.node[x].type \in Openers /\ tree.node[x].type \in Bracket
      BY DEF Dead, Bracket
    <2>3. QED BY <1>2, <1>3, <2>1, <2>2, SkeletonParts
  <1>5. /\ tree.num + 1 <= MaxNode /\ tree' = Suspended(tree, p)
        /\ opt_run' = opt_run /\ phase' = "run" /\ vm'.n = x
    <2>1. "n" \in DOMAIN vm
      BY DEF Noted, GoodMachine, Fields
    <2>2. QED BY <1>4, <2>1 DEF MoveSuspension, HasRoomFor
  <1>6. \A y : Live(m, y) <=> Live(tree, y) /\ y \notin beside
    BY <1>2, SkeletonParts
  <1> HIDE DEF m
  <1>7. j \in NodeId /\ Live(m, j) /\ m.node[j].type \in Closers /\ r[x] < r[j]
    <2>1. m.node[x].type \in Bracket
      BY <1>4 DEF Bracket
    <2>2. QED BY <1>2, <1>3, <1>4, <2>1, Partners
  <1>8. InOrder(m, r, Walk(m)) /\ r \in [NodeId -> Int]
    BY <1>2, Ordered DEF Sound, Ranks
  <1>9. ASSUME NEW y \in NodeId, m.node[y].type \in Openers, r[y] < r[j]
        PROVE  r[m.node[y].jmp] <= r[j]
    <2>1. Live(m, y) /\ m.node[y].jmp \in NodeId
      <3>1. m.node[y].type \in Bracket
        BY <1>9 DEF Bracket
      <3>2. QED BY <1>2, <3>1, Partners
    <2>2. r[y] \in Int /\ r[x] \in Int /\ r[j] \in Int /\ r[m.node[y].jmp] \in Int
      BY <1>3, <1>7, <1>8, <2>1
    <2>3. CASE r[x] < r[y]
      <3>1. Inside(m, r, x, y)
        BY <1>9, <2>3 DEF Inside
      <3>2. r[m.node[y].jmp] < r[j]
        BY <1>2, <1>3, <1>4, <1>9, <3>1 DEF Sound, NestedBy
      <3>3. QED BY <2>2, <3>2
    <2>4. CASE r[y] < r[x]
      <3>1. r[m.node[y].jmp] < r[x]
        BY <1>2, <1>3, <1>9, <2>4, BehindMark
      <3>2. r[x] < r[j]
        BY <1>7
      <3> DEFINE k == m.node[y].jmp
      <3>3. r[k] < r[x] /\ r[k] \in Int
        BY <2>2, <3>1
      <3> HIDE DEF j, k
      <3>4. r[k] <= r[j]
        BY <2>2, <3>2, <3>3
      <3>5. QED BY <3>4 DEF k
    <2>5. CASE ~(r[x] < r[y]) /\ ~(r[y] < r[x])
      <3> DEFINE w == Walk(m)
      <3> HIDE DEF w
      <3>1. /\ \A z \in NodeId : Live(m, z) => \E i \in 1 .. Len(w) : z = w[i]
            /\ \A i, k \in 1 .. Len(w) : r[w[i]] < r[w[k]] <=> i < k
        BY <1>8 DEF InOrder, w
      <3>2. PICK i \in 1 .. Len(w) : x = w[i]
        BY <1>3, <3>1
      <3>3. PICK k \in 1 .. Len(w) : y = w[k]
        BY <2>1, <3>1
      <3>4. ~(i < k) /\ ~(k < i)
        BY <2>5, <3>1, <3>2, <3>3
      <3>5. x = y
        BY <3>2, <3>3, <3>4
      <3>6. QED BY <2>2, <3>5
    <2>6. QED BY <2>3, <2>4, <2>5
  <1>10. /\ p \in NodeId /\ Live(m, p) /\ OutsideLoops(m, r, p)
         /\ tree.next[p] # Null => Held(tree, m, r, tree.next[p])
    <2>1. stops \cap Closers = {}
      BY DEF Closers
    <2>2. 1 = IF m.node[j].type \in Closers THEN 1 ELSE 0
      BY <1>7
    <2>3. m = Skeleton(tree, beside) /\ stops \subseteq Stoppers
      BY DEF m, Stoppers
    <2> HIDE DEF j, stops
    <2>4. p = LastOutside(tree, j, 1, stops)
      OBVIOUS
    <2> HIDE DEF p
    <2>5. p \in NodeId /\ Live(m, p) /\ OutsideLoops(m, r, p)
      BY <1>2, <1>7, <1>9, <2>1, <2>2, <2>3, <2>4, PlaceOutside
    <2>6. p # Null
      BY <2>5
    <2>7. tree.next[p] # Null => Held(tree, m, r, tree.next[p])
      BY <1>2, <1>7, <1>9, <2>2, <2>3, <2>4, <2>6, PlaceBlocked
    <2>8. QED BY <2>5, <2>7
  <1> HIDE DEF p
  <1>11. \A y \in beside : y \in NodeId /\ y <= tree.num /\ tree.num \in Nat
    BY <1>2 DEF Grown, Pool
  <1>12. /\ Pool(tree') /\ tree'.num = tree.num + 1
         /\ Sound(Skeleton(tree', beside), q) /\ MarksOutside(tree', beside, q)
         /\ \A y \in NodeId : y # tree'.num => tree'.node[y] = tree.node[y]
         /\ \A y \in beside : tree'.next[y] = tree.next[y] /\ (y # tree.next[p] => tree'.prev[y] = tree.prev[y])
    <2> DEFINE u == Suspended(tree, p)
    <2>1. beside \subseteq NodeId /\ \A y \in beside : y <= tree.num
      BY <1>11
    <2>2. /\ Pool(u) /\ u.num = tree.num + 1
          /\ Sound(Skeleton(u, beside), Spread(r, p, u.num)) /\ MarksOutside(u, beside, Spread(r, p, u.num))
          /\ \A y \in NodeId : y # u.num => u.node[y] = tree.node[y]
          /\ \A y \in beside : u.next[y] = tree.next[y] /\ (y # tree.next[p] => u.prev[y] = tree.prev[y])
      BY <1>2, <1>5, <1>10, <2>1, Marking DEF m
    <2>3. u = tree'
      BY <1>5
    <2> HIDE DEF u
    <2>4. QED BY <2>2, <2>3
  <1>13. tree.next[p] \notin beside
    <2>1. CASE tree.next[p] = Null
      BY <1>11, <2>1
    <2>2. CASE tree.next[p] # Null
      BY <1>2, <1>3, <1>6, <1>10, <2>2 DEF Sound, DoublyLinked
    <2>3. QED BY <2>1, <2>2
  <1>14. \A y \in beside : tree'.node[y] = tree.node[y] /\ tree'.next[y] = tree.next[y] /\ tree'.prev[y] = tree.prev[y]
    BY <1>11, <1>12, <1>13
  <1>15. tree.num \in Int /\ tree'.num \in Int /\ tree.num <= tree'.num
    BY <1>2, <1>12 DEF Pool
  <1>16. Grown(tree', beside, opt_run.start, opt_run.end)
    BY <1>2, <1>14, <1>15, GrownKept
  <1>17. TwoLists(tree', beside, q, opt_run')
    BY <1>2, <1>5, <1>12, <1>16 DEF TwoLists
  <1>18. \A z \in NodeId : tree.node[z].type = "SUSP" => ~(r[x] <= r[z])
    <2> SUFFICES ASSUME NEW z \in NodeId, tree.node[z].type = "SUSP", r[x] <= r[z] PROVE FALSE
      OBVIOUS
    <2>1. n \in NodeId /\ r[n] < r[x]
      BY <1>2, <1>3, Adjacent
    <2>2. r[n] \in Int /\ r[x] \in Int /\ r[z] \in Int
      BY <1>3, <1>8, <2>1
    <2>3. r[n] <= r[z] /\ r[n] <= r[n]
      BY <2>1, <2>2
    <2>4. Ahead(tree, m, r, n) /\ n # Null /\ tree.node[n].type = "SUSP"
      BY <1>1, <2>1 DEF m, nd
    <2>5. z = n
      BY <2>1, <2>3, <2>4 DEF Ahead
    <2>6. QED BY <2>1, <2>2, <2>5
  <1>19. Ahead(tree', Skeleton(tree', beside), q, x)
    <2> DEFINE u == Suspended(tree, p)
               v == Skeleton(u, beside)
    <2>1. m = Skeleton(tree, beside)
      BY DEF m
    <2>2. u = tree'
      BY <1>5
    <2> HIDE DEF u
    <2>3. u = Suspended(tree, p)
      BY DEF u
    <2>4. v = Skeleton(u, beside)
      OBVIOUS
    <2> HIDE DEF v
    <2>5. Ahead(u, v, Spread(r, p, u.num), x)
      BY <1>2, <1>3, <1>5, <1>10, <1>18, <2>1, <2>3, <2>4, MarkedAhead
    <2>6. QED BY <2>2, <2>4, <2>5
  <1>20. QED BY <1>5, <1>17, <1>19 DEF Growing, ListSound, NothingLeftToRun

\* The prefix gives way to the list beside it, lengthened by s.
LEMMA PrefixReplaced ==
  ASSUME NEW t, NEW beside, NEW r, NEW o, TwoLists(t, beside, r, o),
         NEW m, m = Skeleton(t, beside), NEW x \in Link, x = Null \/ Live(m, x),
         x # Null => \A y \in NodeId : m.node[y].type \in Openers /\ r[y] < r[x] => r[m.node[y].jmp] < r[x],
         NEW S, \A y \in S : Ordinary(y), NEW s, s \in Seq(S), t.num + Len(s) <= MaxNode,
         NEW u, u = WithoutPrefix(t, x), NEW v, v = Chained(u, o.end, s),
         NEW g, g = Headed(Joined(WithoutNop(v, o.start), v.next[o.start], LastOf(t, o.end, s)))
  PROVE  /\ DoublyLinked(g) /\ BracketsPaired(g) /\ Complete(g) /\ Nested(g)
         /\ \E q : Sound(Skeleton(g, {}), q) /\ \A y, z \in FromOn(m, r, x) : r[y] < r[z] => q[y] < q[z]
         /\ \A y \in FromOn(m, r, x) : Live(Skeleton(g, {}), y) /\ g.node[y] = t.node[y]
         /\ Pool(g)
         /\ g.next[IF v.next[o.start] = Null THEN Null ELSE LastOf(t, o.end, s)] = x
  <1> DEFINE K == FromOn(m, r, x)
             b == beside \cup Taken(u, s)
  <1>1. Pool(t) /\ Sound(m, r) /\ Grown(t, beside, o.start, o.end)
    BY DEF TwoLists
  <1>2. /\ Pool(u) /\ u.num = t.num /\ u.next[Null] = x
        /\ \A y \in NodeId : Live(m, y) /\ y \notin K => u.node[y] = FreeNode
        /\ \A y \in NodeId : ~Live(m, y) \/ y \in K =>
             u.node[y] = t.node[y] /\ u.next[y] = t.next[y] /\ u.prev[y] = t.prev[y]
    BY <1>1, Cutting
  <1>3. \A y : Live(m, y) <=> Live(t, y) /\ y \notin beside
    BY <1>1, SkeletonParts
  <1>4. v = Chained(u, o.end, s)
    OBVIOUS
  <1>5. Grown(u, beside, o.start, o.end)
    <2>1. beside \subseteq NodeId
      BY <1>1 DEF Grown
    <2>2. \A y \in beside : u.node[y] = t.node[y] /\ u.next[y] = t.next[y] /\ u.prev[y] = t.prev[y]
      BY <1>2, <1>3, <2>1
    <2>3. t.num \in Int /\ u.num \in Int /\ t.num <= u.num
      BY <1>1, <1>2 DEF Pool
    <2>4. QED BY <1>1, <2>2, <2>3, GrownKept
  <1>6. u.num + Len(s) <= MaxNode
    BY <1>2
  <1>7. /\ Pool(v)
        /\ Grown(v, b, o.start, LastOf(u, o.end, s))
        /\ \A y \in NodeId : y \notin b => v.node[y] = u.node[y] /\ v.prev[y] = u.prev[y]
        /\ \A y \in Link : y \notin b => v.next[y] = u.next[y]
    <2>1. s \in Seq(S) /\ \A y \in S : Ordinary(y)
      OBVIOUS
    <2>2. Pool(u)
      BY <1>2
    <2> DEFINE a == o.start
               e == o.end
               c == Chained(u, e, s)
    <2>3. Grown(u, beside, a, e) /\ c = v
      BY <1>4, <1>5
    <2> HIDE DEF a, e
    <2>4. /\ Pool(c)
          /\ Grown(c, beside \cup Taken(u, s), a, LastOf(u, e, s))
          /\ Untouched(u, c, beside \cup Taken(u, s))
      BY <1>6, <2>1, <2>2, <2>3, Lengthened
    <2> HIDE DEF c
    <2>5. QED BY <2>3, <2>4 DEF a, e, Untouched
  <1>8. LastOf(u, o.end, s) = LastOf(t, o.end, s)
    BY <1>2 DEF LastOf
  <1>9. \A y \in NodeId : Live(m, y) => y \notin b
    <2>1. ASSUME NEW y \in Taken(u, s) PROVE ~Live(t, y)
      <3>1. y \in NodeId /\ y > t.num
        BY <1>2, <2>1 DEF Taken
      <3>2. QED BY <1>1, <3>1 DEF Pool, Live
    <2>2. QED BY <1>3, <2>1
  <1>10. K \subseteq NodeId /\ \A y \in K : Live(m, y)
    BY DEF FromOn
  <1>11. Null \notin b /\ v.next[Null] = x
    <2>1. Null \notin b
      BY <1>1 DEF Grown, Taken
    <2>2. QED BY <1>2, <1>7, <2>1
  <1>12. \A y \in NodeId : Live(v, y) => y \in K \cup b
    <2>1. ASSUME NEW y \in NodeId, y \notin K, y \notin b PROVE ~Live(v, y)
      <3>1. v.node[y] = u.node[y] /\ y \notin beside
        BY <1>7, <2>1
      <3>2. CASE Live(m, y)
        <4>1. u.node[y] = FreeNode
          BY <1>2, <2>1, <3>2
        <4>2. FreeNode.type = "FREE"
          BY DEF FreeNode, Blank
        <4>3. QED BY <3>1, <4>1, <4>2 DEF Live
      <3>3. CASE ~Live(m, y)
        <4>1. ~Live(t, y) /\ u.node[y] = t.node[y]
          BY <1>2, <1>3, <3>1, <3>3
        <4>2. QED BY <3>1, <4>1 DEF Live
      <3>4. QED BY <3>2, <3>3
    <2>2. QED BY <2>1
  <1> HIDE DEF b, K
  <1>13. \A y \in K : v.node[y] = t.node[y] /\ v.next[y] = t.next[y] /\ v.prev[y] = t.prev[y]
    BY <1>2, <1>7, <1>9, <1>10
  <1>14. Remnant(v, K, x, r)
    BY <1>1, <1>13, Remaining DEF K
  <1>15. K \cap b = {}
    BY <1>9, <1>10
  <1>16. g = Headed(Joined(WithoutNop(v, o.start), v.next[o.start], LastOf(u, o.end, s)))
    BY <1>8
  <1> DEFINE e == LastOf(u, o.end, s)
  <1>17. /\ DoublyLinked(g) /\ BracketsPaired(g) /\ Complete(g) /\ Nested(g)
         /\ \E q : Sound(Skeleton(g, {}), q) /\ \A y, z \in K : r[y] < r[z] => q[y] < q[z]
         /\ \A y \in K : Live(Skeleton(g, {}), y) /\ g.node[y] = v.node[y]
         /\ Pool(g)
         /\ g.next[IF v.next[o.start] = Null THEN Null ELSE e] = x
    <2>1. Grown(v, b, o.start, e) /\ g = Headed(Joined(WithoutNop(v, o.start), v.next[o.start], e))
      BY <1>7, <1>16
    <2> HIDE DEF b, K, e
    <2>2. QED BY <1>7, <1>11, <1>12, <1>14, <1>15, <2>1, Replaced
  <1> HIDE DEF b, K, e
  <1>18. \A y \in K : g.node[y] = t.node[y]
    BY <1>13, <1>17
  <1>19. \A y \in K : Live(Skeleton(g, {}), y) /\ g.node[y] = t.node[y]
    BY <1>17, <1>18, Zenon
  <1>20. g.next[IF v.next[o.start] = Null THEN Null ELSE LastOf(t, o.end, s)] = x
    BY <1>8, <1>17 DEF e
  <1>21. QED BY <1>17, <1>19, <1>20 DEF K

\* The nodes that set up the tape.
LEMMA TapeNodes ==
  ASSUME NEW lo \in Int, NEW hi \in Int
  PROVE  \E S : CellsAsCode(lo .. hi) \in Seq(S) /\ \A y \in S : Ordinary(y)
  <1> DEFINE cells  == {a \in lo .. hi : UM(R!Cell(vm.tape, a)) # 0}
             nth(i) == CHOOSE a \in cells : Cardinality({b \in cells : b <= a}) = i
             set(a) == LET v == R!Cell(vm.tape, a) IN At("SET", IF CellBits = 8 THEN UM(v) ELSE SM(v), a)
             n      == Cardinality(cells)
             node(i) == set(nth(i))
             S      == {node(i) : i \in 1 .. n}
  <1>1. n \in Nat
    <2>1. IsFiniteSet(lo .. hi)
      BY FS_Interval
    <2>2. cells \subseteq lo .. hi
      OBVIOUS
    <2> HIDE DEF cells
    <2>3. QED BY <2>1, <2>2, FS_Subset, FS_CardinalityType
  <1>2. CellsAsCode(lo .. hi) = [i \in 1 .. n |-> node(i)]
    BY DEF CellsAsCode
  <1>3. \A y \in S : Ordinary(y)
    <2>1. \A c, a : At("SET", c, a).type = "SET"
      BY DEF At, Blank
    <2>2. ASSUME NEW a PROVE set(a).type = "SET"
      BY <2>1
    <2> HIDE DEF nth, set, n
    <2>3. \A y \in S : y.type = "SET"
      BY <2>2
    <2>4. QED BY <2>3 DEF Ordinary, Bracket, Openers, Closers
  <1> HIDE DEF n, nth, set, node
  <1>4. [i \in 1 .. n |-> node(i)] \in Seq(S)
    BY <1>1
  <1>5. QED BY <1>2, <1>3, <1>4

\* Two sequences of ordinary nodes, one behind the other.
LEMMA OrdinaryBehind ==
  ASSUME NEW s, \E S : s \in Seq(S) /\ \A y \in S : Ordinary(y),
         NEW q, \E S : q \in Seq(S) /\ \A y \in S : Ordinary(y)
  PROVE  \E S : s \o q \in Seq(S) /\ \A y \in S : Ordinary(y)
  <1>1. PICK S : s \in Seq(S) /\ \A y \in S : Ordinary(y)
    OBVIOUS
  <1>2. PICK Q : q \in Seq(Q) /\ \A y \in Q : Ordinary(y)
    OBVIOUS
  <1>3. s \in Seq(S \cup Q) /\ q \in Seq(S \cup Q)
    BY <1>1, <1>2
  <1>4. s \o q \in Seq(S \cup Q)
    BY <1>3
  <1>5. \A y \in S \cup Q : Ordinary(y)
    BY <1>1, <1>2
  <1>6. QED BY <1>4, <1>5

\* One node is a sequence of nodes,
LEMMA OrdinaryOne ==
  ASSUME NEW x, Ordinary(x)
  PROVE  \E S : <<x>> \in Seq(S) /\ \A y \in S : Ordinary(y)
  <1> DEFINE T == {x}
  <1>1. <<x>> \in Seq(T) /\ \A y \in T : Ordinary(y)
    OBVIOUS
  <1> HIDE DEF T
  <1>2. QED BY <1>1

\* and so is none.
LEMMA OrdinaryNone == \E S : <<>> \in Seq(S) /\ \A y \in S : Ordinary(y)
  <1> DEFINE T == {}
  <1>1. <<>> \in Seq(T) /\ \A y \in T : Ordinary(y)
    OBVIOUS
  <1> HIDE DEF T
  <1>2. QED BY <1>1

\* The code for the tape and the pointer is made of ordinary nodes.
LEMMA TapeAndPointer ==
  ASSUME NEW pr, GoodProfile(pr)
  PROVE  \E S : TapeAsCode(pr) \o PointerAsCode \in Seq(S) /\ \A y \in S : Ordinary(y)
  <1>1. \E S : TapeAsCode(pr) \in Seq(S) /\ \A y \in S : Ordinary(y)
    BY TapeNodes DEF TapeAsCode, GoodProfile
  <1>2. \E S : PointerAsCode \in Seq(S) /\ \A y \in S : Ordinary(y)
    <2>1. At("MOV", vm.p, 0).type = "MOV"
      BY DEF At, Blank
    <2>2. Ordinary(At("MOV", vm.p, 0))
      BY <2>1 DEF Ordinary, Bracket, Openers, Closers
    <2>3. CASE vm.p = 0
      BY <2>3, OrdinaryNone DEF PointerAsCode
    <2>4. CASE vm.p # 0
      BY <2>2, <2>4, OrdinaryOne DEF PointerAsCode
    <2>5. QED BY <2>3, <2>4
  <1>3. QED BY <1>1, <1>2, OrdinaryBehind

\* The prefix is replaced, and the list is whole.
LEMMA ReplaceKeepsGrowing ==
  ASSUME Growing, Noted, phase = "run", vm.n \in NodeId, NEW x, ~Dead(x),
         (nd.type = "SUSP" /\ x = tree.next[vm.n]) \/ (nd.type = "STOP" /\ x = vm.n),
         NEW pr, GoodProfile(pr), ReplacePrefix(x, pr)
  PROVE  Growing'
  <1> DEFINE stop  == x # Null /\ tree.node[x].type = "STOP"
             rest  == IF stop THEN Null ELSE x
             code  == IF stop THEN <<Blank("STOP")>>
                      ELSE IF rest = Null THEN <<>>
                      ELSE TapeAsCode(pr) \o PointerAsCode
             empty == tree.next[opt_run.start] = Null /\ code = <<>>
             clear == IF opt_no_litprt /\ rest # Null /\ ~empty THEN <<Blank("SET")>> ELSE <<>>
             s     == code \o clear
             u     == WithoutPrefix(tree, rest)
             v     == Chained(u, opt_run.end, s)
             end   == LastOf(tree, opt_run.end, s)
             g     == Headed(Joined(WithoutNop(v, opt_run.start), v.next[opt_run.start], end))
  <1>1. /\ tree.num + Len(s) <= MaxNode
        /\ tree' = Joined(WithoutNop(v, opt_run.start), v.next[opt_run.start], end)
        /\ phase' = "over"
    BY DEF ReplacePrefix, HasRoomFor
  <1>2. PICK beside, r : TwoLists(tree, beside, r, opt_run) /\ Ahead(tree, Skeleton(tree, beside), r, vm.n)
    BY DEF Growing
  <1> DEFINE m == Skeleton(tree, beside)
  <1>3. Ordinary(Blank("STOP")) /\ Ordinary(Blank("SET"))
    BY DEF Ordinary, Blank, Bracket, Openers, Closers
  <1>4. \E S : s \in Seq(S) /\ \A y \in S : Ordinary(y)
    <2>1. \E S : code \in Seq(S) /\ \A y \in S : Ordinary(y)
      <3>1. CASE stop
        BY <1>3, <3>1, OrdinaryOne
      <3>2. CASE ~stop /\ rest = Null
        BY <3>2, OrdinaryNone
      <3>3. CASE ~stop /\ rest # Null
        BY <3>3, TapeAndPointer
      <3>4. QED BY <3>1, <3>2, <3>3
    <2> HIDE DEF code
    <2>2. \E S : clear \in Seq(S) /\ \A y \in S : Ordinary(y)
      <3>1. CASE opt_no_litprt /\ rest # Null /\ ~empty
        BY <1>3, <3>1, OrdinaryOne
      <3>2. CASE ~(opt_no_litprt /\ rest # Null /\ ~empty)
        BY <3>2, OrdinaryNone
      <3>3. QED BY <3>1, <3>2
    <2> HIDE DEF clear
    <2>3. QED BY <2>1, <2>2, OrdinaryBehind
  <1>5. PICK S : s \in Seq(S) /\ \A y \in S : Ordinary(y)
    BY <1>4
  <1>6. rest = Null \/ (nd.type = "SUSP" /\ rest = tree.next[vm.n] /\ rest # Null)
    BY DEF nd
  <1>7. /\ rest \in Link /\ (rest = Null \/ Live(m, rest))
        /\ rest # Null => \A y \in NodeId : m.node[y].type \in Openers /\ r[y] < r[rest] => r[m.node[y].jmp] < r[rest]
    <2> HIDE DEF rest
    <2>1. CASE rest = Null
      BY <2>1
    <2>2. CASE nd.type = "SUSP" /\ rest = tree.next[vm.n] /\ rest # Null
      <3>1. tree.node[vm.n].type = "SUSP"
        BY <2>2 DEF nd
      <3>2. /\ Live(m, vm.n) /\ OutsideLoops(m, r, vm.n) /\ m.next = tree.next
            /\ rest \in NodeId /\ Live(m, rest)
        BY <1>2, <2>2, <3>1, MarkMet
      <3>3. Sound(m, r)
        BY <1>2 DEF TwoLists
      <3> HIDE DEF m
      <3>4. m.next[vm.n] = rest /\ m.next[vm.n] # Null
        BY <2>2, <3>2
      <3>5. ASSUME NEW y \in NodeId, m.node[y].type \in Openers, r[y] < r[rest]
            PROVE  r[m.node[y].jmp] < r[rest]
        BY <3>2, <3>3, <3>4, <3>5, BehindMark
      <3>6. QED BY <3>2, <3>5
    <2>3. QED BY <1>6, <2>1, <2>2
  <1> HIDE DEF rest, s
  <1> DEFINE e == IF v.next[opt_run.start] = Null THEN Null ELSE end
             M == Skeleton(g, {})
             K == FromOn(m, r, rest)
  <1>8. /\ DoublyLinked(g) /\ BracketsPaired(g) /\ Complete(g) /\ Nested(g)
        /\ \E q : Sound(M, q) /\ \A y, z \in K : r[y] < r[z] => q[y] < q[z]
        /\ \A y \in K : Live(M, y) /\ g.node[y] = tree.node[y]
        /\ Pool(g) /\ g.next[e] = rest
    <2> DEFINE mm == m  uu == u  vv == v  gg == g
    <2>1. /\ mm = Skeleton(tree, beside) /\ uu = WithoutPrefix(tree, rest)
          /\ vv = Chained(uu, opt_run.end, s)
          /\ gg = Headed(Joined(WithoutNop(vv, opt_run.start), vv.next[opt_run.start], LastOf(tree, opt_run.end, s)))
      OBVIOUS
    <2>2. /\ rest \in Link /\ (rest = Null \/ Live(mm, rest))
          /\ rest # Null => \A y \in NodeId : mm.node[y].type \in Openers /\ r[y] < r[rest] => r[mm.node[y].jmp] < r[rest]
      BY <1>7
    <2>3. TwoLists(tree, beside, r, opt_run)
      BY <1>2
    <2> HIDE DEF mm, uu, vv, gg
    <2>4. /\ DoublyLinked(gg) /\ BracketsPaired(gg) /\ Complete(gg) /\ Nested(gg)
          /\ \E q : Sound(Skeleton(gg, {}), q) /\ \A y, z \in FromOn(mm, r, rest) : r[y] < r[z] => q[y] < q[z]
          /\ \A y \in FromOn(mm, r, rest) : Live(Skeleton(gg, {}), y) /\ gg.node[y] = tree.node[y]
          /\ Pool(gg)
          /\ gg.next[IF vv.next[opt_run.start] = Null THEN Null ELSE LastOf(tree, opt_run.end, s)] = rest
      BY <1>1, <1>5, <2>1, <2>2, <2>3, PrefixReplaced
    <2>5. QED BY <2>4 DEF gg, vv, mm
  <1>9. [tree' EXCEPT !.prev = SetPrev(tree'.prev, tree'.next[Null], Null)] = g
    BY <1>1 DEF Headed
  <1>10. ListSound'
    <2> HIDE DEF g
    <2>1. QED BY <1>8, <1>9 DEF ListSound
  <1>11. FirstLeft' = tree'.next[e] /\ vm' = vm
    <2>1. opt_run' = [start |-> v.next[opt_run.start], end |-> end] /\ vm' = vm
      BY DEF ReplacePrefix, rest, s
    <2> HIDE DEF v, end
    <2>2. QED BY <2>1 DEF FirstLeft
  <1> HIDE DEF g, e
  <1>12. g.next = tree'.next /\ g.node = tree'.node
    <2>1. DOMAIN g = {"next", "prev", "node", "num"}
      BY <1>8 DEF Pool
    <2>2. QED BY <1>9, <2>1
  <1>13. FirstLeft' = rest
    BY <1>8, <1>11, <1>12
  <1>14. ASSUME rest # Null
         PROVE  /\ \/ tree'.node[rest].type \in Stoppers
                   \/ LET w == Walk(tree') IN
                      /\ tree'.node[rest].type \in Openers
                      /\ \E i, j, k \in DOMAIN w :
                           i < j /\ j < k /\ w[i] = rest /\ tree'.node[w[j]].type \in Stoppers /\ w[k] = tree'.node[rest].jmp
                /\ tree.node[rest].type \in Openers => UM(R!Fetch(vm, tree.node[rest].offset)) # 0
                /\ tree'.node[rest] = tree.node[rest]
    <2>1. nd.type = "SUSP" /\ rest = tree.next[vm.n] /\ rest = x
      BY <1>6, <1>14 DEF rest, nd
    <2>2. Pool(tree) /\ Sound(m, r)
      BY <1>2 DEF TwoLists
    <2>3. Live(m, rest) /\ rest \in NodeId /\ r[rest] \in Int
      BY <1>7, <1>14, <2>2 DEF Live, Sound, Ranks
    <2>4. Held(tree, m, r, rest)
      <3>1. Live(m, vm.n) /\ r \in [NodeId -> Int]
        BY <1>2, <2>1, <2>2, MarkMet DEF nd, Sound, Ranks
      <3>2. r[vm.n] <= r[vm.n] /\ vm.n # Null
        BY <3>1
      <3>3. Ahead(tree, m, r, vm.n)
        BY <1>2
      <3> HIDE DEF m
      <3>4. QED BY <1>14, <2>1, <3>2, <3>3 DEF Ahead, nd
    <2>5. PICK q : Sound(M, q) /\ \A y, z \in K : r[y] < r[z] => q[y] < q[z]
      BY <1>8
    <2>6. \A y \in K : Live(M, y) /\ tree'.node[y] = tree.node[y]
      BY <1>8, <1>12
    <2>7. rest \in K
      BY <1>14, <2>3 DEF FromOn
    <2>8. Live(M, rest) /\ tree'.node[rest] = tree.node[rest]
      BY <2>6, <2>7
    <2> DEFINE T == tree'
    <2>9. Held(T, M, q, rest)
      <3>1. m = Skeleton(tree, beside)
        OBVIOUS
      <3>2. /\ \A y \in FromOn(m, r, rest) : Live(M, y) /\ T.node[y] = tree.node[y]
            /\ \A y, z \in FromOn(m, r, rest) : r[y] < r[z] => q[y] < q[z]
        BY <2>5, <2>6
      <3> HIDE DEF m, M, T
      <3>3. QED BY <2>2, <2>3, <2>4, <3>1, <3>2, HeldKept
    <2>10. M.next = T.next
      BY <1>8, <1>12, SkeletonParts
    <2>11. T.node[rest].type \in Openers => T.node[rest].jmp \in NodeId /\ Live(M, T.node[rest].jmp)
      <3>1. T.node[rest].type \in Openers => M.node[rest].type \in Bracket /\ M.node[rest] = T.node[rest]
        <4>1. g.node[rest] = T.node[rest]
          BY <1>12
        <4>2. g.node[rest].type \in Bracket => M.node[rest] = g.node[rest]
          BY <1>8, <2>3, SkeletonParts
        <4> HIDE DEF M, T
        <4>3. QED BY <4>1, <4>2 DEF Bracket
      <3> HIDE DEF M, T
      <3>2. QED BY <2>3, <2>5, <3>1, Partners
    <2>12. \/ T.node[rest].type \in Stoppers
           \/ LET w == Walk(T) IN
              /\ T.node[rest].type \in Openers
              /\ \E i, j, k \in DOMAIN w :
                   i < j /\ j < k /\ w[i] = rest /\ T.node[w[j]].type \in Stoppers /\ w[k] = T.node[rest].jmp
      <3> HIDE DEF M, T
      <3>1. QED BY <2>3, <2>5, <2>8, <2>9, <2>10, <2>11, HeldInWalk
    <2>13. tree.node[rest].type \in Openers => UM(R!Fetch(vm, tree.node[rest].offset)) # 0
      BY <1>14, <2>1 DEF Dead
    <2>14. QED BY <2>8, <2>12, <2>13
  <1>15. NothingLeftToRun'
    <2>1. SUFFICES ASSUME rest # Null
                   PROVE  \/ tree'.node[rest].type \in Stoppers
                          \/ /\ LET w == Walk(tree') IN
                                /\ tree'.node[rest].type \in Openers
                                /\ \E i, j, k \in DOMAIN w :
                                     /\ i < j /\ j < k /\ w[i] = rest
                                     /\ tree'.node[w[j]].type \in Stoppers /\ w[k] = tree'.node[rest].jmp
                             /\ UM(R!Fetch(vm', tree'.node[rest].offset)) # 0
      BY <1>13 DEF NothingLeftToRun, Stopper, HoldsStopper, Stoppers
    <2>2. QED BY <1>11, <1>14, <2>1
  <1>16. QED BY <1>1, <1>10, <1>15 DEF Growing

\* update_opt_runner moves the mark on, or is the end of the second list.
LEMMA UpdateKeepsGrowing ==
  ASSUME Growing, Noted, UpdateOptRunner
  PROVE  Growing'
  <1>1. phase = "run" /\ vm.n \in NodeId /\ nd.type \in {"SUSP", "STOP"}
    BY DEF UpdateOptRunner, Running
  <1>2. PICK x : /\ x = IF nd.type = "SUSP" THEN tree.next[vm.n] ELSE vm.n
                 /\ IF Dead(x) THEN MoveSuspension(x) ELSE ReplacePrefix(x, Touched(nd))
    BY DEF UpdateOptRunner
  <1>3. CASE Dead(x)
    <2>1. MoveSuspension(x)
      BY <1>2, <1>3
    <2>2. nd.type = "SUSP"
      BY <1>1, <1>2, <1>3 DEF Dead, nd, Openers
    <2>3. QED BY <1>1, <1>2, <1>3, <2>1, <2>2, MoveKeepsGrowing
  <1>4. CASE ~Dead(x)
    <2>1. ReplacePrefix(x, Touched(nd))
      BY <1>2, <1>4
    <2>2. GoodProfile(Touched(nd))
      <3>1. GoodMachine(vm) /\ GoodProfile(profile) /\ GoodNodes(tree.node)
        BY <1>1 DEF Noted
      <3>2. Good(nd)
        BY <1>1, <3>1 DEF GoodNodes, nd
      <3>3. QED BY <3>1, <3>2, Touching
    <2>3. (nd.type = "SUSP" /\ x = tree.next[vm.n]) \/ (nd.type = "STOP" /\ x = vm.n)
      BY <1>1, <1>2
    <2>4. QED BY <1>1, <1>4, <2>1, <2>2, <2>3, ReplaceKeepsGrowing
  <1>5. QED BY <1>3, <1>4

\* Every turn leaves two lists in the pool, or the pass is over and one list is left.
THEOREM GrowingNext == Growing /\ Noted /\ [Next]_vars => Growing'
  <1>1. SUFFICES ASSUME Growing, Noted, [Next]_vars PROVE Growing'
    OBVIOUS
  <1>2. CASE RunCell \/ RunCalc \/ RunDump
    <2>1. phase = "run" /\ phase' = "run" /\ tree' = tree /\ opt_run' = opt_run /\ vm.n \in NodeId
      BY <1>2 DEF RunCell, RunCalc, RunDump, Running
    <2>2. PICK beside, r : TwoLists(tree, beside, r, opt_run) /\ Ahead(tree, Skeleton(tree, beside), r, vm.n)
      BY <1>1, <2>1 DEF Growing
    <2> DEFINE m == Skeleton(tree, beside)
    <2>3. Pool(tree) /\ Sound(m, r) /\ MarksOutside(tree, beside, r)
      BY <2>2 DEF TwoLists
    <2>4. PICK k : /\ k = vm.n \/ (nd.type \in Bracket /\ k = nd.jmp)
                   /\ vm'.n \in {Null, k, tree.next[k]}
      <3>1. GoodNodes(tree.node) /\ GoodMachine(vm)
        BY <1>1, <2>1 DEF Noted
      <3>2. CASE RunCell
        <4>1. nd.type # "DIV"
          BY <2>1, <3>1 DEF GoodNodes, Good, nd
        <4>2. nd.type \in {"MOV", "ADD", "SET", "NOP"} \cup Bracket /\ vm' = R!Step(tree, vm)
          BY <3>2, <4>1 DEF RunCell, Running
        <4>3. QED BY <2>1, <3>1, <4>2, StepGoes
      <3>3. CASE RunCalc
        <4>1. nd.type \in {"CALC", "CALCMULT", "LT"} /\ vm' = R!Step(tree, vm)
          BY <3>3 DEF RunCalc, Running
        <4>2. QED BY <2>1, <3>1, <4>1, StepGoes
      <3>4. CASE RunDump
        BY <3>1, <3>4, OnwardGoes DEF RunDump
      <3>5. QED BY <1>2, <3>2, <3>3, <3>4
    <2> DEFINE n == vm.n  n2 == vm'.n
    <2>5. Ahead(tree, m, r, n2)
      <3>1. Ahead(tree, m, r, k) /\ Ahead(tree, m, r, tree.next[k])
        <4>1. Ahead(tree, m, r, n) /\ n \in NodeId /\ (k = n \/ (tree.node[n].type \in Bracket /\ k = tree.node[n].jmp))
          BY <2>1, <2>2, <2>4 DEF nd
        <4>2. m = Skeleton(tree, beside)
          OBVIOUS
        <4> HIDE DEF m, n
        <4>3. QED BY <2>3, <4>1, <4>2, GoesAhead
      <3>2. Ahead(tree, m, r, Null)
        BY DEF Ahead
      <3> HIDE DEF m
      <3>3. QED BY <2>4, <3>1, <3>2
    <2>6. TwoLists(tree', beside, r, opt_run') /\ Ahead(tree', Skeleton(tree', beside), r, vm'.n)
      BY <2>1, <2>2, <2>5
    <2>7. QED BY <2>1, <2>6 DEF Growing, ListSound, NothingLeftToRun
  <1>3. CASE RunBadNode
    BY <1>3 DEF RunBadNode, Growing, ListSound, NothingLeftToRun
  <1>4. CASE UNCHANGED vars
    <2>1. tree' = tree /\ opt_run' = opt_run /\ phase' = phase /\ vm' = vm
      BY <1>4 DEF vars
    <2>2. ListSound' <=> ListSound
      BY <2>1 DEF ListSound
    <2>3. NothingLeftToRun' <=> NothingLeftToRun
      BY <2>1 DEF NothingLeftToRun, FirstLeft, Stopper, HoldsStopper
    <2>4. QED BY <1>1, <2>1, <2>2, <2>3 DEF Growing
  <1>5. CASE TryOptRunner \/ RunOutput \/ UpdateOptRunner
    BY <1>1, <1>5, TryKeepsGrowing, OutputKeepsGrowing, UpdateKeepsGrowing
  <1>6. QED BY <1>1, <1>2, <1>3, <1>4, <1>5 DEF Next, Step

\* Once the pass is over the list is whole again, whatever the program it was
\* given: the prefix is gone, no node is lost, the links back are right and the
\* loops are paired and nest (update_opt_runner, opt_runner.c:78).
THEOREM RunnerLeavesWholeList == Spec => []ListSound
  <1>1. Growing => ListSound
    BY DEF Growing
  <1>2. Init => Noted /\ Growing
    BY NotedInit, GrowingInit
  <1>3. (Noted /\ Growing) /\ [Next]_vars => (Noted /\ Growing)'
    BY NotedNext, GrowingNext
  <1>4. QED BY <1>1, <1>2, <1>3, PTL DEF Spec

\* What is left once the pass is over begins with what stops a run, or with a loop
\* that holds it and, if the run came up to there, is entered: no mark is passed
\* but the last one, and that one stands as far on as a mark may ("runs the
\* optimised tree until it finds a loop containing an input instruction",
\* opt_runner.c:22).
THEOREM RunnerLeavesNothing == Spec => []NothingLeftToRun
  <1>1. Growing => NothingLeftToRun
    BY DEF Growing
  <1>2. Init => Noted /\ Growing
    BY NotedInit, GrowingInit
  <1>3. (Noted /\ Growing) /\ [Next]_vars => (Noted /\ Growing)'
    BY NotedNext, GrowingNext
  <1>4. QED BY <1>1, <1>2, <1>3, PTL DEF Spec

=============================================================================
