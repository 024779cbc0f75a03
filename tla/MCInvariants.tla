---------------------------- MODULE MCInvariants ----------------------------
(***************************************************************************)
(* invariants_scan and trim_trailing_sets on programs put together from    *)
(* short pieces, as pointer_scan leaves them.  The tree the pass was given *)
(* is remembered, and what its runs do.  What is left in the end is        *)
(* written into the array of the array interpreter.  Options and the width *)
(* of cells are fixed when an execution begins.                            *)
(***************************************************************************)
EXTENDS Integers, SequencesExt, FiniteSets, TLC

CONSTANTS
  MaxNode,
  Settings   \* options and pieces to be tried

VARIABLES
  tree, n, trimmed,
  setting,    \* the options of this execution
  expected,   \* the runs of the tree before the pass
  turns,      \* of the loop, so far
  conv        \* the conversion of the tree into an array

vars == <<tree, n, trimmed, setting, expected, turns, conv>>

S(d) == INSTANCE InvariantsScan WITH
          MaxNode <- d.nodes, CellBits <- d.cell, noheader <- d.fragment, no <- d.no,
          SEARCHDEPTH <- 16, SEARCHRANGE <- 1000, iostyle <- 0, eofcell <- 3

M(d) == INSTANCE Meaning WITH
          MaxNode <- d.nodes, CellBits <- d.cell, noheader <- d.fragment, iostyle <- 0, eofcell <- 3

\* Cells are as wide as a char.
A(d) == INSTANCE RunArray WITH
          MaxNode <- d.nodes, CellBits <- d.cell, CharBit <- d.cell, IntBits <- d.cell + 2,
          BigBits <- d.cell + 4, LongBits <- d.cell + 2, opt_level <- 1, merge_mov <- TRUE,
          do_mask <- TRUE, noheader <- FALSE, iostyle <- 0, eofcell <- 3, vm <- <<>>

B == INSTANCE BFTree WITH CellBits <- 2, noheader <- FALSE, iostyle <- 0, eofcell <- 3

(***************************************************************************)
(* Pieces of programs.                                                     *)
(***************************************************************************)
Add(c, off) == <<B!At("ADD", c, off)>>
Set(c, off) == <<B!At("SET", c, off)>>
Prt(off)    == <<B!At("PRT", 0, off)>>
Inp(off)    == <<B!At("INP", 0, off)>>
W(off)      == <<B!At("WHL", 0, off)>>
End         == <<B!Blank("END")>>
Mov(c)      == <<B!At("MOV", c, 0)>>

\* What the loader makes of [].
Forever == << B!Blank("IF"), B!Blank("STOP"), B!Blank("ENDIF"), B!Blank("SET") >>

\* while (m[off]) { s }
Loop(off, s) == W(off) \o s \o End

\* Moving a cell on to others.
ToOne(a, b)    == Loop(a, Add(-1, a) \o Add(1, b))
ToTwo(a, b, c) == Loop(a, Add(-1, a) \o Add(1, b) \o Add(1, c))

\* The idioms for a product, for a < b (bfi.c:3653) and for n / d (bfi.c:3745).
Product == Loop(0, ToTwo(1, 2, 3) \o ToOne(3, 1) \o Add(-1, 0))

Less ==
  Loop(1, Loop(0, Add(-1, 2) \o ToOne(0, 3)) \o ToOne(3, 0)
          \o Add(1, 2) \o Add(-1, 0) \o Add(-1, 1))

\* m[1] doubled three times; a product whose cell has a value that is dropped.
Power == Set(3, 0) \o Loop(0, Loop(1, Add(-1, 1) \o Add(2, 2)) \o ToOne(2, 1) \o Add(-1, 0))

Dropped == Inp(2) \o Set(0, 2) \o Product

Divide ==
  Add(1, 2) \o
  Loop(0, Add(-1, 0) \o Add(-1, 1) \o Loop(1, Add(1, 2) \o Mov(3))
          \o Loop(2, ToOne(2, 1) \o Add(1, 2) \o Add(1, 3) \o Mov(3)) \o Mov(-3))

(***************************************************************************)
(* A setting: what comes first, the pieces that follow and how many of     *)
(* them, the cells printed in the end, the options and the inputs.         *)
(***************************************************************************)
Two == [ cell |-> 2, nodes |-> 16, fragment |-> FALSE, no |-> {}, fuel |-> 80,
         shown |-> 1, stdins |-> {<<>>, <<3>>, <<1, 2>>} ]

Setting(start, pieces, len, options) ==
  [start |-> start, pieces |-> pieces, len |-> len] @@ options

Without(no)  == [Two EXCEPT !.no = no]
Silent       == [Two EXCEPT !.stdins = {<<>>}]
Fragment     == [Two EXCEPT !.fragment = TRUE]
Large        == [Two EXCEPT !.nodes = 40, !.shown = 2, !.fuel = 250]
Wide         == [Silent EXCEPT !.cell = 8, !.fuel = 1100]

Multiplying == { Add(-1, 0), Add(2, 1), Set(0, 1), W(0), End }
Constants   == { Add(2, 0), Add(-1, 0), Add(1, 1), Prt(0), W(0), End }
Conditions  == { Set(0, 0), Add(-1, 0), Set(1, 1), W(1), W(0), End }
Moving      == { Mov(1) \o End, Mov(-1) \o End, W(0), End, Set(0, 0), Add(1, 1) }
Stopping    == { Forever, W(0), End, Add(-1, 0), Set(1, 1) }
Copying     == { ToOne(0, 1), ToOne(1, 0), ToTwo(0, 1, 2), ToTwo(1, 0, 0), Set(0, 1),
                 Add(1, 0) }
Nested      == { Add(-1, 0), W(0), W(1), Set(0, 1), Add(1, 1), End }
Once        == { W(0), ToOne(1, 2), Set(0, 0), End, Add(1, 2) }
Powers      == { Add(-1, 0), Add(5, 0), Add(-2, 0), Add(100, 1), W(0), End }

\* The pieces leave out the programs which the pass gets wrong: Shifted and
\* Counted below, and, without recursion, a search that goes too far.
AllSettings ==
  { Setting(Inp(0), Multiplying, 5, Two),
    Setting(<<>>, Constants, 5, Silent),
    Setting(Inp(0) \o Inp(1), Conditions, 5, Two),
    Setting(Inp(1), Moving, 5, Two),
    Setting(Inp(0), Stopping, 4, Two),
    Setting(Inp(0) \o Inp(1), Copying, 3, [Large EXCEPT !.nodes = 30]),
    Setting(Inp(0) \o Inp(1), {Product, Less, Divide, Power, Dropped}, 1,
            [Large EXCEPT !.shown = 3]),
    Setting(<<>>, Multiplying, 4, Fragment),
    Setting(Inp(1), Powers, 4, Wide),
    Setting(<<>>, Powers, 4, Silent),
    Setting(Inp(0) \o W(0), Nested, 5, Two),
    Setting(Inp(0) \o Set(1, 1), Once, 4, [Large EXCEPT !.nodes = 30]),
    Setting(Inp(0), Conditions, 4, Without({"kv_recursion"})),
    Setting(Inp(0) \o Inp(1), Multiplying, 4, Without({"endif"})),
    Setting(Inp(0), Multiplying, 4, Without({"calctok"})),
    Setting(Inp(0), Multiplying, 4, Without({"loop_classify", "litprt"})),
    Setting(Inp(0), Moving, 4, Without({"kv_mov"})) }

\* A loop that moves, with a cell that is reset now and then in a loop in it.
Shifted ==
  { Setting(Add(3, 5) \o Inp(2) \o Inp(0),
            {Loop(0, Add(-1, 0) \o Loop(2, Add(-1, 2) \o Loop(5, Add(-1, 5))) \o Mov(1))},
            1, [Large EXCEPT !.shown = 4, !.stdins = {<<0, 1>>}]) }

\* Both brackets test the same cell.
Partner(s, i) == M(Large)!PartnerOf(s, i)

Closed(s) ==
  [i \in DOMAIN s |->
     IF s[i].type \in B!Closers THEN [s[i] EXCEPT !.offset = s[Partner(s, i)].offset]
     ELSE s[i]]

\* The loader has dealt with empty loops.
NoneEmpty(s) ==
  \A i \in 1 .. Len(s) - 1 : ~(s[i].type = "WHL" /\ s[i + 1].type = "END")

\* There is room for what becomes of it: a loop may leave two nodes behind it.
Fits(d, s) ==
  Len(s) + 2 * Len(SelectSeq(s, LAMBDA x : x.type = "WHL")) + 3 <= d.nodes

Programs(d) ==
  LET some == UNION {[1 .. k -> d.pieces] : k \in 1 .. d.len}
      tail == FlattenSeq([i \in 1 .. d.shown + 1 |-> Prt(i - 1)])
      all  == {d.start \o FlattenSeq(p) \o tail : p \in some}
  IN  {Closed(s) : s \in {r \in all : M(d)!IsBalanced(r) /\ NoneEmpty(r) /\ Fits(d, r)}}

\* A fragment is run on tapes that are not blank.
Tapes(d) == IF d.fragment THEN {[x \in -1 .. 2 |-> 1 + (x % 2)], [x \in 0 .. 1 |-> 3 * x]}
            ELSE {<<>>}

Runs(d, t) ==
  [x \in Tapes(d) \X d.stdins |-> M(d)!Run(t, x[1], x[2], d.fuel)]

\* No memory has been allocated for an array.
NotConverting ==
  [n |-> B!Null, last_offset |-> 0, progarray |-> <<>>, size |-> 0, done |-> FALSE, starts |-> {}]

Optimising == conv.size = 0

MCInit ==
  \E d \in Settings : \E s \in Programs(d) :
    /\ setting = d
    /\ tree = M(d)!TreeOf(s)
    /\ n = tree.next[B!Null]
    /\ trimmed = FALSE
    /\ expected = Runs(d, tree)
    /\ turns = 0
    /\ conv = NotConverting

Optimise(d) == S(d)!Next /\ turns' = turns + 1 /\ UNCHANGED conv

\* A fragment is for the tree interpreter: it finds its tape as it is.
Convert(d) ==
  /\ trimmed /\ ~d.fragment
  /\ \/ Optimising /\ conv' = A(d)!StartConverting(tree) /\ UNCHANGED tree
     \/ ~Optimising /\ A(d)!Convert
  /\ UNCHANGED <<n, trimmed, turns>>

Finished == trimmed /\ (setting.fragment \/ conv.done)

MCNext ==
  /\ \/ \E d \in Settings : setting = d /\ (Optimise(d) \/ Convert(d))
     \/ Finished /\ UNCHANGED <<tree, n, trimmed, turns, conv>>
  /\ UNCHANGED <<setting, expected>>

MCSpec == MCInit /\ [][MCNext]_vars

\* However nodes are moved, made and freed, the list stays whole, brackets
\* stay paired and nested, a comparison has both its operands, and the cursor
\* never holds a freed node.
TreeWhole ==
  Optimising => \A d \in Settings : setting = d =>
    /\ M(d)!WellFormed(tree) /\ M(d)!Complete(tree) /\ M(d)!Nested(tree)
    /\ M(d)!Factors(tree)
    /\ n # B!Null => M(d)!Live(tree, n)

\* After each change, and not only at the end, the tree reads and writes what
\* the given one does, and a fragment leaves the same cells.
MeaningKept ==
  Optimising => \A d \in Settings : setting = d =>
    LET now == Runs(d, tree) IN
    \A x \in DOMAIN now : M(d)!Agrees(expected[x], now[x], d.fragment)

\* What is taken to be known of a cell once control has passed the cursor is
\* true whenever a run comes by there (bfi.c:2174).
KnownTrue ==
  n # B!Null => \A d \in Settings : setting = d =>
    LET here == UNION {M(d)!Passing(tree, tree.next[n], x[1], x[2], d.fuel) :
                         x \in Tapes(d) \X d.stdins} IN
    \A off \in {0, 1, d.shown} :
      LET k == S(d)!FindKnownValue(tree, n, off) IN
      k.const => \A vm \in here : M(d)!Holds(vm, off, k.value)

(***************************************************************************)
(* The array's run: twice as many turns of the interpreter's loop as the   *)
(* tree was given.                                                         *)
(***************************************************************************)
TokenNow(d, m) == A(d)!TokenAt(conv.progarray, m.n)

ArrayRun(d, stdin) ==
  LET RECURSIVE For(_, _)
      For(m, fuel) ==
        IF m.status # "run" \/ fuel = 0 THEN m
        ELSE IF fuel = 1 THEN A(d)!Exec(TokenNow(d, m), conv.progarray, m)
        ELSE For(For(m, fuel \div 2), fuel - fuel \div 2)
  IN  For(A(d)!Machine(stdin), 2 * d.fuel)

\* The switch has no case for the token: p stays where it is, for ever.
Hangs(d, m) == m.status = "run" /\ TokenNow(d, m) \in {"NOP", "MULT", "CMULT"}

\* What is left in the end, converted and run by the array interpreter, reads,
\* writes and ends as the given program: of all the rewritings leave behind,
\* no token without a case is come to (bfi.execloop.h).  The exception is what
\* happens with -fno-endif, where the program is wrong: a T_CMULT is kept, and
\* a run that comes to one hangs there, having done the right things so far.
RunsInArray ==
  conv.done => \A d \in Settings : setting = d => \A stdin \in d.stdins :
    LET old == expected[<<(<<>>), stdin>>]
        new == ArrayRun(d, stdin)
    IN  IF Hangs(d, new)
        THEN "endif" \in d.no /\ TokenNow(d, new) = "CMULT" /\ IsPrefix(new.io, old.io)
        ELSE M(d)!Agrees(old, new, FALSE)

\* Going back after every change does not go on for ever.
EndsSoon == turns <= 3 * setting.nodes
=============================================================================
