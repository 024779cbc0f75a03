------------------------------- MODULE MCEmit -------------------------------
(***************************************************************************)
(* The generators of machine code and of C, compared with the tree         *)
(* interpreter on the same program: three cells are set, some nodes        *)
(* follow, and two cells are written.  Wherever the code of a node begins, *)
(* the processor is in the state of the interpreter that comes to this     *)
(* node, if what the generator took to be in the accumulator is counted as *)
(* being in memory.                                                        *)
(***************************************************************************)
EXTENDS Integers, SequencesExt, TLC

CONSTANTS
  MaxNode, noheader,
  CharBits, IntBits, \* the widths of a char and an int
  Machines,  \* generators, widths and options, and the nodes to be drawn
  MaxLen,    \* the nodes drawn
  MaxTurns,  \* bound on the nodes that the code comes to
  Fuel       \* ... and on the steps of each of both between two of them

VARIABLES
  tree, gen,
  vm,        \* the processor
  machine,   \* the options of this execution
  marks,     \* by instruction: the first node whose code begins there, and the
             \* accumulator; not an ENDIF, which the interpreter steps over
  ref,       \* the tree interpreter, which is kept at the same node
  turns      \* nodes that were come to, for the bound

vars == <<tree, gen, vm, machine, marks, ref, turns>>

N(d) == INSTANCE CCode WITH
          CellBits <- d.cell, CharBit <- CharBits, LowBits <- CharBits, RegBits <- d.reg,
          MemBits <- IF d.cell <= CharBits THEN CharBits ELSE IntBits,
          sse <- d.opt, Libc <- d.opt, iostyle <- 0, eofcell <- d.eof,
          use_goto <- d.opt, libtcc_specials <- ~d.opt, MinFunction <- 1,
          use_functions <- d.gen # "c", use_md5dedup <- d.gen = "c, shared functions"

Mg(d) == INSTANCE Meaning WITH CellBits <- d.cell, iostyle <- 0, eofcell <- d.eof
T(d)  == INSTANCE RunTree WITH CellBits <- d.cell, iostyle <- 0, eofcell <- d.eof

(***************************************************************************)
(* Programs.                                                               *)
(***************************************************************************)
B == INSTANCE BFTree WITH CellBits <- 2, iostyle <- 0, eofcell <- 3
F == INSTANCE Meaning WITH CellBits <- 2, iostyle <- 0, eofcell <- 3

Add(c, off) == B!At("ADD", c, off)
Mov(c)      == B!At("MOV", c, 0)
At1(tok)    == B!At(tok, 0, 1)

Calc(c, c2, off2, c3, off3) ==
  [B!At("CALC", c, 0) EXCEPT !.count2 = c2, !.offset2 = off2,
                             !.count3 = c3, !.offset3 = off3]

\* With each of the factors that have instructions of their own.
Calcs == { Calc(0, 1, 1, 0, 0), Calc(1, 1, 0, -1, 1), Calc(0, 1, 0, 1, 1), Calc(2, 1, 0, 2, -1),
           Calc(0, 1, 0, 6, 1), Calc(3, 1, 1, -1, -1), Calc(0, -1, 0, 3, 1),
           Calc(1, -3, 1, 1, -1), Calc(0, 10, 1, -2, 0), Calc(0, 2, 0, -7, 1), Calc(1, 8, 1, 1, 0) }

Pair(tok) == [B!At(tok, 0, 0) EXCEPT !.count2 = 1, !.offset2 = 1,
                                     !.count3 = 1, !.offset3 = -1]
PairOf3   == [Pair("CALCMULT") EXCEPT !.count = 1, !.count2 = 3, !.count3 = 3]

\* Searches for a cell: loops with a movement.
Rails  == { Add(-1, 0), Add(1, 1), Mov(1), B!Blank("WHL"), B!Blank("END") }
Strlen == { At1("WHL"), At1("END"), Mov(1), Mov(-1), Add(-1, 0), Add(1, 1) }

Loops == { Add(-1, 0), Add(-1, 1), Mov(-2), B!Blank("WHL"), B!Blank("END"),
           At1("WHL"), At1("END"), At1("IF"), At1("ENDIF") }

Others == Calcs \cup { Pair("CALCMULT"), PairOf3, Pair("LT"), B!Blank("DIV"), Mov(1), Mov(-1),
                       Add(5, 0), B!At("SET", -1, 1) }

Mixed == { B!Blank("DIV"), Pair("LT"), Calc(1, -3, 1, 1, -1), B!Blank("INP"), B!Blank("CHR"),
           B!Blank("STOP"), B!Blank("CMULT"), B!Blank("END"), At1("IF"), At1("ENDIF"), Mov(1) }

Numbers == { B!Blank("INPI"), B!Blank("PRTI"), B!Blank("NOP"), Add(9, 0), Mov(1), Mov(-1) }

\* For functions.
Twice == { Add(-1, 0), Mov(1), B!Blank("WHL"), B!Blank("END") }
Ifs   == { B!Blank("PRT"), Mov(1), At1("IF"), At1("ENDIF"), Add(-1, 1) }

InC(d) == d.gen \in {"c", "c, functions", "c, shared functions"}

Device(name, opt, cell, reg, eof, nodes, len) ==
  [gen |-> name, opt |-> opt, cell |-> cell, reg |-> reg, eof |-> eof, nodes |-> nodes, len |-> len]

\* Cells of a char, narrower than an int, and as wide as one; for lightning
\* registers as wide as an int, and wider.
AllMachines ==
  { Device("dasm", TRUE, 3, 5, 2, Strlen, 4), Device("dasm", FALSE, 3, 5, 3, Rails, 5),
    Device("dasm", FALSE, 5, 5, 1, Rails, 5), Device("dasm", FALSE, 4, 5, 1, Rails, 4),
    Device("dasm", FALSE, 3, 5, 1, Loops, 4), Device("dasm", TRUE, 4, 5, 2, Others, 2),
    Device("dasm", TRUE, 3, 5, 2, Others, 2), Device("dasm", TRUE, 5, 5, 2, Others, 2),
    Device("dasm", TRUE, 3, 5, 2, Mixed, 3), Device("dasm", TRUE, 4, 5, 3, Mixed, 3),
    Device("dasm", TRUE, 4, 5, 1, Numbers, 3),
    Device("lightning", TRUE, 3, 5, 3, Rails, 5), Device("lightning", TRUE, 4, 7, 1, Rails, 4),
    Device("lightning", TRUE, 5, 7, 1, Loops, 4), Device("lightning", TRUE, 4, 7, 2, Others, 2),
    Device("lightning", TRUE, 5, 7, 2, Others, 2), Device("lightning", TRUE, 3, 5, 2, Others, 2),
    Device("lightning", TRUE, 5, 7, 2, Mixed, 3), Device("lightning", TRUE, 4, 5, 3, Mixed, 3),
    Device("lightning", TRUE, 5, 7, 1, Numbers, 3),
    Device("nasm", TRUE, 3, 7, 1, Loops \ {Mov(-2), At1("IF"), At1("ENDIF")}, 5),
    Device("nasm", TRUE, 3, 7, 1, Loops, 3), Device("nasm", FALSE, 3, 7, 1, Others, 2),
    Device("nasm", TRUE, 3, 7, 1, Mixed, 3), Device("nasm", FALSE, 3, 7, 1, Rails, 4),
    Device("c", FALSE, 3, 5, 2, Strlen, 4), Device("c", TRUE, 3, 5, 3, Rails, 4),
    Device("c", FALSE, 2, 5, 4, Rails, 4), Device("c", TRUE, 4, 5, 7, Loops, 4),
    Device("c", FALSE, 5, 5, 1, Loops, 4), Device("c", FALSE, 3, 5, 2, Others, 2),
    Device("c", TRUE, 4, 5, 2, Others \ {Pair("LT")}, 2), Device("c", TRUE, 5, 5, 2, Others, 2),
    Device("c", FALSE, 2, 5, 3, Mixed \ {Pair("LT")}, 3), Device("c", TRUE, 5, 5, 7, Mixed, 3),
    Device("c", FALSE, 4, 5, 4, Numbers, 2),
    Device("c, shared functions", FALSE, 3, 5, 1, Twice, 6),
    Device("c, shared functions", TRUE, 4, 5, 1, Ifs, 5),
    Device("c, functions", FALSE, 5, 5, 2, Twice, 5),
    Device("c, functions", TRUE, 3, 5, 2, Ifs, 4) }

Fits(s) ==
  /\ B!Nested(F!TreeOf(s))
  /\ \A i \in DOMAIN s : s[i].type \in B!Openers =>
       LET e == s[F!PartnerOf(s, i)] IN
       e.offset = s[i].offset /\ (s[i].type = "IF") = (e.type = "ENDIF")

Setup  == << B!At("SET", 2, 0), B!At("SET", 1, 1), B!At("SET", 3, -1) >>
Finish == << B!Blank("PRT"), At1("PRT") >>

Programs(d) ==
  LET some == UNION {[1 .. k -> d.nodes] : k \in 1 .. IF d.len < MaxLen THEN d.len ELSE MaxLen}
  IN  {Setup \o s \o Finish : s \in {r \in some : F!IsBalanced(r) /\ Fits(r)}}

Stdin == <<2, 6>>

(***************************************************************************)
(* Executions.                                                             *)
(***************************************************************************)
OneStep(d, m) == IF InC(d) THEN N(d)!CStep(gen.code, m) ELSE N(d)!ProcessorStep(gen.code, m)

\* The processor goes on to the next mark, if it comes to one.
NextMark(d, m) ==
  LET run[k \in 0 .. Fuel] ==
        IF k = 0 THEN m
        ELSE LET s == run[k - 1] IN
             IF s.status # "run" \/ s.n \in DOMAIN marks THEN s ELSE OneStep(d, s)
  IN  run[Fuel]

\* The interpreter goes on to node x.
Follow(d, x, r) ==
  LET run[k \in 0 .. Fuel] ==
        IF k = 0 THEN r
        ELSE LET s == run[k - 1] IN
             IF s.status # "run" \/ s.n = x THEN s ELSE T(d)!Step(tree, s)
  IN  run[Fuel]

MCInit ==
  \E d \in Machines : \E s \in Programs(d) :
    /\ machine = d
    /\ tree = F!TreeOf(s)
    /\ gen = IF InC(d) THEN N(d)!CStart(tree) ELSE N(d)!GenStart(tree)
    /\ marks = <<>>
    /\ vm = N(d)!Processor(Stdin) @@ [calls |-> <<>>]
    /\ ref = T(d)!Machine(tree, <<>>, T(d)!NoString, Stdin)
    /\ turns = 0

Generate(d) ==
  /\ CASE d.gen = "dasm"      -> N(d)!RunDynasm
       [] d.gen = "lightning" -> N(d)!RunGnulightning
       [] d.gen = "nasm"      -> N(d)!PrintAsm
       [] InC(d)              -> N(d)!PrintCCode
  /\ marks' = IF tree.node[gen.n].type = "ENDIF" \/ (InC(d) /\ gen.pass # "bf") THEN marks
              ELSE marks @@ ((Len(gen.code) + 1) :> [n |-> gen.n, acc |-> gen.acc])
  /\ UNCHANGED <<vm, ref, turns>>

\* From the code of one node to that of another, or to the end.
RunCode(d) ==
  /\ gen.status = "done" /\ vm.status = "run" /\ turns < MaxTurns
  /\ vm' = NextMark(d, OneStep(d, vm))
  /\ ref' = Follow(d, IF vm'.n \in DOMAIN marks THEN marks[vm'.n].n ELSE 0,
                   T(d)!Step(tree, ref))
  /\ turns' = IF vm'.calls = <<>> THEN turns + 1 ELSE MaxTurns \* still in a function
  /\ UNCHANGED <<tree, gen, marks>>

Finished ==
  /\ gen.status = "exit" \/ (gen.status = "done" /\ (vm.status # "run" \/ turns = MaxTurns))
  /\ UNCHANGED <<tree, gen, marks, vm, ref, turns>>

MCNext ==
  /\ \E d \in Machines : machine = d /\ (Generate(d) \/ RunCode(d) \/ Finished)
  /\ UNCHANGED machine

MCSpec == MCInit /\ [][MCNext]_vars

\* The memory of the processor, with a cell in the accumulator put back.
Whole(d, acc) ==
  IF acc.loaded THEN T(d)!Put(vm, acc.offset, vm.reg["A"]) ELSE vm

\* Where the code of a node begins the processor has done what the tree
\* interpreter has done when it comes to the node: it stands at the same
\* cell, has read and written the same, and all cells are the same, whichever
\* way the code was reached and whatever was left in the accumulator; and the
\* cell that is said to be in memory as well is there.
InStep ==
  \A d \in Machines : machine = d /\ gen.status = "done" /\ vm.status = "run" /\ vm.n \in DOMAIN marks =>
    LET k == marks[vm.n] IN
    /\ ref.status = "run" /\ ref.n = k.n
    /\ ref.p = vm.p /\ ref.io = vm.io
    /\ Mg(d)!SameCells(ref, Whole(d, k.acc))
    /\ k.acc.loaded /\ ~k.acc.dirty => Mg(d)!Holds(vm, k.acc.offset, vm.reg["A"])

\* A program that ends, ends in the same way and after the same reads and
\* writes as under the tree interpreter; one that does not end goes on.
CodeKeepsMeaning ==
  \A d \in Machines : machine = d /\ gen.status = "done" /\ turns > 0 =>
    IF vm.status = "run" THEN turns < MaxTurns => ref.status = "run" \/ vm.n > Len(gen.code)
    ELSE vm.status = ref.status /\ vm.io = ref.io
=============================================================================
