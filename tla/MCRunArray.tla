----------------------------- MODULE MCRunArray -----------------------------
(***************************************************************************)
(* The array interpreter, compared with the tree interpreter on the same   *)
(* program: three cells are set, one to five nodes follow, and two cells   *)
(* are written.  The width of the cells and the optimisation level are     *)
(* fixed when an execution begins.  Some machines are bfi.gmp.c's, with     *)
(* cells narrower than a long, as wide, wider, and of any size.            *)
(* (The constants themselves have the values of one machine; properties of *)
(* RunArray that mention none of them are true of every machine.)          *)
(***************************************************************************)
EXTENDS RunArray, SequencesExt

CONSTANTS
  Machines,  \* widths and options to be tried, and the nodes to be drawn
  Fuel,      \* steps of a run of the tree
  MaxTurns   \* bound on the turns of the loop

VARIABLES
  machine,   \* the options of this execution
  expected,  \* how the run of the tree interpreter ends, and what is seen of it
  turns      \* of the loop, for the bound

mcvars == <<tree, conv, vm, machine, expected, turns>>

\* Wider than any number these programs reach.
Unlimited == 20

A(d) == INSTANCE RunArray WITH
          CellBits <- d.cell, CharBit <- d.char, opt_level <- d.opt,
          merge_mov <- ~d.gmp, do_mask <- d.cell # Unlimited,
          iostyle <- 0, eofcell <- 3

Mg(d) == INSTANCE Meaning WITH CellBits <- d.cell, iostyle <- 0, eofcell <- 3

(***************************************************************************)
(* Programs.                                                               *)
(***************************************************************************)
Add(c, off) == At("ADD", c, off)
Move(c)     == At("MOV", c, 0)
At1(tok)    == At(tok, 0, 1)

Calcs ==
  LET calc(c, c2, off2, c3, off3) ==
        [At("CALC", c, 0) EXCEPT !.count2 = c2, !.offset2 = off2,
                                 !.count3 = c3, !.offset3 = off3]
  IN  { calc(0, 1, 1, 0, 0), calc(1, 3, 1, 0, 0), calc(0, 1, 0, 1, 1),
        calc(0, 1, 0, -2, 1), calc(1, 1, 2, 2, 1) }

Pair(tok) == [At(tok, 0, 0) EXCEPT !.count2 = 1, !.offset2 = 1,
                                   !.count3 = 1, !.offset3 = -1]

\* Rails: loops with offsets, and movements.
Rails == { Add(-1, 0), Add(1, 1), Move(1), Move(-1), Blank("WHL"), Blank("END") }

\* The longest ones.
ToTheRight == Rails \ {Move(-1)}

Loops == { Add(-1, 1), Move(2), Blank("WHL"), Blank("END"),
           At1("IF"), At1("ENDIF") }

Others == Calcs \cup { Pair("CALCMULT"), Blank("DIV"), Blank("INP"), Move(1),
                       At("CHR", 3, 0), Blank("STOP"), At1("IF"), At1("ENDIF") }

Numbers == { Blank("INPI"), Blank("PRTI"), Pair("LT"), Add(9, 0), Move(1) }

\* Numbers that outgrow a long of four bits.
Growing == (Calcs \ {At("CALC", 0, 0)}) \cup { Pair("CALCMULT"), Blank("DIV"), Blank("INP"), Move(1),
                        Add(7, 1), Pair("LT"), At1("WHL"), At1("END") }

Device(opt, char, cell) == [opt |-> opt, char |-> char, cell |-> cell, gmp |-> FALSE]

GmpDevice(opt, cell) == [Device(opt, 8, cell) EXCEPT !.gmp = TRUE]

\* Cells as wide as a char, narrower than an int, as an int, wider; with each
\* the nodes to be drawn, and how many.
AllMachines ==
  { <<Device(1, 2, 2), Rails, 4>>, <<Device(1, 2, 3), ToTheRight, 5>>,
    <<Device(0, 2, 4), ToTheRight, 4>>, <<Device(1, 2, 5), ToTheRight, 4>>,
    <<Device(1, 2, 4), Loops, 5>>, <<Device(1, 2, 3), Loops, 4>>,
    <<Device(1, 2, 2), Others, 2>>, <<Device(1, 2, 3), Others, 3>>,
    <<Device(1, 2, 5), Others, 3>>, <<Device(1, 8, 8), Numbers, 3>>,
    <<GmpDevice(1, 3), ToTheRight, 4>>, <<GmpDevice(0, 4), ToTheRight, 4>>,
    <<GmpDevice(1, 4), Loops, 4>>, <<GmpDevice(1, 3), Growing, 3>>,
    <<GmpDevice(1, 5), Growing, 2>>, <<GmpDevice(1, 4), Growing, 2>>,
    <<GmpDevice(1, Unlimited), Growing, 2>>, <<GmpDevice(1, 8), Numbers, 3>> }

Devices == {x[1] : x \in Machines}

Fits(s) ==
  /\ Nested(Mg([cell |-> 2])!TreeOf(s))
  /\ \A i \in DOMAIN s : s[i].type \in Openers =>
       (s[i].type = "IF") = (s[Mg([cell |-> 2])!PartnerOf(s, i)].type = "ENDIF")

Setup  == << At("SET", 2, 0), At("SET", 1, 1), At("SET", 3, -1) >>
Finish == << Blank("PRT"), At1("PRT") >>

Programs(nodes, len) ==
  LET some == UNION {[1 .. k -> nodes] : k \in 1 .. len}
  IN  {Setup \o s \o Finish : s \in {r \in some : Mg([cell |-> 2])!IsBalanced(r) /\ Fits(r)}}

Stdin == <<2, 6, 3>>

MCInit ==
  \E x \in Machines : \E d \in {x[1]} : \E s \in Programs(x[2], x[3]) :
    /\ machine = d
    /\ tree = Mg(d)!TreeOf(s)
    /\ conv = A(d)!StartConverting(tree)
    /\ vm = A(d)!Machine(Stdin)
    /\ \E m \in {Mg(d)!Run(tree, <<>>, Stdin, Fuel)} : expected = [io |-> m.io, status |-> m.status]
    /\ turns = 0

MCNext ==
  /\ \E d \in Devices :
       /\ machine = d
       /\ \/ ~conv.done /\ A(d)!Next /\ UNCHANGED turns
          \/ conv.done /\ turns < MaxTurns /\ A(d)!Next /\ turns' = turns + 1
          \/ /\ conv.done /\ (vm.status # "run" \/ turns = MaxTurns)
             /\ UNCHANGED <<tree, conv, vm, turns>>
  /\ UNCHANGED <<machine, expected>>

\* Sequential code that waits for nothing.
MCSpec == MCInit /\ [][MCNext]_mcvars /\ WF_mcvars(MCNext)

\* The programs are trees as the optimiser leaves them.
ASSUME ProgramsAssumption ==
  \A x \in Machines : \A s \in Programs(x[2], x[3]) : A(x[1])!Convertible(Mg(x[1])!TreeOf(s))

\* "DIV command gave infinite loop".
GivenUp == machine.cell = Unlimited /\ vm.status = "exit"

\* What has been read and written so far is the beginning of what the tree
\* interpreter reads and writes, and at the end all of it: merged movements,
\* rails and cells wider than they should be, or of two kinds, are not seen.
\* Only a division of a negative number of unlimited size is given up.
ReadsAndWritesAsTree ==
  /\ IsPrefix(vm.io, expected.io)
       \/ (expected.status = "run" /\ IsPrefix(expected.io, vm.io))
  /\ vm.status # "run" /\ ~GivenUp =>
       \A d \in Devices : machine = d => Mg(d)!Agrees(expected, vm, FALSE)

\* A program that ends under the tree interpreter ends in the array.
EndsAsTree ==
  (conv.done /\ expected.status # "run") ~> (vm.status = expected.status \/ GivenUp)
=============================================================================
