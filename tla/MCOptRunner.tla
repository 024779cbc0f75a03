---------------------------- MODULE MCOptRunner ----------------------------
(***************************************************************************)
(* -Orun on every balanced tree of up to MaxLen nodes, followed by code    *)
(* that shows what is on the tape: three cells are set, some nodes follow, *)
(* one is read and two are written.                                        *)
(***************************************************************************)
EXTENDS OptRunner, Meaning

CONSTANTS
  MaxLen,      \* the nodes drawn
  Fuel,        \* steps of a run of the tree the pass is given
  MaxTurns     \* bound on the steps of the trial run

VARIABLES
  given,       \* the tree before the pass
  expected,    \* its run
  turns        \* of the trial run, for the bound

Rail == { At("ADD", -1, 0), At("ADD", 1, 1), At("PRT", 0, 1), At("MOV", 1, 0),
          Blank("WHL"), Blank("END"), Blank("INP") }

Sums == { [At("CALC", 1, -1) EXCEPT !.count2 = 2, !.offset2 = 1],
          [At("CALCMULT", 0, 2) EXCEPT !.count2 = 1, !.offset2 = 1, !.count3 = 1, !.offset3 = 0],
          [At("LT", 0, 0) EXCEPT !.count2 = 1, !.offset2 = 0, !.count3 = 1, !.offset3 = 1],
          At("IF", 0, 1), At("ENDIF", 0, 1), At("MOV", -2, 0), At("INPI", 0, 1),
          At("CHR", 200, 0) }

Stops == { At("STOP", 0, 0), Blank("WHL"), Blank("END"), Blank("INP"), At("PRTI", 0, 1),
           At("SET", 0, 0), At("CHR", 65, 0) }

Fits(s) ==
  /\ IsBalanced(s)
  /\ \A i \in DOMAIN s : s[i].type \in Openers =>
       /\ s[PartnerOf(s, i)].offset = s[i].offset
       /\ (s[i].type = "IF") = (s[PartnerOf(s, i)].type = "ENDIF")

Setup   == <<At("SET", 2, 0), At("SET", 3, 1)>>
Endings == { <<Blank("INP"), Blank("PRT"), At("PRT", 0, 1)>>, <<Blank("PRT")>> }

\* Nothing to be run, a debugging dump, a T_PRTI behind a loop that is dead.
Others == { <<Blank("INP"), Blank("PRT")>>,
            <<At("SET", 3, 1), Blank("DUMP"), At("PRT", 0, 1), Blank("INP"), At("PRT", 0, 1)>>,
            <<At("SET", 1, 1), Blank("WHL"), Blank("INP"), Blank("END"), Blank("PRTI")>> }

MCOptTrees ==
  { TreeOf(Setup \o s \o f) :
      s \in {r \in UNION {[1 .. k -> a] : k \in 0 .. MaxLen, a \in {Rail, Sums, Stops}} : Fits(r)},
      f \in Endings }
  \cup { TreeOf(s) : s \in Others }

Stdin == <<1, 2>>

WithoutDumps(m) == [m EXCEPT !.io = SelectSeq(@, LAMBDA e : e.ev # "dump")]

mcvars == <<vars, given, expected, turns>>

MCInit ==
  /\ Init
  /\ given = tree
  /\ expected = WithoutDumps(Run(tree, <<>>, Stdin, Fuel))
  /\ turns = 0

\* The trial run of a program that does not end is cut off.
CutOff == turns = MaxTurns \/ ~HasRoomFor(tree, 5)

MCNext ==
  /\ \/ ~CutOff /\ Next /\ turns' = turns + (IF phase = "run" THEN 1 ELSE 0)
     \/ CutOff /\ UNCHANGED <<vars, turns>>
  /\ UNCHANGED <<given, expected>>

MCSpec == MCInit /\ [][MCNext]_mcvars

\* "Then everything it's run gets converted onto a print string and some code
\* to setup the tape" (opt_runner.c:23): the new program reads and writes what
\* the old one does, and leaves the same tape and pointer where anything of the
\* program is left to use them.
RunnerKeepsMeaning ==
  phase = "over" =>
    Agrees(expected, Run(tree, <<>>, Stdin, 2 * Fuel), \E x \in NodeId : Live(tree, x) /\ x <= given.num)

\* The trial run of a program that ends is over in the time and with the
\* nodes that its own run justifies: the mark is not met for ever.
RunnerEnds == expected.status # "run" => ~CutOff
=============================================================================
