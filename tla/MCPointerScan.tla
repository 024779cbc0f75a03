---------------------------- MODULE MCPointerScan ---------------------------
(***************************************************************************)
(* pointer_scan on every balanced tree of up to MaxLen nodes drawn from a  *)
(* small set, and on some longer ones.  Whole programs are compiled, and   *)
(* with -H fragments.                                                      *)
(***************************************************************************)
EXTENDS PointerScan, Meaning

CONSTANT
  MaxLen       \* the longest sequence of nodes

Mov(c)  == At("MOV", c, 0)
Inc     == At("ADD", 1, 0)
Dec     == At("ADD", -1, 0)
Prt     == At("PRT", 0, 0)
While   == Blank("WHL")
End     == Blank("END")
Calc3   == [At("CALC", 1, 0) EXCEPT !.count2 = 1, !.offset2 = 1, !.offset3 = -1]
Less    == [At("LT", 1, 0) EXCEPT !.count2 = 1, !.offset2 = 0,
                                  !.count3 = 1, !.offset3 = 1]

\* Sequences are drawn from one of these sets.
Alphabets ==
  { {Mov(1), Mov(-1), Dec, While, End},
    {Mov(1), Mov(-2), Calc3, Less, Prt, Blank("IF"), Blank("ENDIF")},
    {Mov(1), Inc, Prt, Blank("INP"), At("NOP", 0, 0), While, End} }

Fits(s) ==
  /\ IsBalanced(s)
  /\ \A i \in DOMAIN s : s[i].type \in Openers =>
       (s[i].type = "IF") = (s[PartnerOf(s, i)].type = "ENDIF")
  /\ \E i \in DOMAIN s : s[i].type = "MOV"

Longer ==
  { << Inc, Mov(1), While, Mov(1), While, Mov(-1), Dec, End, Mov(2), End, Mov(1), Prt >>,
    << Mov(1), While, While, Mov(1), End, While, Mov(-1), End, Mov(1), Dec, End, Prt >> }

Shorter == UNION {[1 .. k -> a] : k \in 1 .. MaxLen, a \in Alphabets}

MCStartTrees == {TreeOf(s) : s \in {r \in Shorter : Fits(r)} \cup Longer}

\* The pass is plain sequential code: it runs on as long as it can.
MCSpec == Spec /\ WF_vars(Next)

\* Cells the tapes start with: a blank tape and one where loops are entered.
MCTapes == {<<>>, [x \in -2 .. 2 |-> 1 + (x % 2)]}
MCStdin == <<1, 0>>
=============================================================================
