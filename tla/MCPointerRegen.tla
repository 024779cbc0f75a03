---------------------------- MODULE MCPointerRegen --------------------------
(***************************************************************************)
(* pointer_regen on every balanced tree of up to MaxLen nodes whose        *)
(* commands and loops have offsets, as the passes before it leave them:    *)
(* with -fno-loop-offset, and by default, when the statistics decide       *)
(* whether the pass does anything.  The range of short offsets is scaled   *)
(* down so that both happen.                                               *)
(***************************************************************************)
EXTENDS PointerRegen, Meaning

CONSTANTS
  MaxLen       \* the longest sequence of nodes

VARIABLE
  asked        \* -fno-loop-offset is given

\* A value that a .cfg cannot spell.
MinusOne == -1

\* The pass by default; with -fno-loop-offset opt_regen_mov is 1.
D == INSTANCE PointerRegen WITH opt_regen_mov <- -1

While(off) == At("WHL", 0, off)
End(off)   == At("END", 0, off)
Less       == [At("LT", 1, 1) EXCEPT !.count2 = 1, !.offset2 = 0,
                                     !.count3 = 1, !.offset3 = 2]

\* Sequences are drawn from one of these sets.
Alphabets ==
  { {At("ADD", -1, 1), At("PRT", 0, 0), At("MOV", 1, 0)}
      \cup {While(o) : o \in {0, 1}} \cup {End(o) : o \in {0, 1}},
    { [At("CALC", 1, 0) EXCEPT !.count2 = 1, !.offset2 = 2], Less,
      At("PRT", 0, 1), At("DUMP", 0, 1), At("MOV", -1, 0),
      At("IF", 0, 1), At("ENDIF", 0, 1) } }

Fits(s) ==
  /\ IsBalanced(s)
  /\ \A i \in DOMAIN s : s[i].type \in Openers =>
       /\ s[PartnerOf(s, i)].offset = s[i].offset
       /\ (s[i].type = "IF") = (s[PartnerOf(s, i)].type = "ENDIF")

MCRegenTrees ==
  { TreeOf(s) : s \in {r \in UNION {[1 .. k -> a] : k \in 1 .. MaxLen, a \in Alphabets} : Fits(r)} }

MCInit == Init /\ asked \in BOOLEAN
MCNext ==
  /\ \/ asked /\ Next
     \/ ~asked /\ D!Next
  /\ UNCHANGED asked
MCSpec == MCInit /\ [][MCNext]_<<vars, asked>>

MCTapes == {<<>>, [x \in -2 .. 3 |-> 1 + (x % 2)]}
MCStdin == <<1, 0>>
=============================================================================
