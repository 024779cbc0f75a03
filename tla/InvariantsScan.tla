--------------------------- MODULE InvariantsScan ---------------------------
(***************************************************************************)
(* invariants_scan and trim_trailing_sets (tritium/bfi.c): the passes that *)
(* rewrite the tree by what is known of the cells.  Constants are folded,  *)
(* dead loops deleted, loops run at compile time or turned into            *)
(* conditionals, multiplications, comparisons and divisions.  After each   *)
(* change the cursor steps back, so that one change leads to the next.     *)
(* One action is one iteration of the loop of invariants_scan.             *)
(*                                                                         *)
(* Left out: what is done when cells are of no known width, or as wide as  *)
(* an int; -fno-negtape; T_STR, which is the T_CHRs it is made of, next to *)
(* each other.  orgtype is T_WHL for what is, or was, an opening bracket.  *)
(***************************************************************************)
EXTENDS BFTree, FiniteSets, SequencesExt

CONSTANTS
  no,            \* the options -fno-...: calctok, lttok, divtok, endif, litprt,
                 \* kv_recursion, kv_mov, loop_classify
  SEARCHDEPTH,   \* how often a walk may split
  SEARCHRANGE    \* a node further away than 3/4 of it is not changed

VARIABLES
  tree,    \* the program
  n,       \* the cursor
  trimmed  \* trim_trailing_sets has been called

vars == <<tree, n, trimmed>>

On(option) == option \notin no

(***************************************************************************)
(* What is known of a cell when a node is reached (find_known_value), found*)
(* by walking back from it.  At the end of a loop, and at its beginning,   *)
(* the walk splits: the value may come from the loop's body or from before *)
(* the loop, and both must agree.  All rewriting rests on this search.     *)
(***************************************************************************)

\* The macro that cuts an int to the width of a cell and extends its sign,
\* which narrow cells do not have.
SM(v) ==
  IF 2^(CellBits - 1) < 127 THEN UM(v)
  ELSE UM(v + 2^(CellBits - 1)) - 2^(CellBits - 1)

(***************************************************************************)
(* A walk: the node it has come to, the offset from there of the cell      *)
(* looked for, the ends of loops passed without their beginnings, whether  *)
(* the cell was used on the way, the nodes passed and the movement.  Then  *)
(* its result: a constant or none, the node given as a limit met, and      *)
(* unknown if nothing may be concluded at all.                             *)
(***************************************************************************)
WalkFrom(m, off, used) ==
  [ n |-> m, off |-> off, ends |-> 0, used |-> used, distance |-> 0, shift |-> 0,
    over |-> FALSE, const |-> FALSE, value |-> 0, hit |-> FALSE, unknown |-> FALSE ]

Stopped(s)   == [s EXCEPT !.over = TRUE]
Blocked(s)   == [s EXCEPT !.over = TRUE, !.unknown = TRUE]
Found(s, v)  == [s EXCEPT !.over = TRUE, !.const = TRUE, !.value = SM(v)]
Used(s, cnd) == [s EXCEPT !.used = @ \/ cnd]

\* n = n->prev, unless that is the limit or the walk has gone too far.
Back(t, s, depth, stop) ==
  LET m == t.prev[s.n] IN
  CASE s.over                             -> s
    [] ~s.over /\ stop # Null /\ m = stop -> [s EXCEPT !.n = Null, !.hit = TRUE, !.over = TRUE]
    [] OTHER -> [s EXCEPT !.n = m, !.distance = @ + 1, !.over = s.distance + 1 > 2^(depth + 2)]

\* A walk of its own, on behalf of s: through a body, or before a loop.
Branch(s, m) == [WalkFrom(m, s.off, s.used) EXCEPT !.unknown = s.unknown]

\* What s learns from a branch.
Joined(s, b)  == [s EXCEPT !.used = b.used, !.unknown = b.unknown]
Nowhere(s)    == [s EXCEPT !.n = Null, !.over = TRUE]

\* Wrong on purpose: what the cell has before the loop does not matter.
BodyOnly(s, inside, before) == Found(Nowhere(Joined(s, before)), inside.value)

\* The body gives a constant.  It counts if the cell has it before the loop too.
Both(s, inside, before) ==
  LET j == Nowhere(Joined(s, before)) IN
  CASE ~before.const                 -> j
    [] before.const /\ before.value = inside.value -> Found(j, before.value)
    [] OTHER                         -> [j EXCEPT !.unknown = TRUE]

\* Behind a loop that is itself in a loop whose beginning has been reached, a
\* zero counts: the cell is as it was, or zero.
AfterLoop(s, inside, before) ==
  IF before.hit /\ inside.value = 0
  THEN Found(Nowhere(Joined(s, before)), 0)
  ELSE Both(s, inside, before)

\* At the beginning of a loop it does not.
AtLoop(s, inside, before) ==
  IF before.hit
  THEN [Nowhere(Joined(s, before)) EXCEPT !.unknown = TRUE]
  ELSE Both(s, inside, before)

\* Nothing in the body touches the cell, nor does the body move.
Untouched(inside) == inside.hit /\ inside.shift = 0

RECURSIVE Search(_, _, _, _)

\* case T_END, T_ENDIF.
VisitEnd(t, s, depth, stop) ==
  LET nd     == t.node[s.n]
      open   == nd.jmp
      u      == Used(s, t.node[open].offset = s.off)
      inside == Search(t, Branch(u, t.prev[s.n]), depth - 1, open)
      before == Search(t, Branch(Joined(u, inside), t.prev[open]), depth - 1, stop)
      onward == [Used(u, TRUE) EXCEPT !.n = open]
  IN CASE nd.type = "END" /\ nd.offset = s.off ->
            IF s.ends > 0 THEN Stopped(s) ELSE Found(Used(s, TRUE), 0)
       [] ~(nd.type = "END" /\ nd.offset = s.off) /\ depth = 0 -> [u EXCEPT !.ends = @ + 1]
       [] ~(nd.type = "END" /\ nd.offset = s.off) /\ depth > 0 ->
            IF t.node[t.prev[s.n]].type = "STOP"
            THEN IF t.node[open].offset = s.off THEN Found(Used(u, TRUE), 0) ELSE onward
            ELSE CASE inside.const -> AfterLoop(u, inside, before)
                   [] ~inside.const /\ Untouched(inside) -> [onward EXCEPT !.unknown = inside.unknown]
                   [] OTHER -> Nowhere(Joined(u, inside))

\* case T_WHL, T_MULT, T_CMULT.
VisitLoop(t, s, depth, stop) ==
  LET u      == [Used(s, t.node[s.n].offset = s.off) EXCEPT !.ends = IF @ > 0 THEN @ - 1 ELSE 0]
      inside == Search(t, Branch(u, t.prev[t.node[s.n].jmp]), depth - 1, s.n)
      before == Search(t, Branch(Joined(u, inside), t.prev[s.n]), depth - 1, stop)
  IN CASE depth = 0 -> Stopped(u)
       [] depth > 0 /\ inside.const -> AtLoop(u, inside, before)
       [] depth > 0 /\ ~inside.const /\ Untouched(inside) -> Joined(u, inside)
       [] OTHER -> Nowhere(Joined(u, inside))

Reads(nd, off) ==
  (nd.count2 # 0 /\ nd.offset2 = off) \/ (nd.count3 # 0 /\ nd.offset3 = off)

\* The switch.
Visit(t, s, depth, stop) ==
  LET nd   == t.node[s.n]
      here == nd.offset = s.off
  IN CASE nd.type = "SET" /\ here ->
            IF s.ends > 0 THEN Stopped(s) ELSE Found(s, nd.count)
       [] nd.type = "ADD" /\ here -> Stopped(s)
       [] nd.type \in {"CALC", "CALCMULT", "LT"} ->
            IF here THEN Stopped(s) ELSE Used(s, Reads(nd, s.off))
       [] nd.type \in {"PRT", "PRTI", "INP", "INPI"} /\ here -> Stopped(Used(s, TRUE))
       [] nd.type = "MOV" ->
            IF s.ends > 0 \/ "kv_mov" \in no THEN Blocked(s)
            ELSE [s EXCEPT !.off = @ + nd.count, !.shift = @ + nd.count]
       [] nd.type \in Closers -> VisitEnd(t, s, depth, stop)
       [] nd.type = "IF" ->
            [Used(s, here \/ s.ends = 0) EXCEPT !.ends = IF @ > 0 THEN @ - 1 ELSE 0]
       [] nd.type \in Openers \ {"IF"} -> VisitLoop(t, s, depth, stop)
       [] nd.type \in {"NOP", "CHR"}
          \/ (~here /\ nd.type \in {"SET", "ADD", "PRT", "PRTI", "INP", "INPI"}) -> s
       [] nd.type \in {"DIV", "STOP", "DUMP"} -> Blocked(s)

\* while (n) { ... }; the tape starts blank unless a fragment is compiled.
Search(t, s, depth, stop) ==
  CASE s.over -> s
    [] ~s.over /\ s.n = Null ->
         IF noheader THEN Stopped(Used(s, TRUE)) ELSE Found(Used(s, TRUE), 0)
    [] OTHER -> Search(t, Back(t, Visit(t, s, depth, stop), depth, stop), depth, stop)

Depth == IF "kv_recursion" \in no THEN 0 ELSE SEARCHDEPTH

\* What a walk has shown: the value, if that is known, and the node that made
\* it, if no use of the cell lies between.
Shown(s) ==
  IF s.unknown THEN [const |-> FALSE, value |-> 0, n |-> Null]
  ELSE [ const |-> s.const, value |-> s.value,
         n |-> IF s.used \/ s.ends > 0 \/ s.distance > (SEARCHRANGE \div 4) * 3
               THEN Null ELSE s.n ]

\* The cell at offset off when control has passed node m.
FindKnownValue(t, m, off) == Shown(Search(t, WalkFrom(m, off, FALSE), Depth, Null))

(***************************************************************************)
(* The rewriting functions.                                                *)
(***************************************************************************)

\* What a rewriting function returns, and the tree it leaves.
Yes(t) == [t |-> t, changed |-> TRUE]
No(t)  == [t |-> t, changed |-> FALSE]

Retyped(t, xs, tok) ==
  [t EXCEPT !.node = [x \in NodeId |-> IF x \in xs THEN [@[x] EXCEPT !.type = tok] ELSE @[x]]]

BothNop(t, v) == Retyped(t, {v, t.node[v].jmp}, "NOP")
SetCount(t, v, c) == [t EXCEPT !.node[v].count = c]

\* The nodes from a on up to, but without, b.
Span(t, a, b) ==
  LET w[i \in 0 .. MaxNode] ==
        IF i = 0 THEN <<>>
        ELSE LET s == w[i - 1]
                 x == IF s = <<>> THEN a ELSE t.next[Last(s)]
             IN  IF x \in {b, Null} THEN s ELSE Append(s, x)
  IN  w[MaxNode]

Body(t, v)  == Span(t, t.next[v], t.node[v].jmp)
BodySet(t, v) == Range(Body(t, v))

\* Wrong on purpose: the prev of the node that follows is forgotten.
MovedOneWay(t, x, p) ==
  LET out  == Edit(t, [t.next EXCEPT ![t.prev[x]] = t.next[x]],
                      SetPrev(t.prev, t.next[x], t.prev[x]), t.node)
  IN  Edit(out, [out.next EXCEPT ![p] = x, ![x] = out.next[p]],
                [out.prev EXCEPT ![x] = p], out.node)

\* Moves node x, somewhere else in the list, behind node p.
MovedAfter(t, x, p) ==
  LET out  == Edit(t, [t.next EXCEPT ![t.prev[x]] = t.next[x]],
                      SetPrev(t.prev, t.next[x], t.prev[x]), t.node)
      rest == out.next[p]
  IN  Edit(out, [out.next EXCEPT ![p] = x, ![x] = rest],
                SetPrev([out.prev EXCEPT ![x] = p], rest, x), out.node)

(***************************************************************************)
(* flatten_loop: a loop that is entered with a known count, and adds,      *)
(* sets, or multiplies one cell, is what it does so many times.            *)
(***************************************************************************)

Abs(x) == IF x < 0 THEN -x ELSE x

\* The times a loop runs whose count starts at k and changes by step: one
\* number or, if it cannot be told, none.
Times(k, step) ==
  LET ends == {i \in 0 .. 255 : (k + i * step) % 256 = 0} IN
  IF step = -1 THEN {k}
  ELSE IF step = 0 THEN {}
  ELSE IF CellBits = 8 THEN IF ends = {} THEN {} ELSE {Min(ends)}
  ELSE IF (step > 0) = (k < 0) /\ Abs(k) % Abs(step) = 0 THEN {Abs(k) \div Abs(step)}
  ELSE IF Abs(step) = 2 /\ CellBits > 1 /\ step = k THEN {2^(CellBits - 1) - 1}
  ELSE {}

IsPower(t, x, v) ==
  LET nd == t.node[x] IN
  /\ nd.type = "CALC" /\ nd.offset # t.node[v].offset
  /\ nd.count = 0 /\ nd.count3 = 0 /\ nd.count2 \in 1 .. 1000
  /\ nd.offset = nd.offset2

\* An addition to a cell set before it, in the same round, is itself a setting.
SetBefore(t, v, x) ==
  LET at     == t.node[x].offset
      before == SelectSeq(Span(t, t.next[v], x),
                          LAMBDA y : t.node[y].type \in {"ADD", "SET"} /\ t.node[y].offset = at)
  IN  IF before # <<>> /\ t.node[Last(before)].type = "SET"
      THEN [t EXCEPT !.node[x].type = "SET", !.node[x].count = @ + t.node[Last(before)].count]
      ELSE t

WithSettings(t, v) ==
  FoldLeft(LAMBDA u, x : IF u.node[x].type = "ADD" THEN SetBefore(u, v, x) ELSE u,
           t, Body(t, v))

Repeated(nd, times) ==
  CASE nd.type = "ADD"  -> [nd EXCEPT !.count = SM(@ * times)]
    [] nd.type = "CALC" -> [nd EXCEPT !.count2 = SM(@ ^ times)]
    [] OTHER            -> nd

Flattened(t, v, times) ==
  LET u == WithSettings(t, v)
      b == BodySet(t, v)
  IN  BothNop([u EXCEPT !.node = [x \in NodeId |-> IF x \in b THEN Repeated(@[x], times) ELSE @[x]]], v)

FlattenLoop(t, v, k) ==
  LET b      == BodySet(t, v)
      nd(x)  == t.node[x]
      steps  == {x \in b : nd(x).type \in {"ADD", "SET"} /\ nd(x).offset = nd(v).offset}
      powers == {x \in b : IsPower(t, x, v)}
      step   == CHOOSE x \in steps : TRUE
      znode  == nd(step).type = "SET"
      times  == IF znode THEN {1} ELSE Times(k, nd(step).count)
  IN  IF /\ Cardinality(steps) = 1
         /\ znode => nd(step).count = 0
         /\ \/ \A x \in b : nd(x).type \in {"ADD", "SET"}
            \/ /\ Cardinality(powers) = 1 /\ b = powers \cup steps
               /\ k \in 1 .. 15
               /\ znode \/ nd(step).count = -1
         /\ times # {}
      THEN Yes(Flattened(t, v, CHOOSE i \in times : TRUE))
      ELSE No(t)

(***************************************************************************)
(* scan_one_node: what follows for node v from what is known of its cell.  *)
(***************************************************************************)

\* Nothing is known.  f is the last node that changed the cell, if it can go.
MergedInto(t, v, f) ==
  LET c == SM(t.node[f].count + t.node[v].count)
      u == SetCount(Retyped(t, {v}, "NOP"), f, c)
  IN  IF c = 0 /\ t.node[f].type = "ADD" THEN Unlinked(u, f) ELSE u

ChangesCell(t, f, off, types) ==
  f # Null /\ t.node[f].type \in types /\ t.node[f].offset = off

\* Past the commands that cannot change the condition.
BeforeCondition(t, v) ==
  LET b[i \in 0 .. MaxNode] ==
        IF i = 0 THEN t.prev[v]
        ELSE LET x == b[i - 1] IN
             IF /\ x # Null /\ t.node[x].type \in {"ADD", "SET", "CALC"}
                /\ t.node[x].offset # t.node[v].offset
             THEN t.prev[x] ELSE x
  IN  b[MaxNode]

IsSuperfluousIf(t, v) ==
  \/ ChangesCell(t, BeforeCondition(t, v), t.node[v].offset, Openers)
  \/ t.node[v].jmp = t.next[v]

ScanUnknown(t, v, f) ==
  LET nd == t.node[v] IN
  CASE nd.type = "ADD" /\ ChangesCell(t, f, nd.offset, {"ADD", "CALC"}) -> Yes(MergedInto(t, v, f))
    [] nd.type = "ADD" /\ ~ChangesCell(t, f, nd.offset, {"ADD", "CALC"}) /\ nd.count = 0 ->
         Yes(Retyped(t, {v}, "NOP"))
    [] nd.type = "SET" /\ ChangesCell(t, f, nd.offset, {"ADD", "CALC"}) -> Yes(Unlinked(t, f))
    [] nd.type = "IF" /\ IsSuperfluousIf(t, v) -> Yes(BothNop(t, v))
    [] OTHER -> No(t)

\* An addition becomes a setting; it is not needed if it changes nothing, and
\* if it does, an earlier one is not.
ScanSet(t, v, f, value) ==
  LET nd == t.node[v]
      c  == IF nd.type = "ADD" THEN SM(nd.count + value) ELSE nd.count
      u  == SetCount(Retyped(t, {v}, "SET"), v, c)
  IN  IF value = c THEN Yes(Retyped(u, {v}, "NOP"))
      ELSE IF f # Null /\ t.node[f].type \in {"SET", "CALC"} THEN Yes(Unlinked(u, f))
      ELSE No(u)

SignedChar(c) == ((c + 128) % 256) - 128

Literal(value) ==
  IF UM(value) < 128 \/ iostyle # 1 THEN SignedChar(UM(value)) ELSE UM(value)

ScanOpen(t, v, value) ==
  IF value = 0 THEN Yes(Retyped(t, {v}, "DEAD"))
  ELSE IF t.node[v].type = "IF" THEN Yes(BothNop(t, v))
  ELSE FlattenLoop(t, v, value)

\* The cell is zero at the end of a loop: it is run at most once.  The zero is
\* set behind it.  If the count was saved as the last thing, and what it was
\* saved in is zero before, the saving is done behind it too.
SavesCount(t, p, open) ==
  LET nd == t.node[p]
      loop == t.node[open].offset
  IN  /\ p # Null /\ nd.type = "CALC" /\ nd.count = 0
      /\ \/ nd.count2 # 0 /\ nd.count3 = 0 /\ nd.offset2 = loop /\ nd.offset # loop
         \/ /\ nd.count2 = 1 /\ nd.offset2 = nd.offset
            /\ nd.count3 # 0 /\ nd.offset3 = loop /\ nd.offset # loop
            /\ t.next[t.next[open]] = p

Saving(nd) ==
  LET third == nd.count3 # 0 IN
  [ At("CALC", 0, nd.offset) EXCEPT
      !.count2  = IF third THEN nd.count3 ELSE nd.count2,
      !.offset2 = IF third THEN nd.offset3 ELSE nd.offset2 ]

AsConditional(t, v) ==
  Retyped(Retyped(t, {t.node[v].jmp}, "IF"), {v}, "ENDIF")

\* p is the last node of the body, temp what is known of its cell before the loop.
SavedBehind(t, v, p, temp) ==
  IF SavesCount(t, p, t.node[v].jmp) /\ temp.const /\ temp.value = 0
  THEN Retyped(AddNodeAfter(t, v, Saving(t.node[p])), {p}, "NOP")
  ELSE t

BehindEnd(t, v) ==
  SavedBehind(t, v, t.prev[v],
              FindKnownValue(t, t.prev[t.node[v].jmp], t.node[t.prev[v]].offset))

ScanEnd(t, v, f) ==
  LET u == IF f # Null /\ t.node[f].type = "SET" THEN Unlinked(t, f) ELSE t
  IN  Yes(BehindEnd(AddNodeAfter(AsConditional(u, v), v, At("SET", 0, t.node[v].offset)), v))

\* k is what is known of the cell of v.
ScanKnown(t, v, k) ==
  LET nd == t.node[v] IN
  CASE ~k.const -> ScanUnknown(t, v, k.n)
    [] k.const /\ nd.type \in {"ADD", "SET"} -> ScanSet(t, v, k.n, k.value)
    [] k.const /\ nd.type = "PRT" /\ On("litprt") ->
         Yes(SetCount(Retyped(t, {v}, "CHR"), v, Literal(k.value)))
    [] k.const /\ nd.type \in Openers -> ScanOpen(t, v, k.value)
    [] /\ k.const /\ nd.type = "END" /\ k.value = 0
       /\ t.node[nd.jmp].type # "IF" /\ On("endif") -> ScanEnd(t, v, k.n)
    [] OTHER -> No(t)

ScanOneNode(t, v) == ScanKnown(t, v, FindKnownValue(t, t.prev[v], t.node[v].offset))

(***************************************************************************)
(* find_known_calc_state: T_CALC, m[offset] = count + count2*m[offset2]    *)
(* + count3*m[offset3].  Each part takes the node as the parts before it   *)
(* have left it.                                                           *)
(***************************************************************************)

\* Wrong on purpose: the operands are always swapped.
AlwaysSwapped(nd) ==
  IF nd.count3 # 0
  THEN [nd EXCEPT !.offset2 = nd.offset3, !.count2 = nd.count3,
                  !.offset3 = nd.offset2, !.count3 = nd.count2]
  ELSE nd

\* Both operands are the same cell; or only the third is the result's cell.
Ordered(nd) ==
  LET one == IF nd.count2 # 0 /\ nd.count3 # 0 /\ nd.offset2 = nd.offset3
             THEN [nd EXCEPT !.count2 = SM(@ + nd.count3), !.count3 = 0] ELSE nd
  IN  IF one.count3 # 0 /\ one.offset = one.offset3
      THEN [one EXCEPT !.offset2 = one.offset3, !.count2 = one.count3,
                       !.offset3 = one.offset2, !.count3 = one.count2]
      ELSE one

ReadsResult(nd) == Reads(nd, nd.offset)

\* f made the result's cell before, and v overwrites it unread.
Overwrites(nd, t, f) ==
  ~ReadsResult(nd) /\ f # Null /\ t.node[f].type \in {"ADD", "SET", "CALC"}

\* Constants go into count, and what is left comes first.
Folded(nd, k2, k3) ==
  LET two   == nd.count2 # 0 /\ k2.const
      three == nd.count3 # 0 /\ k3.const
      c     == [nd EXCEPT !.count  = SM(@ + (IF two THEN nd.count2 * k2.value ELSE 0)
                                          + (IF three THEN nd.count3 * k3.value ELSE 0)),
                          !.count2 = IF two THEN 0 ELSE @,
                          !.count3 = IF three THEN 0 ELSE @]
  IN  IF ~two /\ ~three THEN nd ELSE c

SecondFirst(nd) ==
  IF nd.count2 = 0 /\ nd.count3 # 0
  THEN [nd EXCEPT !.offset2 = nd.offset3, !.count2 = nd.count3, !.count3 = 0]
  ELSE nd

\* The node that made the first operand left, if it can go.
Source(nd, k2, k3) ==
  IF nd.count2 # 0 /\ ~k2.const THEN k2.n
  ELSE IF nd.count3 # 0 /\ ~k3.const THEN k3.n
  ELSE Null

\* search_for_update_of_offset: no node from a to v changes the cell.
Unchanged(t, a, v, off) ==
  \A x \in Range(Span(t, a, v)) :
    \/ t.node[x].type \in {"PRT", "PRTI", "CHR", "NOP"}
    \/ t.node[x].type \in Openers \cup {"ADD", "SET", "CALC", "CALCMULT", "LT"}
       /\ t.node[x].offset # off

IsCopy(nd) == nd.count2 = 1 /\ nd.count3 = 0 /\ nd.count = 0

IsCalc(t, s) == s # Null /\ t.node[s].type = "CALC"

\* Wrong on purpose: the operands may have changed since.
RecalculateAnyway(t, v, s) == IsCalc(t, s) /\ IsCopy(t.node[v])

\* v copies what s calculated: calculate it here.
CanRecalculate(t, v, s) ==
  /\ IsCalc(t, s) /\ IsCopy(t.node[v])
  /\ t.node[s].count2 # 0 => Unchanged(t, s, v, t.node[s].offset2)
  /\ t.node[s].count3 # 0 => Unchanged(t, s, v, t.node[s].offset3)

Recalculated(t, v, s) ==
  LET u == [t EXCEPT !.node[v] = [t.node[s] EXCEPT !.offset = t.node[v].offset]] IN
  IF t.node[s].offset = t.node[v].offset THEN Unlinked(u, s) ELSE u

\* s calculates, v copies, and the next node wipes what s made.
Wipes(t, x, off) == x # Null /\ t.node[x].type = "SET" /\ t.node[x].offset = off

CanCalculateThere(t, v, s) ==
  /\ IsCalc(t, s) /\ IsCopy(t.node[v]) /\ t.next[s] = v
  /\ Wipes(t, t.next[v], t.node[s].offset)

CalculatedThere(t, v, s) ==
  [t EXCEPT !.node[s].offset  = t.node[v].offset,
            !.node[v].offset  = t.node[s].offset,
            !.node[v].offset2 = t.node[v].offset,
            !.node[v].type    = "NOP"]

\* s multiplies, v multiplies again, and the next node wipes what s made.
CanMultiply(t, v, s) ==
  LET x == t.next[v] IN
  /\ IsCalc(t, s) /\ t.next[s] = v /\ t.node[v].count2 # 0
  /\ t.node[s].count = 0 /\ t.node[s].count3 = 0
  /\ \/ Wipes(t, x, t.node[s].offset)
     \/ /\ x # Null /\ t.node[x].type = "CALC" /\ t.node[x].offset = t.node[s].offset
        /\ t.node[x].count3 = 0 /\ t.node[x].offset2 # t.node[s].offset

Multiplied(t, v, s) ==
  Unlinked([t EXCEPT !.node[v].offset2 = t.node[s].offset2,
                     !.node[v].count2  = SM(@ * t.node[s].count2)], s)

\* A calculation without operands, and one that adds.
Simplified(nd) ==
  CASE nd.count2 = 0 /\ nd.count3 = 0 -> [nd EXCEPT !.type = "SET", !.count = SM(@)]
    [] nd.count2 = 1 /\ nd.count3 = 0 /\ nd.offset = nd.offset2 ->
         [nd EXCEPT !.type = IF SM(nd.count) = 0 THEN "NOP" ELSE "ADD", !.count = SM(@)]
    [] OTHER -> nd

SimplifiedAt(t, v) == [t EXCEPT !.node[v] = Simplified(@)]

\* The operands have been folded, and s made what is left of them.
CalcFrom(t, v, s) ==
  IF CanRecalculate(t, v, s) THEN SimplifiedAt(Recalculated(t, v, s), v)
  ELSE IF CanCalculateThere(t, v, s) THEN SimplifiedAt(CalculatedThere(t, v, s), v)
  ELSE IF CanMultiply(t, v, s) THEN Multiplied(t, v, s)
  ELSE SimplifiedAt(t, v)

\* k1, k2 and k3 is what is known of the result's cell and of the operands.
CalcKnown(t, v, k1, k2, k3) ==
  LET nd == t.node[v]
      u  == [t EXCEPT !.node[v] = SecondFirst(Folded(nd, k2, k3))]
  IN  IF Overwrites(nd, t, k1.n) THEN Unlinked(t, k1.n)
      ELSE CalcFrom(u, v, Source(nd, k2, k3))

CalcOrdered(t, v) ==
  LET nd == t.node[v]
      k(off) == FindKnownValue(t, t.prev[v], off)
  IN  CalcKnown(t, v, k(nd.offset), k(nd.offset2), k(nd.offset3))

Compared(t, new) == [t |-> new, changed |-> new # t]

FindKnownCalcState(t, v) ==
  Compared(t, CalcOrdered([t EXCEPT !.node[v] = Ordered(@)], v))

\* find_known_calcmult_state: T_CALCMULT, the product of two cells.
CalcmultKnown(t, v, k1, k2, k3) ==
  LET nd == t.node[v] IN
  IF Overwrites(nd, t, k1.n) THEN Yes(Unlinked(t, k1.n))
  ELSE IF nd.count2 = 1 /\ nd.count3 = 1 /\ k2.const /\ k3.const
  THEN Yes([t EXCEPT !.node[v] = At("SET", nd.count + k2.value * k3.value, nd.offset)])
  ELSE No(t)

FindKnownCalcmultState(t, v) ==
  LET nd == t.node[v]
      k(off) == FindKnownValue(t, t.prev[v], off)
  IN  CalcmultKnown(t, v, k(nd.offset), k(nd.offset2), k(nd.offset3))

(***************************************************************************)
(* classify_loop: a loop that counts down by one, or is run once, and only *)
(* adds and sets, is a multiplication or a conditional.                    *)
(***************************************************************************)

\* m[offset] += m[offset3], in a loop that counts another cell.
IsProduct(t, x, v) ==
  LET nd == t.node[x] IN
  /\ nd.type = "CALC" /\ nd.offset # t.node[v].offset /\ nd.offset3 # t.node[v].offset
  /\ nd.offset = nd.offset2 /\ nd.offset # nd.offset3
  /\ nd.count = 0 /\ nd.count2 = 1 /\ nd.count3 = 1

\* The sum is a product: the loop's count is the second factor.
AsProduct(t, v, x) ==
  LET end == t.node[v].jmp
      u   == Retyped(t, ({v} \cup BodySet(t, v)) \ {x}, "NOP")
  IN  [u EXCEPT !.node[x].type    = "CALCMULT",
                !.node[x].offset2 = t.node[v].offset,
                !.node[end]       = At("SET", 0, t.node[end].offset)]

\* The change of the count goes to the end of the loop or, if it is a setting,
\* behind it.
CountMoved(t, v, dec, znode) ==
  LET end == t.node[v].jmp IN
  CASE znode -> MovedAfter(t, dec, end)
    [] ~znode /\ dec # t.prev[end] -> MovedAfter(t, dec, t.prev[end])
    [] OTHER -> t

ClassifyLoop(t, v) ==
  LET b     == BodySet(t, v)
      nd(x) == t.node[x]
      calcs == {x \in b : IsProduct(t, x, v)}
      decs  == {x \in b : nd(x).type \in {"ADD", "SET"} /\ nd(x).offset = nd(v).offset}
      dec   == CHOOSE x \in decs : TRUE
      calc  == CHOOSE x \in calcs : TRUE
      rest  == (b \ decs) \ calcs
      znode == nd(dec).type = "SET"
      temp  == FindKnownValue(t, t.prev[v], nd(calc).offset)
      u     == CountMoved(t, v, dec, znode)
      type  == IF \E x \in rest : nd(x).type = "SET" THEN "CMULT" ELSE "MULT"
  IN  IF \/ ~On("loop_classify") \/ ~On("calctok")
         \/ nd(v).type \notin {"WHL", "MULT", "CMULT"}
         \/ \E x \in rest : nd(x).type \notin {"ADD", "SET"}
         \/ Cardinality(calcs) > 1 \/ Cardinality(decs) # 1
         \/ nd(dec).count # (IF znode THEN 0 ELSE -1)
         \/ znode /\ ~On("endif")
      THEN No(t)
      ELSE IF calcs # {}
      THEN IF rest = {} /\ ~znode /\ temp.const /\ temp.value = 0
           THEN Yes(AsProduct(t, v, calc)) ELSE No(t)
      ELSE IF rest = {} THEN Yes([BothNop(u, v) EXCEPT !.node[dec].type = "SET",
                                                       !.node[dec].count = 0])
      ELSE IF znode THEN Yes(Retyped(Retyped(u, {v}, "IF"), {nd(v).jmp}, "ENDIF"))
      ELSE [t |-> Retyped(u, {v}, type), changed |-> nd(v).type # type]

(***************************************************************************)
(* flatten_multiplier: a multiplying loop's additions become calculations, *)
(* which are done once.                                                    *)
(***************************************************************************)

AsMultiple(nd, loop) ==
  IF nd.type = "ADD"
  THEN [At("CALC", 0, nd.offset) EXCEPT !.count2 = 1, !.offset2 = nd.offset,
                                        !.count3 = nd.count, !.offset3 = loop]
  ELSE nd

\* Wrong on purpose: loops that also set are forgotten.
FlattenOnlyMult(t, v) ==
  IF t.node[v].type # "MULT" THEN No(t)
  ELSE LET b == BodySet(t, v) IN
       Yes(BothNop([t EXCEPT !.node = [x \in NodeId |->
             IF x \in b THEN AsMultiple(@[x], t.node[v].offset) ELSE @[x]]], v))

FlattenMultiplier(t, v) ==
  LET b    == BodySet(t, v)
      end  == t.node[v].jmp
      loop == t.node[v].offset
      decs == {x \in b : t.node[x].offset = loop}
      dec  == CHOOSE x \in decs : \A y \in decs : x \in Range(Span(t, y, end))
      u    == [t EXCEPT !.node = [x \in NodeId |-> IF x \in b THEN AsMultiple(@[x], loop) ELSE @[x]]]
      cond == Retyped(Retyped(u, {v}, "IF"), {end}, "ENDIF")
  IN  CASE t.node[v].type = "MULT" /\ On("calctok") -> Yes(BothNop(u, v))
        [] t.node[v].type = "CMULT" /\ On("calctok") /\ On("endif") ->
             Yes(IF decs = {} THEN cond ELSE MovedAfter(cond, dec, end))
        [] OTHER -> No(t)

(***************************************************************************)
(* test_for_lessthan: m[1] { if m[0] { m[2] -= 1 } m[2] += 1; m[0] -= 1;   *)
(* m[1] -= 1 } adds m[0] < m[1] to m[2], and subtracts.                    *)
(***************************************************************************)
TestForLessthan(t, v) ==
  LET b     == BodySet(t, v)
      nd(x) == t.node[x]
      ifs   == {x \in b : nd(x).type = "IF"}
      i     == CHOOSE x \in ifs : TRUE
      less  == t.next[i]
      inner == {i, less, nd(i).jmp}
      loop  == nd(v).offset
      res   == nd(i).offset
      flag  == nd(less).offset
      Step(off, c, xs) == \E x \in xs : nd(x).offset = off /\ nd(x).count = c
      end   == nd(v).jmp
      wiped == Retyped(t, b \cup {v, end}, "NOP")
      lt    == [At("LT", 0, flag) EXCEPT !.count2 = 1, !.offset2 = res,
                                         !.count3 = 1, !.offset3 = loop]
      sub   == [At("CALC", 0, res) EXCEPT !.count2 = 1, !.offset2 = res,
                                          !.count3 = -1, !.offset3 = loop]
  IN  IF /\ On("calctok") /\ On("lttok") /\ nd(v).type = "WHL"
         /\ Cardinality(ifs) = 1
         /\ \A x \in b \ ifs : nd(x).type \in {"ADD", "ENDIF"}
         /\ nd(less).type = "ADD" /\ nd(less).count = -1 /\ nd(t.next[less]).type = "ENDIF"
         /\ Cardinality({loop, res, flag}) = 3
         /\ Cardinality(b \ inner) = 3
         /\ Step(loop, -1, b \ inner) /\ Step(flag, 1, b \ inner)
         /\ Step(res, -1, (b \ inner) \cap Range(Span(t, i, end)))
      THEN LET u == AddNodeAfter(wiped, end, At("SET", 0, loop))
           IN  Yes(AddNodeAfter(AddNodeAfter(u, end, sub), end, lt))
      ELSE No(t)

(***************************************************************************)
(* test_for_divide: one long idiom, which needs m[2] = 1 and three zeros.  *)
(***************************************************************************)
DivRoutine ==
  LET W(off) == At("WHL", 0, off)
      E(off) == At("END", 0, off)
      A(off, c) == At("ADD", c, off)
  IN << W(0), A(0, -1), A(1, -1), W(1), A(2, 1), At("MOV", 3, 0), E(1), W(2),
        [At("CALC", 0, 1) EXCEPT !.count2 = 1, !.offset2 = 1, !.count3 = 1, !.offset3 = 2],
        At("SET", 1, 2), A(3, 1), At("MOV", 3, 0), E(2), At("MOV", -3, 0), E(0) >>

Matches(nd, pattern, base) ==
  /\ nd.type = pattern.type
  /\ nd.type # "MOV" => nd.offset - base = pattern.offset
  /\ nd.type \notin Bracket => nd.count = pattern.count
  /\ nd.type = "CALC" => /\ nd.count2 = 1 /\ nd.count3 = 1
                         /\ nd.offset2 - base = pattern.offset2
                         /\ nd.offset3 - base = pattern.offset3

TestForDivide(t, v) ==
  LET all  == Span(t, v, t.next[t.node[v].jmp])
      base == t.node[v].offset
      k(i) == FindKnownValue(t, t.prev[v], base + i)
      \* the division and, of the calculation and what follows it, the rest.
      u    == Retyped(t, Range(all) \ {all[9]}, "NOP")
  IN  IF /\ On("calctok") /\ On("divtok") /\ t.node[v].type = "WHL"
         /\ Len(all) = Len(DivRoutine)
         /\ \A i \in DOMAIN all : Matches(t.node[all[i]], DivRoutine[i], base)
         /\ \A i \in 2 .. 5 : k(i).const /\ k(i).value = (IF i = 2 THEN 1 ELSE 0)
      THEN Yes([u EXCEPT !.node[all[2]].type = "DIV",
                         !.node[all[9]].count3 = -1,
                         !.node[all[10]] = At("SET", 0, base),
                         !.node[all[11]] = At("ADD", 1, base + 2)])
      ELSE No(t)

(***************************************************************************)
(* build_string_in_tree: a literal moves back to the last one, if nothing  *)
(* is read, written or tested in between.                                  *)
(***************************************************************************)
LastMet(t, v) ==
  LET b[i \in 0 .. MaxNode] ==
        IF i = 0 THEN t.prev[v]
        ELSE LET x == b[i - 1] IN
             IF x # Null /\ t.node[x].type \in {"MOV", "ADD", "SET"} \cup Calc
             THEN t.prev[x] ELSE x
  IN  b[MaxNode]

BuildString(t, v) ==
  LET m == LastMet(t, v) IN
  IF m # Null /\ t.node[m].type \in {"PRT", "PRTI"} THEN t ELSE MovedAfter(t, v, m)

(***************************************************************************)
(* The loop.  o is the tree, the cursor, and whether something changed.    *)
(***************************************************************************)
Outcome(r, m) == [t |-> r.t, n |-> m, changed |-> r.changed]

\* A dead loop is cut out, and a T_NOP.
DeadRemoved(o) ==
  LET t     == o.t
      end   == t.node[o.n].jmp
      after == t.next[end]
      gone  == Range(Span(t, o.n, after))
      cut   == Edit(t, [t.next EXCEPT ![t.prev[o.n]] = after],
                       SetPrev(t.prev, after, t.prev[o.n]), t.node)
  IN  IF o.n # Null /\ t.node[o.n].type = "DEAD"
      THEN [t |-> FoldSet(LAMBDA x, u : Freed(u, x), cut, gone), n |-> after, changed |-> TRUE]
      ELSE o

NopRemoved(o) ==
  IF o.n # Null /\ o.t.node[o.n].type = "NOP"
  THEN [t |-> Unlinked(o.t, o.n), n |-> o.t.next[o.n], changed |-> TRUE]
  ELSE o

\* The cursor goes on, or steps back after a change.
Onwards(o) ==
  IF ~o.changed THEN o.t.next[o.n]
  ELSE IF o.n # Null /\ o.t.prev[o.n] # Null THEN o.t.prev[o.n]
  ELSE o.n

\* f, if nothing has changed so far.
Else(r, F(_)) == IF r.changed THEN r ELSE F(r.t)

\* A literal is moved back, and the cursor goes on from where it was.
Placed(r, v) ==
  IF r.changed THEN [t |-> BuildString(r.t, v), n |-> r.t.next[v], changed |-> TRUE]
  ELSE Outcome(r, v)

Printed(t, v) == Placed(ScanOneNode(t, v), v)

SteppedBack(r, v) ==
  Outcome(r, IF r.changed /\ r.t.prev[v] # Null THEN r.t.prev[v] ELSE v)

Calculated(t, v) ==
  SteppedBack(IF t.node[v].type = "CALC" THEN FindKnownCalcState(t, v)
              ELSE FindKnownCalcmultState(t, v), v)

\* The whole loop or conditional is looked at when its end is reached, and
\* after a change the cursor goes back to its beginning.
BackToStart(r, v, end) == Outcome(r, IF r.changed THEN v ELSE end)

Looped(t, end) ==
  LET v == t.node[end].jmp
      Bracket1(u) == ScanOneNode(u, end)
      Classify(u) == IF u.node[end].type = "END" THEN ClassifyLoop(u, v) ELSE No(u)
      Multiply(u) == FlattenMultiplier(u, v)
      Compare(u)  == TestForLessthan(u, v)
      Divide(u)   == TestForDivide(u, v)
  IN  BackToStart(Else(Else(Else(Else(Else(ScanOneNode(t, v), Bracket1), Classify),
                                      Multiply), Compare), Divide), v, end)

AtNode(types) == n # Null /\ tree.node[n].type \in types

\* The end of an iteration.
Finish(o) ==
  LET r == NopRemoved(DeadRemoved(o)) IN [tree |-> r.t, n |-> Onwards(r)]

Becomes(r) ==
  /\ HasRoomFor(tree, 3)
  /\ tree' = r.tree
  /\ n' = r.n
  /\ UNCHANGED trimmed

ScanNode ==
  /\ AtNode({"SET", "ADD", "WHL"})
  /\ \E r \in {Finish(Outcome(ScanOneNode(tree, n), n))} : Becomes(r)

ScanPrint ==
  /\ AtNode({"PRT"})
  /\ \E r \in {Finish(Printed(tree, n))} : Becomes(r)

ScanCalc ==
  /\ AtNode({"CALC", "CALCMULT"})
  /\ \E r \in {Finish(Calculated(tree, n))} : Becomes(r)

ScanLoop ==
  /\ AtNode({"END", "ENDIF"})
  /\ \E r \in {Finish(Looped(tree, n))} : Becomes(r)

PassOver ==
  /\ n # Null
  /\ ~AtNode({"SET", "ADD", "WHL", "PRT", "CALC", "CALCMULT", "END", "ENDIF"})
  /\ \E r \in {Finish([t |-> tree, n |-> n, changed |-> FALSE])} : Becomes(r)

(***************************************************************************)
(* trim_trailing_sets, which process_file calls unless a fragment is       *)
(* compiled: what is done to cells that are not used again.                *)
(***************************************************************************)
Trimmable(nd) == nd.type \in {"SET", "ADD", "CALC"}

LastNode(t) == LET w == Walk(t) IN IF w = <<>> THEN Null ELSE Last(w)

CutLast(t) ==
  LET w == Walk(t)
      last == Max({0} \cup {i \in DOMAIN w : ~Trimmable(t.node[w[i]])})
  IN  FoldLeft(Unlinked, t, Reverse(SubSeq(w, last + 1, Len(w))))

\* The cell is set, at the end, to something it is not.
ScanSetting(t, end, c, off) ==
  ScanOneNode([t EXCEPT !.node[end] = At("SET", c, off)], end)

SetOtherwise(r, end, off) ==
  IF r.changed /\ r.t.node[end].type # "SET" THEN ScanSetting(r.t, end, 1, off).t ELSE r.t

SetAtEnd(t, end, off) == SetOtherwise(ScanSetting(t, end, -1, off), end, off)

WithoutUnused(t, lo, hi) ==
  LET nop == AddNodeAfter(t, LastNode(t), Blank("NOP"))
      end == AddNodeAfter(nop, nop.num, Blank("SET"))
      s   == FoldLeft(LAMBDA u, i : SetAtEnd(u, end.num, i), end,
                      [i \in 1 .. hi - lo + 1 |-> lo + i - 1])
  IN  Unlinked(Unlinked(s, end.num), nop.num)

\* All cells from the lowest offset to the highest one are tried, if those are
\* not far apart.
Trimmed(t) ==
  LET cut     == CutLast(t)
      offsets == {0} \cup {t.node[x].offset : x \in {y \in NodeId : Live(t, y)}}
  IN  IF LastNode(cut) = Null \/ Max(offsets) - Min(offsets) > 32 THEN cut
      ELSE WithoutUnused(cut, Min(offsets), Max(offsets))

TrimTrailingSets ==
  /\ n = Null /\ ~trimmed /\ HasRoomFor(tree, 2)
  /\ trimmed' = TRUE
  /\ \E t \in {IF noheader THEN tree ELSE Trimmed(tree)} : tree' = t
  /\ UNCHANGED n

Next == ScanNode \/ ScanPrint \/ ScanCalc \/ ScanLoop \/ PassOver \/ TrimTrailingSets
=============================================================================
