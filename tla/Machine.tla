------------------------------ MODULE Machine ------------------------------
(***************************************************************************)
(* What the interpreters of extras/ have in common: a place n in the       *)
(* program, a pointer m, a tape t, the input still to read and what has    *)
(* been read and written; and how a program is read up to the ! behind     *)
(* which its input begins, when both come from stdin.                      *)
(***************************************************************************)
EXTENDS Integers, SequencesExt, TLC

CONSTANTS
  ByteBits     \* the width of a character

EOF == -1

Byte(x) == x % 2^ByteBits

Start(stdin) ==
  [ n |-> 1, m |-> 0, t |-> <<>>, stdin |-> stdin, io |-> <<>>, status |-> "run" ]

At(v, a) == IF a \in DOMAIN v.t THEN v.t[a] ELSE 0

Cell(v) == At(v, v.m)

Put(v, a, x) == [v EXCEPT !.t = (a :> x) @@ @]

Store(v, x) == Put(v, v.m, x)

Ends(v, status) == [v EXCEPT !.status = status]

Event(v, ev, x) == [v EXCEPT !.io = Append(@, [ev |-> ev, val |-> x])]

PutChar(v, x) == Event(v, "out", Byte(x))

\* getchar: the character, or EOF, and the machine after it.
GetChar(v) ==
  IF v.stdin = <<>> THEN [c |-> EOF, v |-> Event(v, "eof", 0)]
  ELSE [c |-> Head(v.stdin),
        v |-> Event([v EXCEPT !.stdin = Tail(@)], "in", Head(v.stdin))]

\* A , that keeps the cell at the end of the input.
ReadOrKeep(v) ==
  LET r == GetChar(v) IN IF r.c = EOF THEN r.v ELSE Store(r.v, r.c)

\* A , where the options say what is put in the cell then; 1 keeps it.
ReadOr(v, on_eof, Cut(_)) ==
  LET r == GetChar(v) IN
  CASE r.c # EOF   -> Store(r.v, r.c)
    [] on_eof = 1  -> r.v
    [] OTHER       -> Store(r.v, Cut(on_eof))

Goto(v, n) == [v EXCEPT !.n = n]
Next1(v)   == [v EXCEPT !.n = @ + 1]
Move(v, d) == [v EXCEPT !.m = @ + d]

Nesting(ch) == CASE ch = "[" -> 1 [] ch = "]" -> -1 [] OTHER -> 0

Runs == {"<", ">", "+", "-"}

(***************************************************************************)
(* A loader l reads the text until Stops says it is done; what follows is  *)
(* data.  Characters read as data are numbered by Code.                    *)
(***************************************************************************)
Loaded(l, text, Stops(_, _), Takes(_, _)) ==
  FoldLeft(LAMBDA k, ch : IF k.ended THEN [k EXCEPT !.data = Append(@, ch)]
                          ELSE IF Stops(k, ch) THEN [k EXCEPT !.ended = TRUE]
                          ELSE Takes(k, ch),
           l @@ [ended |-> FALSE, data |-> <<>>], text)
=============================================================================
