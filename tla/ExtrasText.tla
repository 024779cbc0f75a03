----------------------------- MODULE ExtrasText -----------------------------
(***************************************************************************)
(* The interpreters that run the text as it is: extras/easy.c, which reads *)
(* it only as far as it has come; extras/neutron.c, which links it into a  *)
(* list; umueller/bfi.c; and two of extras/trixy.c, the one with a stack   *)
(* of loops and the one that traces each step.                             *)
(***************************************************************************)
EXTENDS Machine

CONSTANTS
  TapeSize,    \* the cells an unsigned short can address
  RangeEnd     \* the last cell umueller's interpreter allows

(***************************************************************************)
(* easy.c.  buf is pgm up to the ':' that stands for what is not yet read, *)
(* loops the s of each call of bf, b the brackets open while a loop is     *)
(* passed over.  With shared, program and data come from the same stream;  *)
(* prog and data tell them apart (history).                                *)
(***************************************************************************)
NotPassing == -1

EasyStart(src, stdin, shared) ==
  Start(stdin) @@ [ buf |-> <<":">>, loops |-> <<>>, b |-> NotPassing, src |-> src,
                    shared |-> shared, prog |-> <<>>, data |-> <<>> ]

Fetched(v) ==
  [v EXCEPT !.buf = Front(@) \o <<Head(v.src), ":">>, !.src = Tail(@),
            !.prog = Append(@, Head(v.src))]

FetchOr(v, status) == IF v.src = <<>> THEN Ends(v, status) ELSE Fetched(v)

\* "if (!r) *(p=pgm)=':'; else p++;"
EasyAfter(v) ==
  IF v.loops = <<>> THEN [v EXCEPT !.n = 1, !.buf = <<":">>] ELSE Next1(v)

EasyCell(v, x) == Store(v, x % 2^(2 * ByteBits))

EasyRead(v, Code(_)) ==
  IF ~v.shared THEN ReadOrKeep(v)
  ELSE IF v.src = <<>> THEN Event(v, "eof", 0)
  ELSE LET c == Code(Head(v.src)) IN
       EasyCell(Event([v EXCEPT !.src = Tail(@), !.data = Append(@, c)], "in", c), c)

\* The for loop over a loop that is not run.
EasyPass(v) ==
  LET ch == v.buf[v.n] IN
  CASE ch = ":"             -> FetchOr(v, "exit2")
    [] ch = "]" /\ v.b = 0  -> EasyAfter([v EXCEPT !.b = NotPassing])
    [] OTHER                -> Next1([v EXCEPT !.b = @ + Nesting(ch)])

EasyStep(v, Code(_)) ==
  LET ch == v.buf[v.n] IN
  CASE v.b # NotPassing -> EasyPass(v)
    [] ch = ":" -> FetchOr(v, IF v.loops = <<>> THEN "done" ELSE "exit1")
    [] ch = "+" -> EasyAfter(EasyCell(v, Cell(v) + 1))
    [] ch = "-" -> EasyAfter(EasyCell(v, Cell(v) - 1))
    [] ch \in {">", "<"} ->
         EasyAfter([v EXCEPT !.m = (@ + (IF ch = ">" THEN 1 ELSE -1)) % TapeSize])
    [] ch = "." -> EasyAfter(PutChar(v, Cell(v)))
    [] ch = "," -> EasyAfter(EasyRead(v, Code))
    [] ch = "[" -> IF Cell(v) # 0 THEN Next1([v EXCEPT !.loops = Append(@, v.n + 1)])
                   ELSE Next1([v EXCEPT !.b = 0])
    [] ch = "]" -> IF v.loops = <<>> THEN Ends(v, "exit3")
                   ELSE IF Cell(v) # 0 THEN Goto(v, Last(v.loops))
                   ELSE EasyAfter([v EXCEPT !.loops = Front(@)])
    [] OTHER    -> EasyAfter(v)

(***************************************************************************)
(* neutron.c.  The open loops are linked through jmp, the last is j.       *)
(***************************************************************************)
NeutronTakes(l, ch) ==
  LET n == Len(l.pgm) + 1 IN
  IF ch \notin {"<", ">", "+", "-", ",", ".", "["} /\ ~(ch = "]" /\ l.j # 0) THEN l
  ELSE CASE ch = "[" -> [l EXCEPT !.pgm = Append(@, [cmd |-> ch, jmp |-> l.j]), !.j = n]
         [] ch = "]" -> [l EXCEPT !.pgm = Append([@ EXCEPT ![l.j].jmp = n],
                                                 [cmd |-> ch, jmp |-> l.j]),
                                  !.j = l.pgm[l.j].jmp]
         [] OTHER    -> [l EXCEPT !.pgm = Append(@, [cmd |-> ch, jmp |-> 0])]

\* The loops still open at the end are no commands.
LeftOver(l) ==
  LET open[j \in 0 .. Len(l.pgm)] == IF j = 0 THEN {} ELSE {j} \cup open[l.pgm[j].jmp]
  IN  IF l.j = 0 THEN {} ELSE open[l.j]

NeutronLoad(text, stdin) ==
  LET Stops(k, ch) == stdin /\ ch = "!" /\ k.j = 0 /\ k.pgm # <<>>
      l == Loaded([pgm |-> <<>>, j |-> 0], text, Stops, NeutronTakes)
      open == LeftOver(l)
  IN  [l EXCEPT !.pgm = [i \in DOMAIN @ |-> IF i \in open THEN [cmd |-> " ", jmp |-> 0]
                                            ELSE @[i]]]

NeutronStep(pgm, v) ==
  IF v.n > Len(pgm) THEN Ends(v, "done")
  ELSE LET cmd == pgm[v.n].cmd IN
  Next1(CASE cmd = "+" -> Store(v, Byte(Cell(v) + 1))
          [] cmd = "-" -> Store(v, Byte(Cell(v) - 1))
          [] cmd = "." -> PutChar(v, Cell(v))
          [] cmd = "," -> ReadOrKeep(v)
          [] cmd = "[" -> IF Cell(v) = 0 THEN Goto(v, pgm[v.n].jmp) ELSE v
          [] cmd = "]" -> IF Cell(v) # 0 THEN Goto(v, pgm[v.n].jmp) ELSE v
          [] cmd = "<" -> IF v.m = 0 THEN Ends(v, "range") ELSE Move(v, -1)
          [] cmd = ">" -> Move(v, 1)
          [] OTHER     -> v)

(***************************************************************************)
(* umueller/bfi.c.  A loop is run by a call of interpret on its text, with *)
(* a 0 in the place of its ]; calls has where each begins and ends.        *)
(***************************************************************************)
MuellerStart(text, stdin) ==
  Start(stdin) @@ [calls |-> << [d |-> 1, end |-> Len(text) + 1] >>]

\* "if( p<0 || p>100) puts("RANGE ERROR"), exit(0);"
InRange(v) == IF v.m \in 0 .. RangeEnd THEN v ELSE Ends(v, "range")

\* Where the loop that begins at d ends, within the text of this call.
MuellerEnd(text, d, end) ==
  LET b[i \in d - 1 .. end - 1] == IF i = d - 1 THEN 1 ELSE b[i - 1] + Nesting(text[i])
      zero == {i \in d .. end - 1 : b[i] = 0}
  IN  IF zero = {} THEN 0 ELSE CHOOSE i \in zero : \A j \in zero : i <= j

MuellerLoop(text, v) ==
  LET close == MuellerEnd(text, v.n + 1, Last(v.calls).end) IN
  IF close = 0 THEN Ends(v, "unbalanced")
  ELSE IF Cell(v) = 0 THEN Goto(v, close + 1)
  ELSE Next1([v EXCEPT !.calls = Append(@, [d |-> v.n + 1, end |-> close])])

\* interpret returns to "while( a[p] ) interpret(d);"
MuellerReturn(v) ==
  LET call == Last(v.calls) IN
  CASE Len(v.calls) = 1 -> Ends(v, "done")
    [] Cell(v) # 0      -> Goto(v, call.d)
    [] OTHER            -> InRange(Goto([v EXCEPT !.calls = Front(@)], call.end + 1))

MuellerRead(v) == LET r == GetChar(v) IN Store(r.v, Byte(r.c))

MuellerStep(text, v) ==
  IF v.n = Last(v.calls).end THEN MuellerReturn(v)
  ELSE LET ch == text[v.n] IN
  CASE ch = "[" -> MuellerLoop(text, v)
    [] ch = "]" -> Ends(v, "unbalanced")
    [] OTHER -> InRange(Next1(
         CASE ch = "<" -> Move(v, -1)
           [] ch = ">" -> Move(v, 1)
           [] ch = "+" -> Store(v, Byte(Cell(v) + 1))
           [] ch = "-" -> Store(v, Byte(Cell(v) - 1))
           [] ch = "." -> PutChar(v, Cell(v))
           [] ch = "," -> MuellerRead(v)
           [] OTHER    -> v))

(***************************************************************************)
(* trixy.c: minibf.                                                        *)
(***************************************************************************)
MiniStart(stdin) == Start(stdin) @@ [jmpstk |-> <<>>, i |-> 0]

\* "while((i+=(*p=='[')-(*p==']'))&&p[1])p++;" leaves i and p here.
PassOver(text, n, i0) ==
  LET i[k \in n - 1 .. Len(text)] == IF k = n - 1 THEN i0 ELSE i[k - 1] + Nesting(text[k])
      stop == {k \in n .. Len(text) : i[k] = 0 \/ k = Len(text)}
      at   == CHOOSE k \in stop : \A j \in stop : k <= j
  IN  [n |-> at, i |-> i[at]]

Around(v, d) == [v EXCEPT !.m = (@ + d) % TapeSize]

MiniOpen(text, v) ==
  IF Cell(v) # 0 THEN [v EXCEPT !.jmpstk = Append(@, v.n)]
  ELSE LET q == PassOver(text, v.n, v.i) IN [v EXCEPT !.n = q.n, !.i = q.i]

MiniClose(v) ==
  CASE v.jmpstk = <<>> -> v
    [] Cell(v) # 0     -> Goto(v, Last(v.jmpstk))
    [] OTHER           -> [v EXCEPT !.jmpstk = Front(@)]

MiniStep(text, v) ==
  IF v.n > Len(text) THEN Ends(v, "done")
  ELSE LET ch == text[v.n] IN
  Next1(CASE ch = ">" -> Around(v, 1)
          [] ch = "<" -> Around(v, -1)
          [] ch = "+" -> Store(v, Byte(Cell(v) + 1))
          [] ch = "-" -> Store(v, Byte(Cell(v) - 1))
          [] ch = "." -> PutChar(v, Cell(v))
          [] ch = "," -> ReadOrKeep(v)
          [] ch = "[" -> MiniOpen(text, v)
          [] ch = "]" -> MiniClose(v)
          [] OTHER    -> v)

(***************************************************************************)
(* trixy.c: bf_trace.  err tells that it has said ERR: it does so, and     *)
(* runs the loop, when the loop it should pass over ends the program.      *)
(***************************************************************************)
TraceStart(stdin) == Start(stdin) @@ [err |-> FALSE]

TraceOpen(text, v) ==
  LET q == PassOver(text, v.n, 0) IN
  IF Cell(v) # 0 THEN v
  ELSE IF q.n < Len(text) THEN Goto(v, q.n)
  ELSE [v EXCEPT !.err = TRUE]

TraceClose(text, v) ==
  LET i[k \in 0 .. v.n] == IF k = 0 THEN 0 ELSE i[k - 1] - Nesting(text[v.n + 1 - k])
      back == {k \in 1 .. v.n : i[k] = 0}
  IN  CASE Cell(v) = 0 -> v
        [] back = {}   -> [v EXCEPT !.err = TRUE]
        [] OTHER       -> Goto(v, v.n + 1 - (CHOOSE k \in back : \A j \in back : k <= j))

TraceStep(text, v) ==
  IF v.n > Len(text) THEN Ends(v, "done")
  ELSE LET ch == text[v.n] IN
  Next1(CASE ch = ">" -> Around(v, 1)
          [] ch = "<" -> Around(v, -1)
          [] ch = "+" -> Store(v, Byte(Cell(v) + 1))
          [] ch = "-" -> Store(v, Byte(Cell(v) - 1))
          [] ch = "." -> PutChar(v, Cell(v))
          [] ch = "," -> ReadOrKeep(v)
          [] ch = "[" -> TraceOpen(text, v)
          [] ch = "]" -> TraceClose(text, v)
          [] OTHER    -> v)
=============================================================================
