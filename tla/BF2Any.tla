------------------------------- MODULE BF2Any -------------------------------
(***************************************************************************)
(* bf2any.c: load_and_run reads the program, character by character, and   *)
(* outrun recognises [-]; their commands go on to outtxn, or straight to   *)
(* the backend when nothing is optimised.                                  *)
(***************************************************************************)
EXTENDS BF2Loop

CONSTANTS
  CharCode     \* the code of a character, as far as quoted strings need it

VARIABLES
  src,    \* the files that are left: a sequence of [stdin, text]
  fe,     \* the variables of load_and_run
  s       \* the front end behind it, with zstate and icount of outrun

(***************************************************************************)
(* outrun: a [ is held back until it is clear that it is not [-].          *)
(***************************************************************************)
Out2Opt(u, c) ==
  IF u.be.enable_optim THEN OutTxn(u, c.cmd, c.rep) ELSE Outcmd(u, c.cmd, c.rep)

\* An odd count reaches zero whatever the width of a cell.
ClearsCell(u, c) ==
  \/ c.rep % 2 = 1 /\ u.be.enable_optim /\ c.cmd \in {"-", "+"}
  \/ c.rep = 1 /\ c.cmd = "-"

\* What was held back: nothing, a [, a [ with its first command, or [-].
Held(u) ==
  CASE u.zstate = 0 -> <<>>
    [] u.zstate = 1 -> << Cmd("[", 0) >>
    [] u.zstate = 2 -> << Cmd("[", 0), Cmd("-", u.icount) >>
    [] u.zstate = 3 -> << Cmd("[", 0), Cmd("+", u.icount) >>
    [] u.zstate = 4 -> << Cmd("=", 0) >>

\* c goes on being part of what is held back ...
Joins(u, c) ==
  CASE u.zstate = 1 -> ClearsCell(u, c)
    [] u.zstate \in {2, 3} -> c.cmd = "]"
    [] u.zstate = 4 -> c.cmd \in {"+", "-"}
    [] OTHER -> FALSE

Joined(u, c) ==
  CASE u.zstate = 1 -> [u EXCEPT !.zstate = IF c.cmd = "-" THEN 2 ELSE 3, !.icount = c.rep]
    [] u.zstate \in {2, 3} -> [u EXCEPT !.zstate = 4, !.icount = 0]
    [] OTHER -> [u EXCEPT !.zstate = 0, !.icount = 0]

PassedOn(u, c) ==
  IF Joins(u, c)
  THEN IF u.zstate # 4 THEN <<>>
       ELSE << Cmd("=", IF c.cmd = "+" THEN c.rep ELSE -c.rep) >>
  ELSE Held(u) \o (IF c.cmd = "[" THEN <<>> ELSE << c >>)

\* ... or is looked at after what was held back has gone out.
OutRun(u, c) ==
  FoldLeft(Out2Opt,
           IF Joins(u, c) THEN Joined(u, c)
           ELSE [u EXCEPT !.zstate = IF c.cmd = "[" THEN 1 ELSE 0, !.icount = 0],
           PassedOn(u, c))

(***************************************************************************)
(* load_and_run.  fe holds                                                 *)
(*   lastch, c    : the run of equal commands not posted yet;              *)
(*   b, lc        : the open loops, and the depth in a loop comment;       *)
(*   inp          : the program has a ',';                                 *)
(*   digits, number, ov : the number in front of a command;                *)
(*   qstring      : 0 outside of a quoted string, 2 after a second quote;  *)
(*   ended        : the last file was read.                                *)
(* p.f is fe, and p.out the commands for outrun; be is s.be.                *)
(***************************************************************************)
FrontStart(be) ==
  [ lastch |-> IF be.disable_init_optim THEN "none" ELSE "]",
    c |-> 0, b |-> 0, lc |-> 0, inp |-> FALSE,
    digits |-> FALSE, number |-> 0, ov |-> FALSE, qstring |-> 0, ended |-> FALSE ]

RleChars == {">", "<", "+", "-"}
Digits   == {"0", "1", "2", "3", "4", "5", "6", "7", "8", "9"}
DigitValue(ch) ==
  [d \in Digits |-> CHOOSE n \in 0 .. 9 : <<"0", "1", "2", "3", "4", "5", "6", "7",
                                            "8", "9">>[n + 1] = d][ch]

IsCommand(f, be, ch) ==
  \/ ch \in RleChars \cup {"[", "]", ".", ","}
  \/ ch = "#" /\ be.enable_debug
  \/ ch \in {"quote", "="} /\ be.enable_rle

\* A digit: ov_imul and ov_iadd, which keep the overflow in mind.
Digit(f, ch) ==
  LET n == f.number * 10 + DigitValue(ch) IN
  [f EXCEPT !.digits = TRUE, !.ov = @ \/ Overflows(n),
            !.number = IF Overflows(n) THEN 0 ELSE n]

Say(p, ch, n) == [p EXCEPT !.out = Append(@, Cmd(ch, n))]

\* A character of a quoted string sets the cell and prints it.
Quoted(p, ch) ==
  Say(Say([p EXCEPT !.f.lastch = ".", !.f.c = 0], "=", CharCode[ch]), ".", 0)

\* Post the RLE token onward.
Posted(p) == IF p.f.c = 0 THEN p ELSE Say([p EXCEPT !.f.c = 0], p.f.lastch, p.f.c)

\* What goes before a command: what a , does at the end of the input is done
\* before it is read; [] stops the program.
Before(p, be, ch) ==
  CASE ch = "," /\ be.eofcell = 1 -> Say(p, "=", 0)
    [] ch = "," /\ be.eofcell = 2 -> Say(p, "=", -1)
    [] ch = "]" /\ p.f.lastch = "[" -> Say(p, "X", 1)
    [] OTHER -> p

\* Wrong on purpose: the backend gets a ']' nobody opened.
PlainCommandUnchecked(p, be, ch) ==
  IF ch = "quote" THEN [p EXCEPT !.f.qstring = @ + 1]
  ELSE Say([Before(p, be, ch) EXCEPT !.f.inp = @ \/ ch = ",",
                                     !.f.b = @ + Nest(ch), !.f.lastch = ch],
           ch, 0)

PlainCommand(p, be, ch) ==
  CASE ch = "quote" -> [p EXCEPT !.f.qstring = @ + 1]
    [] ch = "]" /\ p.f.b = 0 -> p        \* skipping unbalanced ']'
    [] OTHER -> Say([Before(p, be, ch) EXCEPT !.f.inp = @ \/ ch = ",",
                                              !.f.b = @ + Nest(ch), !.f.lastch = ch],
                    ch, 0)

\* A command, with multi the number in front of it.
Command(p, be, ch, multi) ==
  IF p.f.lc > 0 \/ (ch = "[" /\ p.f.lastch = "]" /\ be.enable_optim)
  THEN [p EXCEPT !.f.lc = @ + Nest(ch)]
  ELSE IF ch \in RleChars /\ ch = p.f.lastch /\ ~Overflows(p.f.c + multi)
  THEN [p EXCEPT !.f.c = @ + multi]
  ELSE IF ch \in RleChars
  THEN [Posted(p) EXCEPT !.f.c = multi, !.f.lastch = ch]
  ELSE PlainCommand(Posted(p), be, ch)

Unquoted(p, be, ch) ==
  LET number == IF p.f.digits /\ ~p.f.ov THEN p.f.number ELSE 1
      q == [p EXCEPT !.f.digits = FALSE, !.f.ov = FALSE, !.f.number = 0]
  IN  CASE ch \in Digits -> [p EXCEPT !.f = Digit(p.f, ch)]
        [] ch = " " -> p
        [] IsCommand(p.f, be, ch) ->
             Command(q, be, ch, IF be.enable_rle THEN number ELSE 1)
        [] OTHER -> q

\* One character: the body of the while loop.
OneChar(f, be, ch) ==
  LET p == [f |-> f, out |-> <<>>] IN
  CASE f.qstring = 0 -> Unquoted(p, be, ch)
    [] f.qstring = 1 /\ ch = "quote" -> [p EXCEPT !.f.qstring = 2]
    [] f.qstring = 1 /\ ch # "quote" -> Quoted(p, ch)
    [] f.qstring = 2 /\ ch = "quote" -> Quoted([p EXCEPT !.f.qstring = 1], ch)
    [] f.qstring = 2 /\ ch # "quote" -> Unquoted([p EXCEPT !.f.qstring = 0], be, ch)

\* Not enough ']', add some; the program is stopped on the way out.
Closing(f) ==
  IF f.b = 0 THEN <<>> ELSE << Cmd("=", 0) >> \o [i \in 1 .. f.b |-> Cmd("]", 0)]

Finish(f, be) ==
  [ f |-> [f EXCEPT !.ended = TRUE, !.c = 0],
    out |-> (IF f.c = 0 THEN <<>> ELSE << Cmd(f.lastch, f.c) >>)
            \o Closing(f)
            \o (IF be.enable_debug /\ f.lastch # "#" THEN << Cmd("#", 0) >> ELSE <<>>)
            \o << Cmd("~", 0) >> ]

\* On stdin a ! ends the program, if it can be the end and something is read.
StopsAtBang(f, file, ch) ==
  /\ file.stdin /\ ch = "!"
  /\ f.b = 0 /\ f.inp /\ f.lc = 0 /\ f.qstring = 0

FileEnds(f, file) ==
  IF file.text = <<>> THEN TRUE ELSE StopsAtBang(f, file, file.text[1])

(***************************************************************************)
(* The front end as a process.                                             *)
(***************************************************************************)
FrontInit(files, be) ==
  /\ src = files
  /\ fe = FrontStart(be)
  /\ s = OutRun(Fresh(be) @@ [zstate |-> 0, icount |-> 0], Cmd("!", 0))

\* The commands of p go down to outrun.
Become(p) == fe' = p.f /\ s' = FoldLeft(OutRun, s, p.out)

Active == ~fe.ended /\ s.status = "run"

ReadChar ==
  /\ Active
  /\ src # <<>> /\ ~FileEnds(fe, src[1])
  /\ Become(OneChar(fe, s.be, src[1].text[1]))
  /\ src' = [src EXCEPT ![1].text = Tail(@)]

NextFile ==
  /\ Active
  /\ src # <<>> /\ FileEnds(fe, src[1])
  /\ src' = Tail(src)
  /\ UNCHANGED <<fe, s>>

EndOfFiles ==
  /\ Active
  /\ src = <<>>
  /\ Become(Finish(fe, s.be))
  /\ UNCHANGED src
=============================================================================
