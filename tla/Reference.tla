----------------------------- MODULE Reference -----------------------------
(***************************************************************************)
(* What a text means: the run of the reference interpreter on it, cut off  *)
(* after Fuel steps, and given in the terms of the tree interpreter so     *)
(* that Agrees of Meaning can compare the two.                             *)
(***************************************************************************)
EXTENDS Meaning

CONSTANTS
  TapeSize,    \* of the reference interpreter
  Fuel         \* steps of a reference run

M == INSTANCE MicroBF

(***************************************************************************)
(* The reference run.  What the help says of two options is added to it:   *)
(* what a , does at the end of file (-E), and the dumps of a # (-#).       *)
(***************************************************************************)
\* The reference tape is a ring: its upper half lies left of the start.
Signed(a) == IF a > TapeSize \div 2 THEN a - TapeSize ELSE a

AtInput(b, v) == v.scan = "no" /\ v.p <= Len(b) /\ b[v.p] = ","

AtEnd(v) ==
  LET e == [M!Event(v, "eof", 0) EXCEPT !.p = @ + 1] IN
  CASE eofcell \in {2, 4} -> M!SetCell(e, -1)
    [] eofcell = 3        -> M!SetCell(e, 0)
    [] OTHER              -> e

RefStep(b, v) ==
  CASE v.scan = "no" /\ v.p <= Len(b) /\ b[v.p] = "#" ->
         [M!Event(v, "dump", Signed(v.m)) EXCEPT !.p = @ + 1]
    [] AtInput(b, v) /\ eofcell = 5 -> [v EXCEPT !.p = @ + 1]
    [] AtInput(b, v) /\ eofcell = 6 -> [v EXCEPT !.status = "stop"]
    [] AtInput(b, v) /\ eofcell < 5 /\ v.stdin = <<>> -> AtEnd(v)
    [] OTHER -> M!Step(b, v)

RECURSIVE RefFor(_, _, _)
RefFor(b, v, fuel) ==
  IF fuel = 0 \/ v.status # "run" THEN v ELSE RefFor(b, RefStep(b, v), fuel - 1)

\* -fintio writes a number and a newline for each character; the newline is
\* cut to a cell like any other character.
Translate(io) ==
  IF iostyle # 3 THEN io
  ELSE FlattenSeq([k \in DOMAIN io |->
         IF io[k].ev = "out"
         THEN << [ev |-> "int", val |-> io[k].val], [ev |-> "out", val |-> UM(10)] >>
         ELSE << io[k] >>])

\* The run, in the terms of the tree interpreter.
RefRun(text, tape, stdin) ==
  LET v == RefFor(text, [M!Start(stdin) EXCEPT !.t = tape], Fuel)
  IN  [ status |-> v.status, io |-> Translate(v.io), p |-> Signed(v.m),
        tape |-> [a \in {Signed(c) : c \in DOMAIN v.t} |-> v.t[a % TapeSize]] ]
=============================================================================
