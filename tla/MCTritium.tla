----------------------------- MODULE MCTritium -----------------------------
(***************************************************************************)
(* Tritium from end to end, on every program of up to MaxSrc characters    *)
(* and every input of Stdins: it implements Promise.                       *)
(***************************************************************************)
EXTENDS Tritium, Reference

\* Inputs and options that a .cfg cannot spell.
SmallStdins  == {<<>>, <<1>>, <<2, 0>>}
NoStrings    == {[on |-> FALSE, left |-> <<>>]}

(***************************************************************************)
(* Promise, with the reference interpreter telling what to expect.         *)
(***************************************************************************)
Depth(text) ==
  LET d[i \in 0 .. Len(text)] ==   \* -1 once a ] closes nothing
        IF i = 0 THEN 0
        ELSE LET e == d[i - 1] IN IF e < 0 THEN -1 ELSE e + M!Nesting(text[i])
  IN  d[Len(text)]

Matched(text) == Depth(text) = 0

ReferenceRun(text, in) ==
  LET r == RefRun(text, <<>>, in) IN [io |-> r.io, status |-> r.status]

P == INSTANCE Promise WITH
       Expected <- ReferenceRun, IsProgram <- Matched,
       text   <- src, io <- vm.io,
       input  <- IF mode = "load" THEN <<>> ELSE stdin,
       status <- IF mode = "load" THEN "reading" ELSE vm.status

\* Every step of Tritium is a step the user was promised, or is not seen:
\* reads and writes come in the order of the text, none is lost or doubled,
\* although the loader has merged and dropped commands.
KeepsPromise == P!Spec

\* A program that ends ends under Tritium too, with all its output written.
AnswersAtLast == P!Answered
=============================================================================
