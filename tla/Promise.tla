------------------------------ MODULE Promise ------------------------------
(***************************************************************************)
(* What the user of a Brainfuck program may expect of Tritium, whatever it *)
(* does inside: once the text is complete, the reads and writes are those  *)
(* the text stands for, in this order, and the program ends as it should.  *)
(* Nothing is promised for a text whose brackets do not match.             *)
(***************************************************************************)
EXTENDS Naturals, Sequences

CONSTANTS
  Expected(_, _),  \* the run [io, status] of a text on an input; its status
                   \* is "run" when only a beginning of the run is known
  IsProgram(_)     \* the brackets of a text match

VARIABLES
  text,            \* the program text so far
  input,           \* what there is to read
  io,              \* the reads and writes so far
  status           \* "reading", then "run", then how the program ended

vars == <<text, input, io, status>>

Init == text = <<>> /\ io = <<>> /\ status = "reading"

Read ==
  /\ status = "reading"
  /\ Len(text') = Len(text) + 1 /\ SubSeq(text', 1, Len(text)) = text
  /\ UNCHANGED <<input, io, status>>

\* The text is complete; what is left of the input belongs to the program.
Start ==
  /\ status = "reading"
  /\ \/ status' = "run"
     \/ Expected(text, input') = [io |-> <<>>, status |-> status']
  /\ UNCHANGED <<text, io>>

Run   == Expected(text, input)
Ended == Run.status # "run"

\* The next read or write takes place, or nothing that can be seen; after the
\* last one the program may end.
Go ==
  /\ status = "run"
  /\ \/ io' = io
     \/ Len(io) < Len(Run.io) /\ io' = Append(io, Run.io[Len(io) + 1])
  /\ \/ status' = "run"
     \/ Ended /\ io' = Run.io /\ status' = Run.status
  /\ UNCHANGED <<text, input>>

\* Beyond what is known of the run: it goes on, or is stopped because it can
\* do nothing more.
GoOn ==
  /\ status = "run" /\ ~Ended /\ Len(io) >= Len(Run.io)
  /\ \/ Len(io') = Len(io) + 1 /\ status' = status
     \/ io' = io /\ status' = "stop"
  /\ UNCHANGED <<text, input>>

Unspecified ==
  /\ status = "run" /\ ~IsProgram(text)
  /\ UNCHANGED <<text, input>>

Next == Read \/ Start \/ Go \/ GoOn \/ Unspecified

Spec == Init /\ [][Next]_vars

\* A program that ends is answered: all its output comes, and it ends.
Answered ==
  (status = "run" /\ IsProgram(text) /\ Ended) ~> (status # "run" /\ io = Run.io)
=============================================================================
