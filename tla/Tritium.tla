------------------------------ MODULE Tritium ------------------------------
(***************************************************************************)
(* Tritium run from end to end without its optimiser (bfi -r -O0): main    *)
(* calls load_file for each file, then process_file, which hands the tree  *)
(* to run_tree.  The program and its input may come from the same stream:  *)
(* the loader stops at a ! and leaves the rest of stdin to the program.    *)
(***************************************************************************)
EXTENDS LoadFile

CONSTANTS
  Stdins,     \* what may be left on stdin for the program
  Strings,    \* the -I options: records [on, left]
  MaxTurns    \* bound on the turns of run_tree

VARIABLES
  vm,         \* the machine of run_tree
  mode,       \* "load", then "run"
  turns,      \* of run_tree, for the bound
  stdin       \* what was on stdin when the program started (history)

allVars == <<vars, vm, mode, turns, stdin>>

T == INSTANCE RunTree

TritiumInit ==
  /\ Init
  /\ vm \in {T!Machine(tree, <<>>, s, <<>>) : s \in Strings}
  /\ mode = "load"
  /\ turns = 0
  /\ stdin = <<>>

Loading(step) == step /\ mode = "load" /\ UNCHANGED <<vm, mode, turns, stdin>>

\* After the end of the file nothing is left on stdin, after a ! anything.
LeftOnStdin == IF input.stdin /\ ~Ends("!") THEN {<<>>} ELSE Stdins

StopLoading ==
  /\ LastFileEnds
  /\ stdin' \in LeftOnStdin
  /\ UNCHANGED <<vm, mode, turns>>

\* process_file calls run_tree, which starts at bfprog.
StartRun ==
  /\ phase = "loaded" /\ mode = "load"
  /\ vm' = T!Machine(tree, <<>>, vm.string, stdin)
  /\ mode' = "run"
  /\ UNCHANGED <<vars, turns, stdin>>

\* One turn of the loop of run_tree; it only waits for input, which is there.
RunStep ==
  /\ vm.status = "run"
  /\ vm' = T!Step(tree, vm)
  /\ UNCHANGED tree

Turn ==
  /\ mode = "run" /\ turns < MaxTurns
  /\ RunStep
  /\ turns' = turns + 1
  /\ UNCHANGED <<ld, input, src, phase, mode, stdin>>

\* The program has ended, or the run is cut off here.
Rest ==
  /\ mode = "run" /\ (vm.status # "run" \/ turns = MaxTurns)
  /\ UNCHANGED allVars

TritiumNext ==
  \/ \E ch \in Chars : Loading(ReadChar(ch))
  \/ Loading(EndOfFile \/ GiveUpLoop)
  \/ StopLoading \/ StartRun \/ Turn \/ Rest

\* The process is scheduled; getch waits only for input that is there.
TritiumSpec == TritiumInit /\ [][TritiumNext]_allVars /\ WF_allVars(Turn)
=============================================================================
