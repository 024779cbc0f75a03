----------------------------- MODULE MCLoadFile ----------------------------
(***************************************************************************)
(* The loader on every source of up to AllUpTo characters, and on some     *)
(* longer ones, compared with the reference interpreter run on the text.   *)
(* The options are globals that main sets once: a run takes up each of a   *)
(* few dialects, the loader and its meaning being instantiated for it.     *)
(* (The constants themselves have the values of the default; properties of *)
(* LoadFile that mention none of them are true of every dialect.)          *)
(***************************************************************************)
EXTENDS LoadFile, SequencesExt

CONSTANTS
  TapeSize,
  Dialects,  \* the sets of options, and of characters, to be tried
  AllUpTo,   \* every source of this length is read
  Fuel       \* steps of a reference run

VARIABLES
  dialect    \* the options of this execution

L(d) == INSTANCE LoadFile WITH
          noheader <- d.noheader, iostyle <- d.iostyle, eofcell <- d.eofcell,
          opt_enable_rle <- d.rle, opt_no_endif <- d.noendif,
          rle_input <- d.counts, debug_mode <- d.debug, special_eof <- FALSE,
          Chars <- d.chars, MaxFiles <- d.files

Ref(d) == INSTANCE Reference WITH
          noheader <- d.noheader, iostyle <- d.iostyle, eofcell <- d.eofcell

(***************************************************************************)
(* Dialects.                                                               *)
(***************************************************************************)
Default ==
  [ noheader |-> FALSE, iostyle |-> 0, eofcell |-> 1, rle |-> TRUE,
    noendif |-> FALSE, counts |-> FALSE, debug |-> FALSE, files |-> 1,
    chars |-> {">", "<", "+", "-", "[", "]", ".", ","} ]

\* A source cut into two files, either of which may be stdin.
Files == [Default EXCEPT !.eofcell = 2, !.files = 2,
                         !.chars = {">", "-", "[", "]", ",", "!"}]

\* A fragment in decimal, with dumps and without T_IF.
Fragment == [Default EXCEPT !.noheader = TRUE, !.iostyle = 3, !.eofcell = 3,
                            !.noendif = TRUE, !.debug = TRUE,
                            !.chars = {">", "+", "-", "[", "]", ".", ",", "#"}]

\* -R: counts, blanks and =.
Counts == [Default EXCEPT !.eofcell = 5, !.counts = TRUE,
                          !.chars = {"2", "1", " ", "=", ">", "+", "[", "]", "."}]

\* -m and -E6.
Unoptimised == [Default EXCEPT !.eofcell = 6, !.rle = FALSE,
                               !.chars = {">", "+", "-", "[", "]", ".", ","}]

AllDialects == {Default, Files, Fragment, Counts, Unoptimised}

\* Loops behind and inside loops, comment loops, and [-] in all positions.
LongSources ==
  { <<",", "[", ">", "]", "<", "[", ".", "-", "]">>,
    <<"+", "[", "-", "[", ".", "]", "]", "[", "]", ".">>,
    <<"[", ".", "[", "-", "]", ".", "]", "+", ".">>,
    <<",", "[", ".", ",", "]", "[", "[", ".", "]", "]", ".">>,
    <<"+", ">", "+", "[", "<", "[", ".", "-", "]", ">", "-", "]">>,
    <<",", "[", "-", ">", "+", "<", "]", ">", ".">>,
    <<"+", "[", "[", ">", "]", "<", "-", "]", ".">>,
    <<",", "[", "[", "-", "]", "]", ">", "[", "+", "]", "+", ".">>,
    <<"2", "1", "+", ".">> }

(***************************************************************************)
(* The loader in one of the dialects.                                      *)
(***************************************************************************)
MCInit == \E d \in Dialects : dialect = d /\ L(d)!Init

MCNext ==
  /\ \E d \in Dialects : dialect = d /\ L(d)!Next
  /\ \/ Len(src') <= AllUpTo
     \/ \E s \in LongSources : IsPrefix(src', s)
  /\ UNCHANGED dialect

MCSpec == MCInit /\ [][MCNext]_<<vars, dialect>>

\* No ] too many.
Closed(text) == \A i \in DOMAIN text : text[i] = "]" => LoopsIn(SubSeq(text, 1, i - 1)) > 0

(***************************************************************************)
(* The text as plain commands: with -R the counts are written out, and     *)
(* without -# there are no dumps.  A number repeats the command behind it; *)
(* a number too large is ignored; 2= stands for [-]++.                     *)
(***************************************************************************)
Plain(ch, num) ==
  LET Repeat(c, k) == [i \in 1 .. k |-> c] IN
  CASE ch \in {"+", "-", "<", ">"} -> Repeat(ch, IF num < 0 THEN 1 ELSE num)
    [] ch = "=" -> <<"[", "-", "]">> \o Repeat("+", IF num < 0 THEN 0 ELSE num)
    [] OTHER -> <<ch>>

Expanded(text) ==
  LET part[i \in 0 .. Len(text)] ==   \* the commands, the number, still in it
        IF i = 0 THEN [out |-> <<>>, num |-> -1, more |-> FALSE]
        ELSE LET x  == part[i - 1]
                 ch == text[i]
             IN  IF ch = " " THEN [x EXCEPT !.more = FALSE]
                 ELSE IF ch \in {"1", "2"}
                 THEN [x EXCEPT !.more = TRUE,
                         !.num = IF x.more THEN 10 * @ + DigitOf[ch] ELSE DigitOf[ch]]
                 ELSE [out  |-> x.out \o Plain(ch, IF x.num > IntMax THEN -1 ELSE x.num),
                       num  |-> -1, more |-> FALSE]
  IN  part[Len(text)].out

PlainText ==
  SelectSeq(IF dialect.counts THEN Expanded(src) ELSE src,
            LAMBDA ch : dialect.debug \/ ch # "#")

\* With -# one more dump is appended to the program, unless it ends with one:
\* dumps at the very end of a run are not compared.
Undumped(run) ==
  LET seen == {k \in DOMAIN run.io : run.io[k].ev # "dump"}
      last == IF seen = {} THEN 0 ELSE Max(seen)
  IN  [run EXCEPT !.io = SubSeq(@, 1, last)]

\* A fragment's tape need not start blank.
Tapes == IF dialect.noheader THEN {<<>>, [x \in 0 .. 1 |-> 1]} ELSE {<<>>}

Stdins == {<<1, 0>>, <<>>}

\* The tree reads, writes and leaves on the tape what the text does, although
\* the loader has dropped, merged and rewritten parts of it.
LoadKeepsMeaning ==
  phase = "loaded" /\ Closed(src) /\ LoopsIn(src) = 0 =>
    \A d \in Dialects : dialect = d =>
      \A tape \in Tapes, stdin \in Stdins :
        Ref(d)!Agrees(Undumped(Ref(d)!RefRun(PlainText, tape, stdin)),
                      Undumped(Ref(d)!Run(tree, tape, stdin, 3 * Fuel)), TRUE)
=============================================================================
