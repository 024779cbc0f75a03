------------------------------ MODULE LoadFile ------------------------------
(***************************************************************************)
(* load_file (tritium/bfi.c): the loader.  It reads a source one character *)
(* at a time and appends to the tree, already merging runs of commands,    *)
(* dropping comment loops and recognising [-] and [].  To do so it keeps   *)
(* back what it has read: pending movements, and the beginning of a loop   *)
(* that may turn out to be [-] or [+].  A program may be spread over       *)
(* several files; loops may start in one and end in another.               *)
(*                                                                         *)
(* One action is one iteration of the C loop, for one of its outcomes.     *)
(***************************************************************************)
EXTENDS BFTree, FiniteSets

CONSTANTS
  opt_enable_rle,  \* cleared by -m and -fno-rle
  opt_no_endif,    \* -fno-endif
  rle_input,       \* -R: counts and the commands = : ; are accepted
  debug_mode,      \* -#
  special_eof,     \* the code generator handles the end of file itself
  IntMax,          \* INT_MAX, for the overflow checks
  Chars,           \* the characters sources are made of
  MaxSrc,          \* bound on the characters read
  MaxFiles         \* bound on the files of a program

ASSUME LoaderOptions ==
  /\ {opt_enable_rle, opt_no_endif, rle_input,
      debug_mode, special_eof} \subseteq BOOLEAN
  /\ IntMax \in Nat \ {0} /\ MaxSrc \in Nat /\ MaxFiles \in Nat \ {0}

VARIABLES
  tree,
  ld,       \* the loader's own variables, see below
  input,    \* [file, stdin]: which file is read and whether it is stdin
  src,      \* the characters the loop has taken so far (history)
  phase     \* "reading" files, "closing" what is still open, then "loaded"

vars == <<tree, ld, input, src, phase>>

(***************************************************************************)
(* ld is a record of p, the last node; mov, pending_mov; jst, the          *)
(* innermost open loop, from which jmp leads outwards; dld, the depth      *)
(* inside a comment loop; inp, whether an input command has been loaded;   *)
(* rle, whether the last character was a digit; num, the count read, -1    *)
(* for none; ov, whether it is too large; and z, zstate: kept back is      *)
(* nothing, [, [- or [+.                                                   *)
(***************************************************************************)
Init ==
  /\ tree = EmptyTree
  /\ ld = [ p |-> Null, mov |-> 0, jst |-> Null, dld |-> 0, inp |-> FALSE,
            rle |-> FALSE, num |-> -1, ov |-> FALSE, z |-> 0 ]
  /\ input \in [file : {1}, stdin : BOOLEAN]
  /\ src = <<>>
  /\ phase = "reading"

(***************************************************************************)
(* Appending nodes.  s is a pair of the tree and the loader's variables.   *)
(***************************************************************************)
NewNode(s, nd) ==
  [ t |-> AddNodeAfter(s.t, s.l.p, nd), l |-> [s.l EXCEPT !.p = s.t.num + 1] ]

\* Wrong on purpose: the loops outside are dropped from the stack.
OpenNodeAlone(s) ==
  LET a == NewNode(s, Blank("WHL")) IN [a EXCEPT !.l.jst = a.l.p]

\* A new loop goes on the stack of open ones.
OpenNode(s) ==
  LET a == NewNode(s, [Blank("WHL") EXCEPT !.jmp = s.l.jst])
  IN  [a EXCEPT !.l.jst = a.l.p]

\* The innermost open loop is popped and closed.
CloseNode(s, tok) ==
  LET a == NewNode(s, [Blank(tok) EXCEPT !.jmp = s.l.jst])
  IN  [ t |-> [a.t EXCEPT !.node[s.l.jst].jmp = a.l.p],
        l |-> [a.l EXCEPT !.jst = a.t.node[s.l.jst].jmp] ]

FlushMov(s) ==
  IF s.l.mov = 0 THEN s
  ELSE [NewNode(s, At("MOV", s.l.mov, 0)) EXCEPT !.l.mov = 0]

\* What was kept back was not a [-] after all: append it.
FlushZ(s) ==
  IF s.l.z = 0 THEN s
  ELSE LET w == OpenNode(FlushMov(s))
           a == CASE s.l.z = 1 -> w
                  [] s.l.z = 2 -> NewNode(w, At("ADD", -1, 0))
                  [] s.l.z = 3 -> NewNode(w, At("ADD", 1, 0))
       IN  [a EXCEPT !.l.z = 0]

(***************************************************************************)
(* The command a character stands for, with its count.                     *)
(***************************************************************************)
Cmd(tok, c) == [tok |-> tok, c |-> c]
If(cond, tok, c) == IF cond THEN Cmd(tok, c) ELSE Cmd("NOP", 0)

Command(ch, l) ==
  LET given == IF l.ov \/ l.num < 0 THEN -1 ELSE l.num
      k     == IF given < 0 THEN (IF ch = "=" THEN 0 ELSE 1) ELSE given
  IN CASE ch = ">" -> Cmd("MOV", k)
       [] ch = "<" -> Cmd("MOV", -k)
       [] ch = "+" -> Cmd("ADD", k)
       [] ch = "-" -> Cmd("ADD", -k)
       [] ch = "[" -> Cmd("WHL", 0)
       [] ch = "]" -> Cmd("END", 0)
       [] ch = "." -> Cmd("PRT", 0)
       [] ch = "," -> If(eofcell # 5, "INP", 0)
       [] ch = "#" -> If(debug_mode, "DUMP", 0)
       [] ch = "=" -> If(rle_input, "SET", k)
       [] ch = ":" -> If(rle_input, "PRTI", 0)
       [] ch = ";" -> If(rle_input, "INPI", 0)
       [] OTHER    -> Cmd("NOP", 0)

DigitOf == [d \in {"0", "1", "2", "9"} |->
              CASE d = "0" -> 0 [] d = "1" -> 1 [] d = "2" -> 2 [] d = "9" -> 9]

(***************************************************************************)
(* Reading.  On stdin a ! ends the program, once it has an input command   *)
(* and no loop is open.                                                    *)
(***************************************************************************)
Ends(ch) ==
  input.stdin /\ ch = "!" /\ ld.inp /\ ld.dld = 0 /\ ld.jst = Null

Getc(ch) ==
  /\ phase = "reading" /\ Len(src) < MaxSrc /\ HasRoomFor(tree, 6)
  /\ ~Ends(ch)
  /\ src' = Append(src, ch)
  /\ UNCHANGED <<input, phase>>

\* With -R a digit adds to the count of the next command.
ReadDigit(ch) ==
  /\ rle_input /\ ch \in DOMAIN DigitOf
  /\ Getc(ch)
  /\ LET v == ld.num * 10 + DigitOf[ch] IN
     ld' = IF ~ld.rle THEN [ld EXCEPT !.num = DigitOf[ch], !.rle = TRUE, !.ov = FALSE]
           ELSE IF ld.ov \/ v > IntMax THEN [ld EXCEPT !.ov = TRUE, !.num = -1]
           ELSE [ld EXCEPT !.num = v]
  /\ UNCHANGED tree

Space == " "

ReadBlank(ch) ==
  /\ ch = Space
  /\ Getc(ch)
  /\ ld' = [ld EXCEPT !.rle = FALSE]
  /\ UNCHANGED tree

\* The count is used up by the character that follows it.
CountUsed == [ld EXCEPT !.rle = FALSE, !.num = -1, !.ov = FALSE]

ReadCommand(ch) ==
  /\ ~(rle_input /\ ch \in DOMAIN DigitOf) /\ ch # Space
  /\ Getc(ch)

ReadComment(ch) ==
  /\ ReadCommand(ch)
  /\ Command(ch, ld).tok = "NOP"
  /\ ld' = CountUsed
  /\ UNCHANGED tree

\* Wrong on purpose: a pending movement is forgotten.
StartsDeadAnywhere(tok) ==
  tok = "WHL" /\ IF ld.p = Null THEN ~noheader ELSE tree.node[ld.p].type = "END"

(***************************************************************************)
(* A loop that starts where the cell is known to be zero can never run:    *)
(* at the start of the program, or right behind the end of another loop.   *)
(***************************************************************************)
StartsDead(tok) ==
  /\ tok = "WHL"
  /\ IF ld.p = Null THEN ~noheader
     ELSE ld.mov = 0 /\ tree.node[ld.p].type = "END"

\* Wrong on purpose: only the [ of a comment loop is dropped.
DeadOnce(tok) == opt_enable_rle /\ StartsDead(tok)

Dead(tok) == opt_enable_rle /\ (ld.dld > 0 \/ StartsDead(tok))

SkipDeadLoop(ch) ==
  LET tok == Command(ch, ld).tok IN
  /\ ReadCommand(ch)
  /\ tok # "NOP" /\ Dead(tok)
  /\ ld' = [CountUsed EXCEPT !.dld = CASE tok = "WHL" -> @ + 1
                                       [] tok = "END" -> @ - 1
                                       [] OTHER       -> @]
  /\ UNCHANGED tree

Lives(ch) ==
  /\ ReadCommand(ch)
  /\ Command(ch, ld).tok # "NOP" /\ ~Dead(Command(ch, ld).tok)

(***************************************************************************)
(* [-] and [+] become one SET.                                             *)
(***************************************************************************)
InZeroLoop(cmd) == opt_enable_rle /\ ld.z = 1 /\ cmd.tok = "ADD" /\ cmd.c \in {-1, 1}
ClosesZeroLoop(cmd) == opt_enable_rle /\ ld.z \in {2, 3} /\ cmd.tok = "END"

ContinueZeroLoop(ch) ==
  LET cmd == Command(ch, ld) IN
  /\ Lives(ch) /\ InZeroLoop(cmd)
  /\ ld' = [CountUsed EXCEPT !.z = IF cmd.c = -1 THEN 2 ELSE 3]
  /\ UNCHANGED tree

Becomes(s) == tree' = s.t /\ ld' = s.l

CloseZeroLoop(ch) ==
  /\ Lives(ch) /\ ClosesZeroLoop(Command(ch, ld))
  /\ Becomes(NewNode([t |-> tree, l |-> [CountUsed EXCEPT !.z = 0]],
                     At("SET", 0, ld.mov)))

\* Any other command first appends what was kept back.
Flushed == LET s == [t |-> tree, l |-> CountUsed]
           IN  IF opt_enable_rle THEN FlushZ(s) ELSE s

Ordinary(ch) ==
  /\ Lives(ch)
  /\ ~InZeroLoop(Command(ch, ld)) /\ ~ClosesZeroLoop(Command(ch, ld))

\* A loop may turn out to be a [-], a movement may be undone: keep them back.
KeepLoop(ch) ==
  /\ Ordinary(ch) /\ opt_enable_rle /\ Command(ch, ld).tok = "WHL"
  /\ Becomes([Flushed EXCEPT !.l.z = 1])

KeepMovement(ch) ==
  /\ Ordinary(ch) /\ opt_enable_rle /\ Command(ch, ld).tok = "MOV"
  /\ Becomes([Flushed EXCEPT !.l.mov = @ + Command(ch, ld).c])

\* Brackets and dumps stand where the pointer is.
Placed(tok) ==
  IF opt_enable_rle /\ tok \in {"END", "DUMP"} THEN FlushMov(Flushed) ELSE Flushed

Kept(tok) == opt_enable_rle /\ tok \in {"WHL", "MOV"}

\* Wrong on purpose: additions to other cells merge too.
MergesAnyCell(s, cmd) ==
  /\ opt_enable_rle /\ cmd.tok = "ADD" /\ cmd.c # 0 /\ s.l.p # Null
  /\ s.t.node[s.l.p].type \in {"ADD", "SET"}

(***************************************************************************)
(* An addition behind an addition to, or a setting of, the same cell.      *)
(***************************************************************************)
Merges(s, cmd) ==
  /\ opt_enable_rle /\ cmd.tok = "ADD" /\ cmd.c # 0 /\ s.l.p # Null
  /\ LET last == s.t.node[s.l.p] IN
     /\ last.type \in {"ADD", "SET"}
     /\ last.offset = s.l.mov
     /\ last.count + cmd.c \in -IntMax - 1 .. IntMax

\* The sum; an addition of nothing is taken back.
Merged(s, c) ==
  LET p    == s.l.p
      sum  == s.t.node[p].count + c
      back == s.t.prev[p]
  IN  IF sum = 0 /\ s.t.node[p].type # "SET"
      THEN [ t |-> Freed([s.t EXCEPT !.next[back] = Null], p),
             l |-> [s.l EXCEPT !.p = back] ]
      ELSE [s EXCEPT !.t.node[p].count = sum]

MergeCount(ch) ==
  LET cmd == Command(ch, ld)
      s   == Placed(cmd.tok)
  IN  /\ Ordinary(ch) /\ ~Kept(cmd.tok) /\ Merges(s, cmd)
      /\ Becomes(Merged(s, cmd.c))

(***************************************************************************)
(* [] does nothing at all or for ever: an IF that holds a STOP.            *)
(***************************************************************************)
IsEndless(s, tok) ==
  opt_enable_rle /\ tok = "END" /\ s.l.p # Null /\ s.t.node[s.l.p].type = "WHL"

Endless(s) ==
  LET w == IF opt_no_endif THEN s ELSE [s EXCEPT !.t.node[s.l.p].type = "IF"]
      e == CloseNode(NewNode(w, Blank("STOP")), IF opt_no_endif THEN "END" ELSE "ENDIF")
  IN  IF opt_no_endif THEN e ELSE NewNode(e, At("SET", 0, 0))

EndlessLoop(ch) ==
  LET tok == Command(ch, ld).tok
      s   == Placed(tok)
  IN  /\ Ordinary(ch) /\ IsEndless(s, tok)
      /\ Becomes(Endless(s))

(***************************************************************************)
(* Everything else is appended as it is.                                   *)
(***************************************************************************)

\* What an input command stores first, so that it can be left alone at the
\* end of file.
InitCell ==
  IF special_eof THEN 1
  ELSE CASE eofcell = 2 -> -1 [] eofcell = 3 -> 0 [] eofcell = 4 -> -1 [] OTHER -> 1

AppendInput(s) ==
  LET a == IF InitCell <= 0 THEN NewNode(s, At("SET", InitCell, s.l.mov)) ELSE s
      tok == IF iostyle = 3 THEN "INPI"
             ELSE IF eofcell = 6 THEN "STOP" ELSE "INP"
  IN  [NewNode(a, At(tok, 0, s.l.mov)) EXCEPT !.l.inp = @ \/ eofcell # 6]

AppendCommand(s, cmd) ==
  CASE cmd.tok = "WHL" -> OpenNode(s)
    [] cmd.tok = "END" -> IF s.l.jst = Null THEN NewNode(s, Blank("NOP"))
                          ELSE CloseNode(s, "END")
    [] cmd.tok = "PRT" /\ iostyle = 3 ->
         NewNode(NewNode(s, At("PRTI", 0, s.l.mov)), At("CHR", 10, 0))
    [] cmd.tok = "INP" -> AppendInput(s)
    [] OTHER -> NewNode(s, At(cmd.tok, cmd.c, s.l.mov))

NewCommand(ch) ==
  LET cmd == Command(ch, ld)
      s   == Placed(cmd.tok)
  IN  /\ Ordinary(ch) /\ ~Kept(cmd.tok)
      /\ ~Merges(s, cmd) /\ ~IsEndless(s, cmd.tok)
      /\ Becomes(AppendCommand(s, cmd))

(***************************************************************************)
(* The end of a file, or the ! on stdin.  p and pending_mov are the        *)
(* function's own, the rest is static and lives on in the next call, which *)
(* starts by walking to the last node: the one that nothing follows.       *)
(***************************************************************************)
LastOf(t) == CHOOSE x \in Link : (x = Null \/ Live(t, x)) /\ t.next[x] = Null

EndOfFile ==
  /\ phase = "reading" /\ HasRoomFor(tree, 1)
  /\ input.file < MaxFiles
  /\ LET s == FlushMov([t |-> tree, l |-> ld])
     IN  Becomes([s EXCEPT !.l.p = LastOf(s.t)])
  /\ input' \in [file : {input.file + 1}, stdin : BOOLEAN]
  /\ UNCHANGED <<src, phase>>

AppendDump(s) ==
  IF debug_mode /\ s.l.p # Null /\ s.t.node[s.l.p].type # "DUMP"
  THEN NewNode(s, Blank("DUMP")) ELSE s

LastFileEnds ==
  /\ phase = "reading" /\ HasRoomFor(tree, 2)
  /\ Becomes(AppendDump(FlushMov([t |-> tree, l |-> ld])))
  /\ phase' = IF ld.jst = Null THEN "loaded" ELSE "closing"
  /\ UNCHANGED <<input, src>>

AsNop(t, x) == [t EXCEPT !.node[x].type = "NOP", !.node[x].jmp = Null]

\* Wrong on purpose: only the innermost loop is given up.
GiveUpInnermost ==
  /\ phase = "closing"
  /\ tree' = AsNop(tree, ld.jst)
  /\ ld' = [ld EXCEPT !.jst = tree.node[ld.jst].jmp]
  /\ phase' = "loaded"
  /\ UNCHANGED <<input, src>>

\* The loops left on the stack are given up, one by one.
GiveUpLoop ==
  /\ phase = "closing"
  /\ tree' = AsNop(tree, ld.jst)
  /\ ld' = [ld EXCEPT !.jst = tree.node[ld.jst].jmp]
  /\ phase' = IF ld'.jst = Null THEN "loaded" ELSE "closing"
  /\ UNCHANGED <<input, src>>

ReadChar(ch) ==
  \/ ReadDigit(ch) \/ ReadBlank(ch) \/ ReadComment(ch) \/ SkipDeadLoop(ch)
  \/ ContinueZeroLoop(ch) \/ CloseZeroLoop(ch) \/ KeepLoop(ch)
  \/ KeepMovement(ch) \/ MergeCount(ch) \/ EndlessLoop(ch) \/ NewCommand(ch)

Next == \/ \E ch \in Chars : ReadChar(ch)
        \/ EndOfFile \/ LastFileEnds \/ GiveUpLoop
        \/ (phase = "loaded" /\ UNCHANGED vars)

Spec == Init /\ [][Next]_vars

(***************************************************************************)
(* What the optimiser relies on, and why it gets it.                       *)
(***************************************************************************)

\* An opening bracket that no closing one has been read for.
Unclosed(x) ==
  /\ tree.node[x].type \in Openers
  /\ \A y \in NodeId : tree.node[y].type \in Closers => tree.node[y].jmp # x

\* How many loops a text is in; a ] too many closes nothing.
LoopsIn(text) ==
  LET d[i \in 0 .. Len(text)] ==
        IF i = 0 THEN 0
        ELSE CASE text[i] = "[" -> d[i - 1] + 1
               [] text[i] = "]" -> IF d[i - 1] = 0 THEN 0 ELSE d[i - 1] - 1
               [] OTHER         -> d[i - 1]
  IN  d[Len(text)]

\* The loops that have been read and not closed are just those on the stack,
\* the one kept back and those inside a comment loop: none is lost and none
\* counted twice when a file ends, a comment loop is skipped or a [-] turns out
\* not to be one.
LoopsAccounted ==
  phase = "reading" =>
    LoopsIn(src) = Cardinality({x \in NodeId : Unclosed(x)}) + ld.dld
                 + (IF ld.z = 0 THEN 0 ELSE 1)

\* The last of a set of nodes, or Null.
IsLast(z, S) == z \in S \cup {Null} /\ \A y \in S : y <= z

\* The stack threaded through the jmp fields holds exactly the loops that are
\* not closed, the innermost on top and each above the one around it, and p
\* is the node at which the list ends.
StackIsOpenLoops ==
  LET open == {x \in NodeId : Unclosed(x)} IN
  /\ IsLast(ld.jst, open)
  /\ \A x \in open : IsLast(tree.node[x].jmp, {y \in open : y < x})
  /\ IsLast(ld.p, {x \in NodeId : Live(tree, x)}) /\ tree.next[ld.p] = Null

\* The tree handed to the optimiser is one that pointer_scan is proved to keep
\* sound: its links and the partners of its brackets are right, no node is
\* missing, loops nest and nothing is compared without operands, whatever the
\* source was and in whatever files it came.
LoadedWellFormed ==
  phase = "loaded" =>
    tree \in Tree /\ WellFormed(tree) /\ Complete(tree) /\ Nested(tree) /\ Factors(tree)
=============================================================================
