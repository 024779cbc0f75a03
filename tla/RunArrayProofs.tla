--------------------------- MODULE RunArrayProofs ---------------------------
(***************************************************************************)
(* Proofs about the array interpreters, for every tree the optimiser may   *)
(* leave, every width and every input, with merged movements or without:   *)
(* the loop's p always stands at a word where the conversion began to      *)
(* write an instruction; and the array is never too short.                 *)
(*                                                                         *)
(* The conversion is looked at in four layers: which words an instruction  *)
(* is made of, what the array keeps as it grows and as jumps are patched   *)
(* in, which closing brackets of the tree are still waited for, and what   *)
(* is counted for the nodes still to come.  Then one turn of the loop      *)
(* takes p from one instruction to another.                                *)
(***************************************************************************)
EXTENDS RunArray, BFTreeProofs

USE Ids

(***************************************************************************)
(* Tokens.                                                                 *)
(***************************************************************************)
Tokens == Range(TokenList)

\* The word that holds the token, counted from 1.
TokenWord == IF merge_mov THEN 2 ELSE 1

\* The words an instruction is made of, as the loops step over them.
Width(tok) ==
  IF tok \in {"CHR", "STOP", "FINI"} THEN (IF tok = "CHR" THEN 1 ELSE 0) + TokenWord
  ELSE IF tok \in {"ADD", "SET", "END", "CALC4", "CALC5", "ZFIND", "MFIND"} \cup Openers THEN 3
  ELSE IF tok \in {"CALC3", "CALCMULT", "LT"} THEN 4
  ELSE IF tok \in {"CALC2", "ADDWZ"} THEN 5
  ELSE IF tok = "CALC" THEN 7
  ELSE 2

\* A token's number finds it again.
LEMMA Coded ==
  ASSUME NEW tok \in Tokens
  PROVE  Code[tok] \in Int /\ TokenList[Code[tok] + 1] = tok
  <1>1. DOMAIN TokenList = 1 .. 33
    BY DEF TokenList
  <1>2. \E i \in DOMAIN TokenList : TokenList[i] = tok
    BY DEF Tokens, Range
  <1> DEFINE c == CHOOSE i \in DOMAIN TokenList : TokenList[i] = tok
  <1>3. c \in DOMAIN TokenList /\ TokenList[c] = tok
    BY <1>2
  <1>4. Code[tok] = c - 1
    BY DEF Code, Tokens
  <1> HIDE DEF c
  <1>5. QED BY <1>1, <1>3, <1>4

\* The tokens instructions are written with are in the list.
LEMMA TokensListed ==
  /\ {"MOV", "ADD", "PRT", "INP", "WHL", "END", "SET", "CALC", "CALCMULT"} \subseteq Tokens
  /\ {"CHR", "ENDIF", "MULT", "CMULT", "ZFIND", "MFIND", "ADDWZ", "LT"} \subseteq Tokens
  /\ {"DIV", "CALC2", "CALC3", "CALC4", "CALC5", "PRTI", "INPI", "STOP"} \subseteq Tokens
  /\ {"FINI", "NOP"} \subseteq Tokens
  <1>1. DOMAIN TokenList = 1 .. 33
    BY DEF TokenList
  <1>2. \A i \in 1 .. 33 : TokenList[i] \in Tokens
    BY <1>1 DEF Tokens, Range
  <1>3. /\ TokenList[1] = "MOV" /\ TokenList[2] = "ADD" /\ TokenList[3] = "PRT"
        /\ TokenList[4] = "INP" /\ TokenList[5] = "WHL" /\ TokenList[6] = "END"
        /\ TokenList[7] = "SET" /\ TokenList[8] = "CALC" /\ TokenList[9] = "CALCMULT"
        /\ TokenList[10] = "CHR" /\ TokenList[13] = "ENDIF" /\ TokenList[14] = "MULT"
        /\ TokenList[15] = "CMULT" /\ TokenList[16] = "ZFIND" /\ TokenList[17] = "MFIND"
        /\ TokenList[18] = "ADDWZ" /\ TokenList[19] = "LT" /\ TokenList[20] = "DIV"
        /\ TokenList[21] = "CALC2" /\ TokenList[22] = "CALC3" /\ TokenList[23] = "CALC4"
        /\ TokenList[24] = "CALC5" /\ TokenList[25] = "PRTI" /\ TokenList[26] = "INPI"
        /\ TokenList[27] = "STOP" /\ TokenList[28] = "FINI" /\ TokenList[30] = "NOP"
    BY DEF TokenList
  <1>4. {1, 2, 3, 4, 5, 6, 7, 8, 9} \subseteq 1 .. 33
        /\ {10, 13, 14, 15, 16, 17, 18, 19, 20} \subseteq 1 .. 33
        /\ {21, 22, 23, 24, 25, 26, 27, 28, 30} \subseteq 1 .. 33
    OBVIOUS
  <1> HIDE DEF Tokens
  <1>5. QED BY <1>2, <1>3, <1>4

(***************************************************************************)
(* Machines: what an operation does to the place in the array.             *)
(***************************************************************************)
Fields == {"n", "p", "tape", "string", "stdin", "io", "status", "onRail"}

IsMachine(m) == DOMAIN m = Fields

\* k is m except for what has nothing to do with the place.
Same(m, k) == IsMachine(k) /\ k.n = m.n /\ k.status = m.status

\* Whatever an instruction does to cells and events, n and the status stay.
LEMMA SameMachine ==
  ASSUME NEW m, IsMachine(m)
  PROVE  /\ \A off, v : Same(m, R!Put(m, off, v))
         /\ \A off, v : Same(m, Assign(m, off, v))
         /\ \A off : Same(m, M(m, off))
         /\ \A ev, v : Same(m, R!Event(m, ev, v))
         /\ \A c : Same(m, R!Putch(m, c))
         /\ \A v : Same(m, R!Putint(m, v))
         /\ \A v : Same(m, Putnumber(m, v))
         /\ \A d : Same(m, Moved(m, d))
         /\ \A off, c : Same(m, PutCell(m, off, c))
  <1>1. \A v : Same(m, [m EXCEPT !.tape = v])
    BY DEF Same, IsMachine, Fields
  <1>2. \A v : Same(m, [m EXCEPT !.io = v])
    BY DEF Same, IsMachine, Fields
  <1>3. \A v : Same(m, [m EXCEPT !.p = v])
    BY DEF Same, IsMachine, Fields
  <1>4. \A off, v : Same(m, R!Put(m, off, v))
    BY <1>1 DEF R!Put
  <1>5. \A off, v : Same(m, Assign(m, off, v))
    BY <1>4 DEF Assign
  <1>6. \A off : Same(m, M(m, off))
    BY <1>5 DEF M
  <1>7. \A ev, v : Same(m, R!Event(m, ev, v))
    BY <1>2 DEF R!Event
  <1>8. \A c : Same(m, R!Putch(m, c))
    BY <1>7 DEF R!Putch
  <1>9. \A v : Same(m, R!Putint(m, v))
    BY <1>7 DEF R!Putint
  <1>10. \A v : Same(m, Putnumber(m, v))
    BY <1>2, <1>9 DEF Putnumber
  <1>11. \A d : Same(m, Moved(m, d))
    BY <1>3 DEF Moved
  <1>12. \A off, c : Same(m, PutCell(m, off, c))
    BY <1>1 DEF PutCell
  <1>13. QED BY <1>4, <1>5, <1>6, <1>7, <1>8, <1>9, <1>10, <1>11, <1>12

\* One such effect after another.
LEMMA SameTransitive ==
  ASSUME NEW m, NEW k, NEW l, Same(m, k), Same(k, l)
  PROVE  Same(m, l)
  BY DEF Same

\* A machine that is halted no longer runs.
LEMMA HaltedMachine ==
  ASSUME NEW m, IsMachine(m), NEW how, how # "run"
  PROVE  IsMachine(R!Halted(m, how)) /\ R!Halted(m, how).status # "run"
  BY DEF R!Halted, IsMachine, Fields

\* A rail's turn.
LEMMA RideSame ==
  ASSUME NEW m, NEW k, IsMachine(m), Same(m, k), NEW stop
  PROVE  Same(m, Ride(m, stop, k)) /\ Same(m, GmpRide(m, stop, k))
  BY DEF Ride, GmpRide, Same, IsMachine, Fields

\* An operation that may also end the run.
Going(m, k) == IsMachine(k) /\ (k.status = "run" => k.n = m.n)

\* A read may end the run but does not move n.
LEMMA GetchGoing ==
  ASSUME NEW m, IsMachine(m), NEW off
  PROVE  Going(m, R!Getch(m, off))
  <1>1. ASSUME NEW k, Same(m, k), NEW old PROVE Going(m, R!AtEof(k, old, off))
    <2>1. IsMachine(k) /\ k.n = m.n
      BY <1>1 DEF Same
    <2>2. \A v : Same(k, R!Put(k, off, v))
      BY <2>1, SameMachine
    <2>3. IsMachine(R!Halted(k, "exit")) /\ R!Halted(k, "exit").status # "run"
      BY <2>1, HaltedMachine
    <2>4. QED BY <2>1, <2>2, <2>3 DEF R!AtEof, Going, Same
  <1>2. ASSUME NEW k, Same(m, k), NEW ev, NEW v PROVE Same(m, R!Event(k, ev, v))
    BY <1>2, SameMachine, SameTransitive DEF Same
  <1>3. ASSUME NEW k, Same(m, k), NEW v PROVE Going(m, R!Put(k, off, v))
    BY <1>3, SameMachine, SameTransitive DEF Same, Going
  <1>4. \A s : Same(m, [m EXCEPT !.string = s]) /\ Same(m, [m EXCEPT !.stdin = s])
    BY DEF Same, IsMachine, Fields
  <1>5. Same(m, [m EXCEPT !.string.on = FALSE]) /\ Same(m, [m EXCEPT !.string.left = Tail(@)])
    BY DEF Same, IsMachine, Fields
  <1>6. QED BY <1>1, <1>2, <1>3, <1>4, <1>5 DEF R!Getch

\* Reading a number does neither.
LEMMA GetintSame ==
  ASSUME NEW m, IsMachine(m), NEW off
  PROVE  Same(m, R!Getint(m, off)) /\ Same(m, GmpGetint(m, off))
  <1>1. Same(m, [m EXCEPT !.stdin = Tail(@)])
    BY DEF Same, IsMachine, Fields
  <1>2. ASSUME NEW k, Same(m, k), NEW ev, NEW v PROVE Same(m, R!Event(k, ev, v))
    BY <1>2, SameMachine, SameTransitive DEF Same
  <1>3. ASSUME NEW k, Same(m, k), NEW o, NEW v
        PROVE  Same(m, R!Put(k, o, v)) /\ Same(m, PutCell(k, o, v))
    BY <1>3, SameMachine, SameTransitive DEF Same
  <1>4. Same(m, m)
    BY DEF Same
  <1>5. Same(m, R!Getint(m, off))
    BY <1>1, <1>2, <1>3, <1>4 DEF R!Getint
  <1>6. Same(m, GmpGetint(m, off))
    BY <1>1, <1>2, <1>3 DEF GmpGetint
  <1>7. QED BY <1>5, <1>6

\* The read of the interpreter for cells of any size.
LEMMA GmpGetchGoing ==
  ASSUME NEW m, IsMachine(m), NEW off
  PROVE  Going(m, GmpGetch(m, off))
  <1> DEFINE a == [m EXCEPT !.tape = [x \in {m.p + off} |-> -256]]
             g == R!Getch(a, off)
             k == [g EXCEPT !.tape = m.tape]
  <1>1. Same(m, a)
    BY DEF Same, IsMachine, Fields
  <1>2. Going(a, g)
    BY <1>1, GetchGoing DEF Same
  <1>3. Going(m, k) /\ IsMachine(k)
    <2>1. IsMachine(g) /\ (g.status = "run" => g.n = m.n)
      BY <1>1, <1>2 DEF Same, Going
    <2> HIDE DEF g
    <2>2. QED BY <2>1 DEF Going, IsMachine, Fields
  <1>4. \A c : Going(m, PutCell(k, off, c))
    <2> HIDE DEF k
    <2>1. \A c : Same(k, PutCell(k, off, c))
      BY <1>3, SameMachine
    <2>2. QED BY <1>3, <2>1 DEF Going, Same
  <1>5. \/ GmpGetch(m, off) = k
        \/ GmpGetch(m, off) = PutCell(k, off, AsLong(MemCell(m, off), R!Fetch(g, off)))
    BY DEF GmpGetch
  <1> HIDE DEF k, g
  <1>6. QED BY <1>3, <1>4, <1>5

\* A division may end the run but does not move n.
LEMMA DividedGoing ==
  ASSUME NEW m, IsMachine(m), NEW off
  PROVE  Going(m, Divided(m, off))
  <1>1. ASSUME NEW k, Same(m, k), NEW o, NEW v PROVE Same(m, PutCell(k, o, v))
    BY <1>1, SameMachine, SameTransitive DEF Same
  <1>2. Same(m, m)
    BY DEF Same
  <1>3. \A k : Same(m, k) => Going(m, k)
    BY DEF Same, Going
  <1>4. Going(m, R!Halted(m, "exit"))
    BY HaltedMachine DEF Going
  <1>5. QED BY <1>1, <1>2, <1>3, <1>4 DEF Divided

(***************************************************************************)
(* One pass through the switch.                                            *)
(***************************************************************************)
Jumps == {"WHL", "END"}

\* h stands where m did, behind m's instruction, or where its jump leads.
Lands(tok, words, m, h) ==
  /\ IsMachine(h)
  /\ h.status = "run" =>
       /\ tok # "FINI"
       /\ \/ h.n = m.n
          \/ h.n = m.n + Width(tok)
          \/ tok \in Jumps /\ h.n = m.n + (words[m.n + 3] + 3)

\* "p += k", unless the run has ended.
On(k, d) == IF k.status = "run" THEN [k EXCEPT !.n = @ + d] ELSE k

\* Going on by a width, or by the distance of a jump that is taken.
LEMMA OnLands ==
  ASSUME NEW tok, tok # "FINI", NEW words, NEW m, NEW k, Going(m, k)
  PROVE  /\ Lands(tok, words, m, k)
         /\ Lands(tok, words, m, On(k, Width(tok)))
         /\ tok \in Jumps => Lands(tok, words, m, On(k, words[m.n + 3] + 3))
  <1>1. IsMachine(k) /\ (k.status = "run" => k.n = m.n)
    BY DEF Going
  <1>2. \A d : IsMachine(On(k, d)) /\ (On(k, d).status = "run" => On(k, d).n = m.n + d)
    BY <1>1 DEF On, IsMachine, Fields
  <1>3. QED BY <1>1, <1>2 DEF Lands

\* One pass through the switch goes on by the width of its token or jumps.
LEMMA ExecLands ==
  ASSUME NEW tok, NEW words, NEW m, IsMachine(m), m.n \in Nat, merge_mov
  PROVE  Lands(tok, words, m, Exec(tok, words, m))
  <1> DEFINE b == IF m.onRail THEN m ELSE Moved(m, words[m.n + 0 + 1])
             W(k) == words[m.n + k + 1]
             F(off) == R!Fetch(b, off)
             cut == M(b, 0)
             h == Exec(tok, words, m)
  <1>1. Same(m, b) /\ IsMachine(b)
    BY SameMachine DEF Same
  <1>2. Same(m, cut) /\ IsMachine(cut)
    BY <1>1, SameMachine, SameTransitive DEF Same
  <1>3. \A off, v : Same(m, Assign(b, off, v))
    BY <1>1, SameMachine, SameTransitive
  <1>4. m.n + 2 + 1 = m.n + 3
    OBVIOUS
  <1>5. \A k : Same(m, k) => Going(m, k)
    BY DEF Same, Going
  <1>6. \A k, l : Same(m, k) /\ Same(k, l) => Same(m, l)
    BY SameTransitive
  <1>7. ASSUME NEW k, Going(m, k), tok # "FINI"
        PROVE  /\ Lands(tok, words, m, k)
               /\ Lands(tok, words, m, On(k, Width(tok)))
               /\ tok \in Jumps => Lands(tok, words, m, On(k, words[m.n + 3] + 3))
    BY <1>7, OnLands
  <1>8. ASSUME NEW k, Same(m, k)
        PROVE  /\ \A off, v : Same(m, Assign(k, off, v))
               /\ \A off : Same(m, M(k, off))
               /\ \A d : Same(m, Moved(k, d))
               /\ \A v : Same(m, Putnumber(k, v))
    <2>1. IsMachine(k)
      BY <1>8 DEF Same
    <2>2. QED BY <1>8, <2>1, <1>6, SameMachine
  <1>9. ASSUME NEW k, NEW l, Same(m, k), Same(m, l), NEW stop
        PROVE  Same(m, Ride(k, stop, l))
    <2>1. Same(k, l) /\ IsMachine(k)
      BY <1>9 DEF Same
    <2>2. QED BY <1>9, <2>1, <1>6, RideSame
  <1> HIDE DEF b, cut
  <1>10. CASE tok \in {"ADD", "SET", "CALC4", "CALC5"}
    <2>1. \E v : h = On(Assign(b, 0, v), 3)
      BY <1>10 DEF Exec, On, b
    <2>2. Width(tok) = 3
      BY <1>10 DEF Width
    <2>3. QED BY <2>1, <2>2, <1>3, <1>5, <1>7, <1>10
  <1>11. CASE tok \in {"CALC3", "CALCMULT", "LT"}
    <2>1. \E v : h = On(Assign(b, 0, v), 4)
      BY <1>11 DEF Exec, On, b
    <2>2. Width(tok) = 4
      BY <1>11 DEF Width, Openers
    <2>3. QED BY <2>1, <2>2, <1>3, <1>5, <1>7, <1>11
  <1>12. CASE tok = "END"
    <2>1. h = On(cut, IF R!Fetch(cut, 0) # 0 THEN W(2) + 3 ELSE 3)
      BY <1>12 DEF Exec, On, b, cut
    <2>2. Width(tok) = 3 /\ tok \in Jumps
      BY <1>12 DEF Width, Jumps
    <2>3. QED BY <2>1, <2>2, <1>2, <1>4, <1>5, <1>7, <1>12
  <1>13. CASE tok = "WHL"
    <2>1. h = On(cut, IF R!Fetch(cut, 0) = 0 THEN W(2) + 3 ELSE 3)
      BY <1>13 DEF Exec, On, b, cut
    <2>2. Width(tok) = 3 /\ tok \in Jumps
      BY <1>13 DEF Width, Jumps, Openers
    <2>3. QED BY <2>1, <2>2, <1>2, <1>4, <1>5, <1>7, <1>13
  <1>14. CASE tok = "ENDIF"
    <2>1. h = On(b, 2)
      BY <1>14 DEF Exec, On, b
    <2>2. Width(tok) = 2
      BY <1>14 DEF Width, Openers
    <2>3. QED BY <2>1, <2>2, <1>1, <1>5, <1>7, <1>14
  <1>15. CASE tok \in {"CALC", "CALC2"}
    <2>1. \E v : h = On(Assign(b, 0, v), IF tok = "CALC" THEN 7 ELSE 5)
      BY <1>15 DEF Exec, On, b
    <2>2. Width(tok) = IF tok = "CALC" THEN 7 ELSE 5
      BY <1>15 DEF Width, Openers
    <2>3. QED BY <2>1, <2>2, <1>3, <1>5, <1>7, <1>15
  <1>16. CASE tok = "DIV"
    <2> DEFINE d == M(b, 1)
               c == M(d, 0)
               x == R!Fetch(c, 0)
               y == R!Fetch(c, 1)
               k == IF R!Fetch(d, 1) # 0
                    THEN Assign(Assign(c, 2, x % y), 3, x \div y)
                    ELSE Assign(Assign(d, 2, F(0)), 3, 0)
    <2>1. h = On(k, 2)
      BY <1>16 DEF Exec, On, b
    <2>2. Width(tok) = 2
      BY <1>16 DEF Width, Openers
    <2>3. Same(m, d) /\ Same(m, c)
      BY <1>1, <1>8
    <2> HIDE DEF d, c, x, y
    <2>4. Same(m, k)
      BY <2>3, <1>8
    <2> HIDE DEF k
    <2>5. QED BY <2>1, <2>2, <2>4, <1>5, <1>7, <1>16
  <1>17. CASE tok = "ADDWZ"
    <2> DEFINE k == Ride(cut, 0, Moved(Assign(cut, W(2), R!Fetch(cut, W(2)) + W(3)), W(4)))
    <2>1. h = IF k.onRail THEN k ELSE On(k, 5)
      BY <1>17 DEF Exec, On, b, cut
    <2>2. Width(tok) = 5
      BY <1>17 DEF Width, Openers
    <2>3. Same(m, k)
      BY <1>2, <1>8, <1>9
    <2> HIDE DEF k
    <2>4. QED BY <2>1, <2>2, <2>3, <1>5, <1>7, <1>17
  <1>18. CASE tok = "ZFIND"
    <2> DEFINE k == Ride(cut, 0, Moved(cut, W(2)))
    <2>1. h = IF k.onRail THEN k ELSE On(k, 3)
      BY <1>18 DEF Exec, On, b, cut
    <2>2. Width(tok) = 3
      BY <1>18 DEF Width
    <2>3. Same(m, k)
      BY <1>2, <1>8, <1>9
    <2> HIDE DEF k
    <2>4. QED BY <2>1, <2>2, <2>3, <1>5, <1>7, <1>18
  <1>19. CASE tok = "MFIND"
    <2> DEFINE f == IF m.onRail THEN b ELSE Assign(b, 0, F(0) - 1)
               k == Ride(f, -1, Moved(f, W(2)))
               l == Assign(k, 0, R!Fetch(k, 0) + 1)
    <2>1. h = IF k.onRail THEN k ELSE On(l, 3)
      BY <1>19 DEF Exec, On, b
    <2>2. Width(tok) = 3
      BY <1>19 DEF Width
    <2>3. Same(m, f)
      BY <1>1, <1>3
    <2> HIDE DEF f
    <2>4. Same(m, k)
      BY <2>3, <1>8, <1>9
    <2> HIDE DEF k
    <2>5. Same(m, l)
      BY <2>4, <1>8
    <2> HIDE DEF l
    <2>6. QED BY <2>1, <2>2, <2>4, <2>5, <1>5, <1>7, <1>19
  <1>20. CASE tok = "INP"
    <2> DEFINE g == R!Getch(b, 0)
               k == Assign(g, 0, R!Fetch(g, 0))
    <2>1. h = On(k, 2)
      BY <1>20 DEF Exec, On, b
    <2>2. Width(tok) = 2
      BY <1>20 DEF Width, Openers
    <2>3. Going(b, g) /\ IsMachine(g)
      BY <1>1, GetchGoing DEF Going
    <2> HIDE DEF g
    <2>4. Same(g, k)
      BY <2>3, SameMachine
    <2>5. Going(m, k)
      BY <2>3, <2>4, <1>1 DEF Going, Same
    <2> HIDE DEF k
    <2>6. QED BY <2>1, <2>2, <2>5, <1>7, <1>20
  <1>21. CASE tok = "INPI"
    <2>1. h = On(R!Getint(b, 0), 2)
      BY <1>21 DEF Exec, On, b
    <2>2. Width(tok) = 2
      BY <1>21 DEF Width, Openers
    <2>3. Same(m, R!Getint(b, 0))
      BY <1>1, <1>6, GetintSame
    <2>4. QED BY <2>1, <2>2, <2>3, <1>5, <1>7, <1>21
  <1>22. CASE tok = "PRT"
    <2>1. h = On(R!Putch(b, F(0)), 2)
      BY <1>22 DEF Exec, On, b
    <2>2. Width(tok) = 2
      BY <1>22 DEF Width, Openers
    <2>3. Same(m, R!Putch(b, F(0)))
      BY <1>1, <1>6, SameMachine
    <2>4. QED BY <2>1, <2>2, <2>3, <1>5, <1>7, <1>22
  <1>23. CASE tok = "PRTI"
    <2>1. h = On(Putnumber(cut, R!Fetch(cut, 0)), 2)
      BY <1>23 DEF Exec, On, b, cut
    <2>2. Width(tok) = 2
      BY <1>23 DEF Width, Openers
    <2>3. Same(m, Putnumber(cut, R!Fetch(cut, 0)))
      BY <1>2, <1>8
    <2>4. QED BY <2>1, <2>2, <2>3, <1>5, <1>7, <1>23
  <1>24. CASE tok = "CHR"
    <2>1. h = On(R!Putch(b, W(2)), 3)
      BY <1>24 DEF Exec, On, b
    <2>2. Width(tok) = 3
      BY <1>24 DEF Width, TokenWord
    <2>3. Same(m, R!Putch(b, W(2)))
      BY <1>1, <1>6, SameMachine
    <2>4. QED BY <2>1, <2>2, <2>3, <1>5, <1>7, <1>24
  <1>25. CASE tok \in {"STOP", "FINI"}
    <2>1. h = R!Halted(b, "stop") \/ h = R!Halted(b, "done")
      BY <1>25 DEF Exec, b
    <2>2. QED BY <2>1, <1>1, HaltedMachine DEF Lands
  <1>26. CASE tok \notin {"ADD", "SET", "END", "WHL", "ENDIF", "CALC", "CALC2", "CALC3",
                         "CALC4", "CALC5", "CALCMULT", "LT", "DIV", "ADDWZ", "ZFIND",
                         "MFIND", "INP", "INPI", "PRT", "PRTI", "CHR", "STOP", "FINI"}
    <2>1. h = b
      BY <1>26 DEF Exec, b
    <2>2. QED BY <2>1, <1>1, <1>5, <1>7, <1>26
  <1> HIDE DEF h
  <1>27. QED
    BY <1>10, <1>11, <1>12, <1>13, <1>14, <1>15,
       <1>16, <1>17, <1>18, <1>19, <1>20, <1>21, <1>22, <1>23, <1>24, <1>25, <1>26 DEF h

\* The loop of bfi.gmp.c.
LEMMA GmpExecLands ==
  ASSUME NEW tok, NEW words, NEW m, IsMachine(m), m.n \in Nat, ~merge_mov
  PROVE  Lands(tok, words, m, GmpExec(tok, words, m))
  <1> DEFINE W(k) == words[m.n + k + 1]
             C(off) == MemCell(m, off)
             cut == PutCell(m, W(1), Masked(C(W(1))))
             zero == Value(Masked(C(W(1)))) = 0
             h == GmpExec(tok, words, m)
  <1>1. \A off, c : Same(m, PutCell(m, off, c))
    BY SameMachine
  <1>2. Same(m, cut) /\ Same(m, m) /\ IsMachine(cut)
    BY <1>1 DEF Same
  <1>3. m.n + 2 + 1 = m.n + 3
    OBVIOUS
  <1>4. \A k : Same(m, k) => Going(m, k)
    BY DEF Same, Going
  <1>5. \A k, l : Same(m, k) /\ Same(k, l) => Same(m, l)
    BY SameTransitive
  <1>6. ASSUME NEW k, Going(m, k), tok # "FINI"
        PROVE  /\ Lands(tok, words, m, k)
               /\ Lands(tok, words, m, On(k, Width(tok)))
               /\ tok \in Jumps => Lands(tok, words, m, On(k, words[m.n + 3] + 3))
    BY <1>6, OnLands
  <1>7. ASSUME NEW k, Same(m, k)
        PROVE  /\ \A off, c : Same(m, PutCell(k, off, c))
               /\ \A d : Same(m, Moved(k, d))
               /\ \A ev, v : Same(m, R!Event(k, ev, v))
               /\ \A c : Same(m, R!Putch(k, c))
    <2>1. IsMachine(k)
      BY <1>7 DEF Same
    <2>2. QED BY <1>7, <2>1, <1>5, SameMachine
  <1>8. ASSUME NEW k, NEW l, Same(m, k), Same(m, l), NEW stops
        PROVE  Same(m, GmpRide(k, stops, l))
    <2>1. Same(k, l) /\ IsMachine(k)
      BY <1>8 DEF Same
    <2>2. QED BY <1>8, <2>1, <1>5, RideSame
  <1> HIDE DEF cut, zero
  <1>9. CASE tok = "MOV"
    <2>1. h = On(Moved(m, W(1)), 2)
      BY <1>9 DEF GmpExec, On
    <2>2. Width(tok) = 2
      BY <1>9 DEF Width, Openers
    <2>3. QED BY <2>1, <2>2, <1>2, <1>4, <1>6, <1>7, <1>9
  <1>10. CASE tok \in {"ADD", "SET", "CALC4", "CALC5"}
    <2> DEFINE c == CASE tok = "ADD"   -> mpx_add_cell_si(C(W(1)), W(2))
                      [] tok = "SET"   -> AsLong(C(W(1)), W(2))
                      [] tok = "CALC4" -> IF C(W(2)).f THEN AsBig(C(W(1)), Value(C(W(2))))
                                                       ELSE AsLong(C(W(1)), Value(C(W(2))))
                      [] tok = "CALC5" -> Result(C(W(1)), {C(W(1)), C(W(2))}, {},
                                                 Value(C(W(1))) + Value(C(W(2))))
    <2>1. h = On(PutCell(m, W(1), c), 3)
      BY <1>10 DEF GmpExec, On
    <2>2. Width(tok) = 3
      BY <1>10 DEF Width
    <2>3. QED BY <2>1, <2>2, <1>1, <1>4, <1>6, <1>10
  <1>11. CASE tok \in {"CALC3", "CALCMULT"}
    <2> DEFINE c == Result(C(W(1)), {C(W(1)), C(W(2))}, {Value(C(W(2))) * W(3)},
                           Value(C(W(1))) + Value(C(W(2))) * W(3))
               d == Result(C(W(1)), {C(W(2)), C(W(3))}, {}, Value(C(W(2))) * Value(C(W(3))))
    <2>1. tok = "CALC3" => h = On(PutCell(m, W(1), c), 4)
      BY DEF GmpExec, On
    <2>2. tok = "CALCMULT" => h = On(PutCell(m, W(1), d), 4)
      BY DEF GmpExec, On
    <2>3. Width(tok) = 4
      BY <1>11 DEF Width, Openers
    <2> HIDE DEF c, d
    <2>4. QED BY <2>1, <2>2, <2>3, <1>1, <1>4, <1>6, <1>11
  <1>12. CASE tok \in {"CALC", "CALC2"}
    <2> DEFINE V(k) == Value(C(W(k)))
               c == Result(C(W(1)), {C(W(3)), C(W(5))},
                           {V(3) * W(4), V(5) * W(6), V(3) * W(4) + V(5) * W(6)},
                           W(2) + V(3) * W(4) + V(5) * W(6))
               d == Result(C(W(1)), {C(W(3))}, {V(3) * W(4)}, W(2) + V(3) * W(4))
    <2>1. tok = "CALC" => h = On(PutCell(m, W(1), c), 7)
      BY DEF GmpExec, On
    <2>2. tok = "CALC2" => h = On(PutCell(m, W(1), d), 5)
      BY DEF GmpExec, On
    <2>3. Width(tok) = IF tok = "CALC" THEN 7 ELSE 5
      BY <1>12 DEF Width, Openers
    <2> HIDE DEF c, d
    <2>4. QED BY <2>1, <2>2, <2>3, <1>1, <1>4, <1>6, <1>12
  <1>13. CASE tok = "END"
    <2>1. h = On(cut, IF zero THEN 3 ELSE W(2) + 3)
      BY <1>13 DEF GmpExec, On, cut, zero
    <2>2. Width(tok) = 3 /\ tok \in Jumps
      BY <1>13 DEF Width, Jumps
    <2>3. QED BY <2>1, <2>2, <1>2, <1>3, <1>4, <1>6, <1>13
  <1>14. CASE tok = "WHL"
    <2>1. h = On(cut, IF zero THEN W(2) + 3 ELSE 3)
      BY <1>14 DEF GmpExec, On, cut, zero
    <2>2. Width(tok) = 3 /\ tok \in Jumps
      BY <1>14 DEF Width, Jumps, Openers
    <2>3. QED BY <2>1, <2>2, <1>2, <1>3, <1>4, <1>6, <1>14
  <1>15. CASE tok = "LT"
    <2> DEFINE r == Compared(m, W(2), W(3))
               k == IF r.less THEN PutCell(r.m, W(1), mpx_add_cell_si(MemCell(r.m, W(1)), 1))
                              ELSE r.m
    <2>1. h = On(k, 4)
      BY <1>15 DEF GmpExec, On
    <2>2. Width(tok) = 4
      BY <1>15 DEF Width, Openers
    <2>3. \E c, d : r.m = PutCell(PutCell(m, W(2), c), W(3), d)
      BY DEF Compared
    <2> HIDE DEF r
    <2>4. Same(m, r.m)
      BY <2>3, <1>1, <1>7
    <2>5. Same(m, k)
      BY <2>4, <1>7
    <2> HIDE DEF k
    <2>6. QED BY <2>1, <2>2, <2>5, <1>4, <1>6, <1>15
  <1>16. CASE tok = "DIV"
    <2>1. h = On(Divided(m, W(1)), 2)
      BY <1>16 DEF GmpExec, On
    <2>2. Width(tok) = 2
      BY <1>16 DEF Width, Openers
    <2>3. QED BY <2>1, <2>2, <1>6, <1>16, DividedGoing
  <1>17. CASE tok = "ADDWZ"
    <2> DEFINE x == PutCell(cut, W(2), mpx_add_cell_si(MemCell(cut, W(2)), W(3)))
               k == GmpRide(cut, zero, Moved(x, W(4)))
    <2>1. h = IF k.onRail THEN k ELSE On(k, 5)
      BY <1>17 DEF GmpExec, On, cut, zero
    <2>2. Width(tok) = 5
      BY <1>17 DEF Width, Openers
    <2>3. Same(m, x)
      BY <1>2, <1>7
    <2> HIDE DEF x
    <2>4. Same(m, k)
      BY <2>3, <1>2, <1>7, <1>8
    <2> HIDE DEF k
    <2>5. QED BY <2>1, <2>2, <2>4, <1>4, <1>6, <1>17
  <1>18. CASE tok = "ZFIND"
    <2> DEFINE k == GmpRide(cut, zero, Moved(cut, W(2)))
    <2>1. h = IF k.onRail THEN k ELSE On(k, 3)
      BY <1>18 DEF GmpExec, On, cut, zero
    <2>2. Width(tok) = 3
      BY <1>18 DEF Width
    <2>3. Same(m, k)
      BY <1>2, <1>7, <1>8
    <2> HIDE DEF k
    <2>4. QED BY <2>1, <2>2, <2>3, <1>4, <1>6, <1>18
  <1>19. CASE tok = "MFIND"
    <2> DEFINE f == IF m.onRail THEN m ELSE PutCell(m, W(1), mpx_add_cell_si(C(W(1)), -1))
               x == PutCell(f, W(1), Masked(MemCell(f, W(1))))
               k == GmpRide(x, IsMinusOne(MemCell(x, W(1))), Moved(x, W(2)))
               l == PutCell(k, W(1), mpx_add_cell_si(MemCell(k, W(1)), 1))
    <2>1. h = IF k.onRail THEN k ELSE On(l, 3)
      BY <1>19 DEF GmpExec, On
    <2>2. Width(tok) = 3
      BY <1>19 DEF Width
    <2>3. Same(m, f)
      BY <1>1, <1>2
    <2> HIDE DEF f
    <2>4. Same(m, x)
      BY <2>3, <1>7
    <2> HIDE DEF x
    <2>5. Same(m, k)
      BY <2>4, <1>7, <1>8
    <2> HIDE DEF k
    <2>6. Same(m, l)
      BY <2>5, <1>7
    <2> HIDE DEF l
    <2>7. QED BY <2>1, <2>2, <2>5, <2>6, <1>4, <1>6, <1>19
  <1>20. CASE tok \in {"INP", "INPI"}
    <2>1. tok = "INP" => h = On(GmpGetch(m, W(1)), 2)
      BY DEF GmpExec, On
    <2>2. tok = "INPI" => h = On(GmpGetint(m, W(1)), 2)
      BY DEF GmpExec, On
    <2>3. Width(tok) = 2
      BY <1>20 DEF Width, Openers
    <2>4. Going(m, GmpGetch(m, W(1))) /\ Going(m, GmpGetint(m, W(1)))
      BY <1>4, GmpGetchGoing, GetintSame
    <2>5. QED BY <2>1, <2>2, <2>3, <2>4, <1>6, <1>20
  <1>21. CASE tok \in {"PRT", "CHR"}
    <2>1. tok = "PRT" => h = On(R!Putch(m, Printed(C(W(1)))), 2)
      BY DEF GmpExec, On
    <2>2. tok = "CHR" => h = On(R!Putch(m, W(1)), 2)
      BY DEF GmpExec, On
    <2>3. Width(tok) = 2
      BY <1>21 DEF Width, Openers, TokenWord
    <2>4. QED BY <2>1, <2>2, <2>3, <1>2, <1>4, <1>6, <1>7, <1>21
  <1>22. CASE tok = "PRTI"
    <2> DEFINE x == IF C(W(1)).f THEN cut ELSE m
               k == R!Event(x, "int", IF C(W(1)).f THEN cell_and(C(W(1)).b) ELSE C(W(1)).v)
    <2>1. h = On(k, 2)
      BY <1>22 DEF GmpExec, On, cut
    <2>2. Width(tok) = 2
      BY <1>22 DEF Width, Openers
    <2>3. Same(m, x)
      BY <1>2
    <2> HIDE DEF x
    <2>4. Same(m, k)
      BY <2>3, <1>7
    <2> HIDE DEF k
    <2>5. QED BY <2>1, <2>2, <2>4, <1>4, <1>6, <1>22
  <1>23. CASE tok \notin {"MOV", "ADD", "SET", "END", "WHL", "CALC", "CALC2", "CALC3",
                         "CALC4", "CALC5", "CALCMULT", "LT", "DIV", "ADDWZ", "ZFIND",
                         "MFIND", "INP", "INPI", "PRT", "PRTI", "CHR"}
    <2>1. h = R!Halted(m, "stop") \/ h = R!Halted(m, "done")
      BY <1>23 DEF GmpExec
    <2>2. QED BY <2>1, <1>2, HaltedMachine DEF Lands
  <1> HIDE DEF h
  <1>24. QED
    BY <1>9, <1>10, <1>11, <1>12, <1>13, <1>14, <1>15, <1>16, <1>17, <1>18, <1>19, <1>20,
       <1>21, <1>22, <1>23 DEF h

(***************************************************************************)
(* The array.                                                              *)
(***************************************************************************)
LEMMA Appended ==
  ASSUME NEW words \in Seq(Int), NEW ws \in Seq(Int)
  PROVE  /\ words \o ws \in Seq(Int) /\ Len(words) \in Nat /\ Len(ws) \in Nat
         /\ Len(words \o ws) = Len(words) + Len(ws)
         /\ \A i \in 1 .. Len(words) : (words \o ws)[i] = words[i]
         /\ \A i \in 1 .. Len(ws) : (words \o ws)[Len(words) + i] = ws[i]
  OBVIOUS

\* The words ws are an instruction.
Instruction(ws, tok) ==
  /\ ws \in Seq(Int) /\ tok \in Tokens
  /\ Len(ws) = Width(tok) /\ ws[TokenWord] = Code[tok]

\* At b stands an instruction behind which, and at the end of whose jump, there
\* is a place of G; the jump of a place of P is not known yet.
Whole(words, G, P, b) ==
  LET tok == TokenAt(words, b) IN
  /\ b + TokenWord <= Len(words)
  /\ tok # "FINI" => b + Width(tok) \in G
  /\ tok \in Jumps => b + 3 <= Len(words)
  /\ tok \in Jumps => b + (words[b + 3] + 3) \in G \/ (tok = "WHL" /\ b \in P)

\* A jump can be patched in at b: nothing begins before the end of the opening
\* bracket that is there.
Patchable(words, S, b) ==
  /\ b \in S /\ b + 3 <= Len(words) /\ TokenAt(words, b) \in Openers
  /\ b + 1 \notin S /\ b + 2 \notin S

Array(words, S, G, P) ==
  /\ words \in Seq(Int) /\ S \subseteq 0 .. Len(words)
  /\ \A b \in S : b < Len(words) => Whole(words, G, P, b)
  /\ \A b \in P : Patchable(words, S, b)

\* The token of an instruction is its first word or its second.
LEMMA TokenAtWord ==
  ASSUME NEW words, NEW n \in Int
  PROVE  TokenAt(words, n) = TokenList[words[n + TokenWord] + 1] /\ TokenWord \in {1, 2}
  BY DEF TokenAt, TokenWord

\* No instruction is shorter than its token.
LEMMA WidthNat ==
  ASSUME NEW tok
  PROVE  Width(tok) \in Nat /\ Width(tok) >= TokenWord
  BY DEF Width, TokenWord

\* An instruction is written.
LEMMA Grown ==
  ASSUME NEW words, NEW S, NEW P, Array(words, S, S \cup {Len(words)}, P),
         NEW ws, NEW tok, Instruction(ws, tok), tok # "FINI",
         tok = "END" => Len(words) + (ws[3] + 3) \in S \cup {Len(words)}
  PROVE  LET now == words \o ws
             T   == S \cup {Len(words)}
         IN  Array(now, T, T \cup {Len(now)}, P \cup (IF tok \in Openers THEN {Len(words)} ELSE {}))
  <1> DEFINE now == words \o ws
             L == Len(words)
             T == S \cup {L}
             G == T \cup {Len(now)}
             Q == P \cup (IF tok \in Openers THEN {L} ELSE {})
  <1>1. words \in Seq(Int) /\ ws \in Seq(Int) /\ tok \in Tokens /\ Len(ws) = Width(tok)
        /\ ws[TokenWord] = Code[tok] /\ TokenWord \in {1, 2}
    BY DEF Array, Instruction, TokenWord
  <1>2. /\ now \in Seq(Int) /\ L \in Nat /\ Len(now) = L + Width(tok) /\ Width(tok) \in Nat
        /\ Width(tok) >= TokenWord /\ Len(now) \in Nat
        /\ \A i \in 1 .. L : now[i] = words[i]
        /\ \A i \in 1 .. Width(tok) : now[L + i] = ws[i]
    <2>1. /\ now \in Seq(Int) /\ L \in Nat /\ Len(ws) \in Nat /\ Len(now) = L + Len(ws)
          /\ \A i \in 1 .. L : now[i] = words[i]
          /\ \A i \in 1 .. Len(ws) : now[L + i] = ws[i]
      BY <1>1, Appended
    <2>2. Len(now) \in Nat /\ Len(ws) = Width(tok) /\ Width(tok) >= TokenWord
      BY <2>1, <1>1, WidthNat
    <2>3. QED BY <2>1, <2>2
  <1>3. L = Len(words) /\ \A b \in S : b \in Int /\ 0 <= b /\ b <= L
    BY DEF Array
  <1>4. \A b \in S : b < L => Whole(words, S \cup {L}, P, b)
    BY DEF Array
  <1>5. \A b \in P : Patchable(words, S, b) /\ b + 3 <= L /\ b \in S
    BY DEF Array, Patchable
  <1> HIDE DEF now, L
  <1>6. ASSUME NEW b \in Int, 0 <= b, b + TokenWord <= L
        PROVE  TokenAt(now, b) = TokenAt(words, b)
    <2>1. b + TokenWord \in 1 .. L
      BY <1>1, <1>2, <1>6
    <2>2. now[b + TokenWord] = words[b + TokenWord]
      BY <2>1, <1>2
    <2>3. QED BY <2>2, <1>6, TokenAtWord
  <1>7. TokenAt(now, L) = tok
    <2>1. TokenWord \in 1 .. Width(tok)
      BY <1>1, <1>2
    <2>2. now[L + TokenWord] = Code[tok] /\ L \in Int
      BY <2>1, <1>1, <1>2
    <2>3. TokenAt(now, L) = TokenList[now[L + TokenWord] + 1]
      BY <2>2, TokenAtWord
    <2>4. QED BY <2>2, <2>3, <1>1, Coded
  <1>8. ASSUME NEW b \in S, b < L PROVE Whole(now, G, Q, b)
    <2>1. Whole(words, S \cup {L}, P, b) /\ b \in Int /\ 0 <= b
      BY <1>3, <1>4, <1>8
    <2>2. b + TokenWord <= L /\ TokenAt(now, b) = TokenAt(words, b)
      BY <2>1, <1>3, <1>6 DEF Whole
    <2>3. b + 3 <= L => now[b + 3] = words[b + 3] /\ b + 3 <= Len(now)
      BY <2>1, <1>2
    <2>4. b + TokenWord <= Len(now)
      BY <2>1, <2>2, <1>1, <1>2
    <2> DEFINE u == TokenAt(words, b)
    <2>5. /\ u # "FINI" => b + Width(u) \in G
          /\ u \in Jumps => b + 3 <= L /\ (b + (words[b + 3] + 3) \in G \/ (u = "WHL" /\ b \in Q))
      BY <2>1, <1>3 DEF Whole
    <2> HIDE DEF u
    <2>6. TokenAt(now, b) = u
      BY <2>2 DEF u
    <2> HIDE DEF G, Q
    <2>7. QED BY <2>3, <2>4, <2>5, <2>6 DEF Whole
  <1>9. Whole(now, G, Q, L)
    <2>1. L + TokenWord <= Len(now) /\ L + Width(tok) \in G
      BY <1>1, <1>2
    <2>2. tok \in Jumps => Width(tok) = 3 /\ now[L + 3] = ws[3] /\ L + 3 <= Len(now)
      <3>1. tok \in Jumps => Width(tok) = 3
        BY DEF Jumps, Width, Openers
      <3>2. QED BY <3>1, <1>2
    <2>3. tok = "WHL" => L \in Q
      BY DEF Openers
    <2>4. tok = "END" => L + (now[L + 3] + 3) \in G
      BY <2>2 DEF Jumps, L
    <2>5. QED BY <2>1, <2>2, <2>3, <2>4, <1>7 DEF Whole, Jumps
  <1>10. ASSUME NEW b \in P PROVE Patchable(now, T, b)
    <2>1. b \in S /\ b \in Int /\ 0 <= b /\ b + 3 <= L
      BY <1>3, <1>5
    <2>2. b + TokenWord <= L
      BY <2>1, <1>1, <1>2
    <2>3. TokenAt(now, b) = TokenAt(words, b)
      BY <2>1, <2>2, <1>6
    <2>4. b + 1 # L /\ b + 2 # L /\ b + 3 <= Len(now)
      BY <2>1, <1>2
    <2>5. QED BY <2>3, <2>4, <1>5 DEF Patchable
  <1>11. ASSUME tok \in Openers PROVE Patchable(now, T, L)
    <2>1. L + 1 \notin T /\ L + 2 \notin T
      BY <1>2, <1>3
    <2>2. Width(tok) = 3
      BY <1>11 DEF Width, Openers
    <2>3. L + 3 <= Len(now)
      BY <2>2, <1>2
    <2>4. QED BY <2>1, <2>3, <1>7, <1>11 DEF Patchable
  <1>12. \A b \in T : b \in 0 .. Len(now)
    BY <1>2, <1>3
  <1>13. \A b \in T : Whole(now, G, Q, b)
    <2>1. \A b \in S : b < L \/ b = L
      BY <1>2, <1>3
    <2>2. QED BY <2>1, <1>8, <1>9
  <1>14. \A b \in Q : Patchable(now, T, b)
    BY <1>10, <1>11
  <1> HIDE DEF T, G, Q
  <1>15. Array(now, T, G, Q)
    BY <1>2, <1>12, <1>13, <1>14 DEF Array
  <1>16. QED BY <1>15 DEF now, L, T, G, Q

\* Nothing is written.
LEMMA NotGrown ==
  ASSUME NEW words, NEW S, NEW P, Array(words, S, S \cup {Len(words)}, P)
  PROVE  Array(words, S \cup {Len(words)}, S \cup {Len(words)}, P)
  <1> DEFINE L == Len(words)
             T == S \cup {L}
  <1>1. words \in Seq(Int) /\ L \in Nat /\ \A b \in S : b \in Int /\ 0 <= b /\ b <= L
    BY DEF Array
  <1>2. \A b \in S : b < L => Whole(words, S \cup {L}, P, b)
    BY DEF Array
  <1>3. \A b \in P : Patchable(words, S, b) /\ b + 3 <= L /\ b \in S
    BY DEF Array, Patchable
  <1> HIDE DEF L
  <1>4. \A b \in T : b \in 0 .. L /\ (b < L => b \in S)
    BY <1>1
  <1>5. ASSUME NEW b \in P PROVE Patchable(words, T, b)
    <2>1. b + 1 # L /\ b + 2 # L
      BY <1>1, <1>3
    <2>2. QED BY <2>1, <1>3 DEF Patchable
  <1>6. \A b \in T : b < L => Whole(words, T, P, b)
    BY <1>2, <1>4
  <1> HIDE DEF T
  <1>7. Array(words, T, T, P)
    BY <1>1, <1>4, <1>5, <1>6 DEF Array, L
  <1>8. QED BY <1>7 DEF T, L

\* Of the jumps of P only that at o is not waited for any more.
Fewer(P, o, Q) == P \ {o} \subseteq Q /\ Q \subseteq P

\* A jump is patched in.
LEMMA PatchedArray ==
  ASSUME NEW words, NEW S, NEW G, NEW P, Array(words, S, G, P),
         NEW o \in P, NEW d \in Int, o + (d + 3) \in G,
         NEW Q, Fewer(P, o, Q)
  PROVE  /\ Array(Patched(words, o + 2, d), S, G, Q)
         /\ Len(Patched(words, o + 2, d)) = Len(words)
  <1> DEFINE now == Patched(words, o + 2, d)
             L == Len(words)
  <1>0. P \ {o} \subseteq Q /\ Q \subseteq P
    BY DEF Fewer
  <1>1. /\ words \in Seq(Int) /\ L \in Nat /\ L = Len(words) /\ TokenWord \in {1, 2}
        /\ \A b \in S : b \in Int /\ 0 <= b /\ b <= L
    BY DEF Array, TokenWord
  <1>2. \A b \in S : b < L => Whole(words, G, P, b)
    BY DEF Array
  <1>3. \A b \in P : Patchable(words, S, b) /\ b + 3 <= L /\ b \in S
    BY DEF Array, Patchable
  <1>4. /\ o \in Int /\ 0 <= o /\ o + 3 <= L /\ TokenAt(words, o) \in Openers
        /\ o + 1 \notin S /\ o + 2 \notin S
    BY <1>1, <1>3 DEF Patchable
  <1>5. now = [words EXCEPT ![o + 3] = d]
    <2>1. (o + 2) + 1 = o + 3
      BY <1>4
    <2>2. QED BY <2>1 DEF Patched
  <1>6. now \in Seq(Int) /\ Len(now) = L /\ now[o + 3] = d
        /\ \A i \in 1 .. L : i # o + 3 => now[i] = words[i]
    <2>1. o + 3 \in 1 .. Len(words)
      BY <1>1, <1>4
    <2> HIDE DEF now
    <2>2. QED BY <2>1, <1>1, <1>5
  <1> HIDE DEF now, L
  <1>7. ASSUME NEW b \in S, b + TokenWord <= L PROVE TokenAt(now, b) = TokenAt(words, b)
    <2>1. b \in Int /\ 0 <= b /\ b # o + 1 /\ b # o + 2
      BY <1>1, <1>4
    <2>2. b + TokenWord # o + 3 /\ b + TokenWord \in 1 .. L
      BY <2>1, <1>1, <1>4, <1>7
    <2>3. now[b + TokenWord] = words[b + TokenWord]
      BY <2>2, <1>6
    <2>4. QED BY <2>1, <2>3, TokenAtWord
  <1>8. ASSUME NEW b \in S, b < L PROVE Whole(now, G, Q, b)
    <2> DEFINE u == TokenAt(words, b)
    <2>1. Whole(words, G, P, b) /\ b \in Int /\ 0 <= b
      BY <1>1, <1>2, <1>8
    <2>2. /\ b + TokenWord <= L
          /\ u # "FINI" => b + Width(u) \in G
          /\ u \in Jumps => b + 3 <= L /\ (b + (words[b + 3] + 3) \in G \/ (u = "WHL" /\ b \in P))
      BY <2>1, <1>1 DEF Whole
    <2>3. b = o => u \in Openers
      BY <1>4
    <2> HIDE DEF u
    <2>4. TokenAt(now, b) = u
      BY <2>2, <1>7 DEF u
    <2>5. CASE b = o
      <3>1. b + (now[b + 3] + 3) \in G
        BY <2>5, <1>6
      <3>2. QED BY <2>2, <2>4, <3>1, <1>6 DEF Whole
    <2>6. CASE b # o
      <3>1. b + 3 # o + 3
        BY <2>1, <2>6, <1>4
      <3>2. b + 3 <= L => now[b + 3] = words[b + 3]
        BY <2>1, <3>1, <1>1, <1>6
      <3>3. QED BY <2>2, <2>4, <2>6, <3>2, <1>0, <1>6 DEF Whole
    <2>7. QED BY <2>5, <2>6
  <1>9. ASSUME NEW b \in Q PROVE Patchable(now, S, b)
    <2>1. Patchable(words, S, b) /\ b \in S /\ b \in Int /\ b + 3 <= L
      BY <1>0, <1>1, <1>3
    <2>2. b + TokenWord <= L
      BY <2>1, <1>1
    <2>3. TokenAt(now, b) = TokenAt(words, b)
      BY <2>1, <2>2, <1>7
    <2>4. QED BY <2>1, <2>3, <1>6 DEF Patchable
  <1>10. S \subseteq 0 .. Len(now) /\ Len(now) = Len(words)
    BY <1>1, <1>6
  <1>11. Array(now, S, G, Q)
    BY <1>6, <1>8, <1>9, <1>10 DEF Array
  <1>12. QED BY <1>10, <1>11 DEF now

\* The last instruction ends the run: nothing begins behind it.
LEMMA Finished ==
  ASSUME NEW words, NEW S, Array(words, S, S \cup {Len(words)}, {})
  PROVE  LET now == words \o FinishInstr
             T   == S \cup {Len(words)}
         IN  Array(now, T, T, {}) /\ \A b \in T : b < Len(now)
  <1> DEFINE ws == FinishInstr
             now == words \o ws
             L == Len(words)
             T == S \cup {L}
  <1>1. /\ words \in Seq(Int) /\ L \in Nat /\ L = Len(words) /\ TokenWord \in {1, 2}
        /\ \A b \in S : b \in Int /\ 0 <= b /\ b <= L
    BY DEF Array, TokenWord
  <1>2. \A b \in S : b < L => Whole(words, T, {}, b)
    BY DEF Array
  <1>3. Code["FINI"] \in Int /\ TokenList[Code["FINI"] + 1] = "FINI"
    BY Coded, TokensListed
  <1>4. ws \in Seq(Int) /\ Len(ws) = TokenWord /\ ws[TokenWord] = Code["FINI"]
    BY <1>3 DEF FinishInstr, TokenWord
  <1> HIDE DEF ws
  <1>5. /\ now \in Seq(Int) /\ Len(now) = L + TokenWord
        /\ \A i \in 1 .. L : now[i] = words[i]
        /\ now[L + TokenWord] = Code["FINI"]
    <2>1. TokenWord \in 1 .. Len(ws)
      BY <1>1, <1>4
    <2>2. QED BY <2>1, <1>1, <1>4, Appended
  <1> HIDE DEF now, L
  <1>6. ASSUME NEW b \in S, b < L PROVE Whole(now, T, {}, b)
    <2> DEFINE u == TokenAt(words, b)
    <2>1. Whole(words, T, {}, b) /\ b \in Int /\ 0 <= b
      BY <1>1, <1>2, <1>6
    <2>2. /\ b + TokenWord <= L
          /\ u # "FINI" => b + Width(u) \in T
          /\ u \in Jumps => b + 3 <= L /\ b + (words[b + 3] + 3) \in T
      BY <2>1, <1>1 DEF Whole
    <2>3. b + TokenWord \in 1 .. L
      BY <2>1, <2>2, <1>1
    <2>4. TokenAt(now, b) = TokenAt(words, b)
      BY <2>1, <2>3, <1>5, TokenAtWord
    <2> HIDE DEF u
    <2>5. TokenAt(now, b) = u
      BY <2>4 DEF u
    <2>6. b + 3 <= L => now[b + 3] = words[b + 3] /\ b + 3 <= Len(now)
      BY <2>1, <1>1, <1>5
    <2>7. b + TokenWord <= Len(now)
      BY <2>1, <2>2, <1>1, <1>5
    <2>8. QED BY <2>2, <2>5, <2>6, <2>7 DEF Whole
  <1>7. Whole(now, T, {}, L)
    <2>1. TokenAt(now, L) = TokenList[now[L + TokenWord] + 1]
      BY <1>1, TokenAtWord
    <2>2. TokenAt(now, L) = "FINI"
      BY <2>1, <1>3, <1>5
    <2>3. QED BY <2>2, <1>1, <1>5 DEF Whole, Jumps
  <1>8. \A b \in T : b \in 0 .. Len(now) /\ b < Len(now)
    BY <1>1, <1>5
  <1>9. \A b \in T : Whole(now, T, {}, b)
    <2>1. \A b \in S : b < L \/ b = L
      BY <1>1
    <2>2. QED BY <2>1, <1>6, <1>7
  <1> HIDE DEF T
  <1>10. Array(now, T, T, {})
    BY <1>5, <1>8, <1>9 DEF Array
  <1>11. QED BY <1>8, <1>10 DEF T, L, now, ws

\* A turn of the loop takes p from an instruction to an instruction.
LEMMA TurnLands ==
  ASSUME NEW words, NEW S, Array(words, S, S, {}), \A b \in S : b < Len(words),
         NEW m, m.n \in S, NEW h, Lands(TokenAt(words, m.n), words, m, h)
  PROVE  h.status = "run" => h.n \in S
  <1>1. Whole(words, S, {}, m.n)
    <2>1. m.n < Len(words)
      OBVIOUS
    <2>2. QED BY <2>1 DEF Array
  <1> DEFINE n == m.n
             u == TokenAt(words, n)
  <1>2. /\ u # "FINI" => n + Width(u) \in S
        /\ u \in Jumps => n + (words[n + 3] + 3) \in S
    BY <1>1 DEF Whole
  <1>3. h.status = "run" =>
          /\ u # "FINI"
          /\ h.n = n \/ h.n = n + Width(u) \/ (u \in Jumps /\ h.n = n + (words[n + 3] + 3))
    BY DEF Lands
  <1>4. n \in S
    OBVIOUS
  <1> HIDE DEF n, u
  <1>5. QED BY <1>2, <1>3, <1>4

(***************************************************************************)
(* The closing brackets that are waited for: those the conversion has      *)
(* still to come to and whose opening brackets it has passed.              *)
(***************************************************************************)
InOrder(t, r) == BracketsPaired(t) /\ Places(t, r) /\ NestedBy(t, r)

Ahead(t, r, n, x) == n # Null /\ Live(t, x) /\ r[n] <= r[x]

Waiting(t, r, n) ==
  {x \in NodeId : /\ t.node[x].type \in Closers /\ Ahead(t, r, n, x)
                  /\ ~Ahead(t, r, n, t.node[x].jmp)}

\* Where the opening brackets of those are in the array.
Pending(t, r, n) == {t.node[x].count - 2 : x \in Waiting(t, r, n)}

\* Ahead of the node behind v is what comes after v.
LEMMA MovingOn ==
  ASSUME NEW t \in Tree, NEW r, InOrder(t, r), NEW v \in NodeId, Live(t, v)
  PROVE  /\ t.next[v] \in Link /\ (t.next[v] = Null \/ Live(t, t.next[v]))
         /\ \A x \in NodeId : Ahead(t, r, t.next[v], x) <=> Live(t, x) /\ r[v] < r[x]
  <1> DEFINE u == t.next[v]
  <1>1. u \in Link /\ v \in Link
    BY DEF Tree
  <1>2. \A x \in NodeId : r[x] \in Int
    BY DEF InOrder, Places
  <1>3. /\ u # Null => Live(t, u) /\ u \in NodeId /\ r[u] = r[v] + 1
        /\ u = Null => \A y \in NodeId : Live(t, y) => r[y] <= r[v]
    BY <1>1 DEF InOrder, Places
  <1> HIDE DEF u
  <1>4. \A x \in NodeId : Ahead(t, r, u, x) <=> Live(t, x) /\ r[v] < r[x]
    <2>1. CASE u = Null
      BY <2>1, <1>2, <1>3 DEF Ahead
    <2>2. CASE u # Null
      BY <2>2, <1>2, <1>3 DEF Ahead
    <2>3. QED BY <2>1, <2>2
  <1>5. QED BY <1>1, <1>3, <1>4 DEF u

\* A closing bracket, its partner and their positions.
LEMMA Partners ==
  ASSUME NEW t \in Tree, NEW r, InOrder(t, r), NEW x \in NodeId
  PROVE  /\ t.node[x].type \in Closers =>
              /\ t.node[x].jmp \in NodeId /\ t.node[t.node[x].jmp].type \in Openers
              /\ t.node[t.node[x].jmp].jmp = x /\ r[t.node[x].jmp] < r[x]
         /\ t.node[x].type \in Openers =>
              /\ t.node[x].jmp \in NodeId /\ t.node[t.node[x].jmp].type \in Closers
              /\ t.node[t.node[x].jmp].jmp = x /\ r[x] < r[t.node[x].jmp]
         /\ t.node[x].type \in Bracket => Live(t, x)
         /\ r[x] \in Int
  <1>1. /\ t.node[x].type \in Closers => t.node[x].type \in Bracket
        /\ t.node[x].type \in Openers => t.node[x].type \in Bracket
        /\ t.node[x].type \in Bracket => t.node[x].type # "FREE"
    BY DEF Bracket, Openers, Closers
  <1>2. t.node[x].type \in Bracket =>
          /\ t.node[x].jmp \in NodeId /\ t.node[t.node[x].jmp].jmp = x
          /\ t.node[x].type \in Openers => t.node[t.node[x].jmp].type \in Closers
          /\ t.node[x].type \in Closers => t.node[t.node[x].jmp].type \in Openers
    BY DEF InOrder, BracketsPaired
  <1>3. \A y \in NodeId : t.node[y].type \in Openers => r[y] < r[t.node[y].jmp]
    BY DEF InOrder, NestedBy
  <1>4. r[x] \in Int
    BY DEF InOrder, Places
  <1>5. QED BY <1>1, <1>2, <1>3, <1>4 DEF Live

\* Past a node that is no bracket, past an opening one and past a closing one.
LEMMA PastNode ==
  ASSUME NEW t \in Tree, NEW r, InOrder(t, r), NEW v \in NodeId, Live(t, v)
  PROVE  LET old == Waiting(t, r, v)
             new == Waiting(t, r, t.next[v])
         IN  /\ t.node[v].type \notin Bracket => new = old
             /\ t.node[v].type \in Openers => new = old \cup {t.node[v].jmp}
             /\ t.node[v].type \in Closers => v \in old /\ new = old \ {v}
  <1> DEFINE old == Waiting(t, r, v)
             new == Waiting(t, r, t.next[v])
  <1>1. \A x \in NodeId : Ahead(t, r, t.next[v], x) <=> Live(t, x) /\ r[v] < r[x]
    BY MovingOn
  <1>2. \A x \in NodeId : Ahead(t, r, v, x) <=> Live(t, x) /\ r[v] <= r[x]
    BY Ids DEF Ahead
  <1>3. \A x \in NodeId : Live(t, x) /\ r[v] = r[x] => x = v
    BY DEF InOrder, Places
  <1>4. \A x \in NodeId : r[x] \in Int
    BY DEF InOrder, Places
  <1>5. \A x \in NodeId : Ahead(t, r, t.next[v], x) <=> Ahead(t, r, v, x) /\ x # v
    BY <1>1, <1>2, <1>3, <1>4
  <1>6. Ahead(t, r, v, v)
    BY <1>2, <1>4
  <1>7. \A x \in NodeId : t.node[x].type \in Closers =>
          /\ t.node[x].jmp \in NodeId /\ t.node[t.node[x].jmp].type \in Openers
          /\ t.node[t.node[x].jmp].jmp = x /\ r[t.node[x].jmp] < r[x]
    BY Partners
  <1>8. /\ \A x \in NodeId : t.node[x].type \in Closers =>
              /\ x \in old <=> Ahead(t, r, v, x) /\ ~Ahead(t, r, v, t.node[x].jmp)
              /\ x \in new <=> /\ Ahead(t, r, v, x) /\ x # v
                              /\ ~(Ahead(t, r, v, t.node[x].jmp) /\ t.node[x].jmp # v)
        /\ \A x : (x \in old \/ x \in new) => x \in NodeId /\ t.node[x].type \in Closers
    <2>1. ASSUME NEW x \in NodeId, t.node[x].type \in Closers
          PROVE  /\ x \in old <=> Ahead(t, r, v, x) /\ ~Ahead(t, r, v, t.node[x].jmp)
                 /\ x \in new <=> /\ Ahead(t, r, t.next[v], x)
                                 /\ ~Ahead(t, r, t.next[v], t.node[x].jmp)
      BY <2>1 DEF Waiting
    <2>2. \A x : (x \in old \/ x \in new) => x \in NodeId /\ t.node[x].type \in Closers
      BY DEF Waiting
    <2> HIDE DEF old, new
    <2>3. QED BY <2>1, <2>2, <1>5, <1>7
  <1>9. Openers \cap Closers = {} /\ Bracket = Openers \cup Closers
    BY DEF Openers, Closers, Bracket
  <1> HIDE DEF old, new
  <1>10. ASSUME t.node[v].type \notin Bracket PROVE new = old
    <2>1. \A x \in NodeId : t.node[x].type \in Closers => x # v /\ t.node[x].jmp # v
      BY <1>7, <1>9, <1>10
    <2>2. \A x \in NodeId : t.node[x].type \in Closers => (x \in new <=> x \in old)
      BY <2>1, <1>8
    <2>3. \A x : x \in new <=> x \in old
      BY <2>2, <1>8
    <2>4. QED BY <2>3 DEF old, new, Waiting
  <1>11. ASSUME t.node[v].type \in Openers PROVE new = old \cup {t.node[v].jmp}
    <2> DEFINE y == t.node[v].jmp
    <2>1. y \in NodeId /\ t.node[y].type \in Closers /\ t.node[y].jmp = v /\ r[v] < r[y]
          /\ Live(t, y)
      BY <1>11, <1>9, Partners
    <2>2. \A x \in NodeId : t.node[x].type \in Closers => x # v /\ (t.node[x].jmp = v => x = y)
      BY <1>7, <1>9, <1>11
    <2>3. Ahead(t, r, v, y) /\ y # v
      BY <2>1, <1>2, <1>4
    <2> HIDE DEF y
    <2>4. \A x \in NodeId : t.node[x].type \in Closers => (x \in new <=> x \in old \/ x = y)
      BY <2>1, <2>2, <2>3, <1>6, <1>8
    <2>5. \A x : x \in new <=> x \in old \/ x = y
      BY <2>1, <2>4, <1>8
    <2>6. QED BY <2>5 DEF old, new, Waiting, y
  <1>12. ASSUME t.node[v].type \in Closers PROVE v \in old /\ new = old \ {v}
    <2>1. \A x \in NodeId : t.node[x].type \in Closers => t.node[x].jmp # v
      BY <1>7, <1>9, <1>12
    <2>2. ~Ahead(t, r, v, t.node[v].jmp)
      BY <1>2, <1>4, <1>7, <1>12
    <2>3. v \in old
      BY <2>2, <1>6, <1>8, <1>12
    <2>4. \A x \in NodeId : t.node[x].type \in Closers => (x \in new <=> x \in old /\ x # v)
      BY <2>1, <1>8
    <2>5. \A x : x \in new <=> x \in old /\ x # v
      BY <2>4, <1>8
    <2>6. QED BY <2>3, <2>5 DEF old, new, Waiting
  <1>13. QED BY <1>10, <1>11, <1>12 DEF old, new

\* Past a whole loop.
LEMMA PastLoop ==
  ASSUME NEW t \in Tree, NEW r, InOrder(t, r), NEW v \in NodeId, t.node[v].type \in Openers
  PROVE  Waiting(t, r, t.next[t.node[v].jmp]) = Waiting(t, r, v)
  <1> DEFINE old == Waiting(t, r, v)
             e   == t.node[v].jmp
             new == Waiting(t, r, t.next[e])
  <1>1. /\ e \in NodeId /\ t.node[e].type \in Closers /\ t.node[e].jmp = v /\ r[v] < r[e]
        /\ Live(t, e) /\ Live(t, v)
    BY Partners DEF Bracket
  <1>2. \A x \in NodeId : Ahead(t, r, t.next[e], x) <=> Live(t, x) /\ r[e] < r[x]
    BY <1>1, MovingOn
  <1>3. \A x \in NodeId : Ahead(t, r, v, x) <=> Live(t, x) /\ r[v] <= r[x]
    BY Ids DEF Ahead
  <1>4. \A x \in NodeId : r[x] \in Int /\ \A y \in NodeId : Live(t, x) /\ Live(t, y) /\ r[x] = r[y] => x = y
    BY DEF InOrder, Places
  <1>5. Openers \cap Closers = {}
    BY DEF Openers, Closers
  <1>6. \A x, y \in NodeId : t.node[x].type \in Openers /\ t.node[y].type \in Openers
                              /\ r[x] < r[y] /\ r[y] < r[t.node[x].jmp]
          => r[t.node[y].jmp] < r[t.node[x].jmp]
    BY DEF InOrder, NestedBy, Inside
  <1> HIDE DEF e
  <1>7. ASSUME NEW x \in NodeId, t.node[x].type \in Closers
        PROVE  x \in old <=> x \in new
    <2> DEFINE y == t.node[x].jmp
    <2>1. /\ y \in NodeId /\ t.node[y].type \in Openers /\ t.node[y].jmp = x /\ r[y] < r[x]
          /\ Live(t, x) /\ Live(t, y)
      BY <1>7, Partners DEF Bracket
    <2>2. /\ x \in old <=> Ahead(t, r, v, x) /\ ~Ahead(t, r, v, y)
          /\ x \in new <=> Ahead(t, r, t.next[e], x) /\ ~Ahead(t, r, t.next[e], y)
      BY <1>7 DEF Waiting
    <2> HIDE DEF y, old, new
    <2>3. /\ x \in old <=> r[v] <= r[x] /\ ~(r[v] <= r[y])
          /\ x \in new <=> r[e] < r[x] /\ ~(r[e] < r[y])
      BY <2>1, <2>2, <1>2, <1>3
    <2>4. r[x] \in Int /\ r[y] \in Int /\ r[v] \in Int /\ r[e] \in Int
      BY <2>1, <1>1, <1>4
    <2>5. ASSUME r[v] <= r[x], r[y] < r[v] PROVE r[e] < r[x]
      <3>1. x # v
        BY <1>5, <1>7
      <3>2. r[v] < r[x]
        BY <2>1, <2>4, <2>5, <3>1, <1>1, <1>4
      <3>3. QED BY <2>1, <2>5, <3>2, <1>1, <1>6 DEF e
    <2>6. ASSUME r[e] < r[x], ~(r[e] < r[y]) PROVE r[y] < r[v]
      <3>1. y # e
        BY <2>1, <1>1, <1>5
      <3>2. r[y] < r[e]
        BY <2>1, <2>4, <2>6, <3>1, <1>1, <1>4
      <3>3. y # v
        BY <2>1, <2>4, <2>6, <1>1 DEF e
      <3>4. ASSUME r[v] < r[y] PROVE FALSE
        <4>1. r[x] < r[e]
          BY <2>1, <3>2, <3>4, <1>1, <1>6 DEF e
        <4>2. QED BY <4>1, <2>4, <2>6
      <3>5. r[v] # r[y]
        BY <2>1, <3>3, <1>1, <1>4
      <3>6. QED BY <3>4, <3>5, <2>4
    <2>7. QED BY <2>3, <2>4, <2>5, <2>6, <1>1
  <1>8. \A x : (x \in old \/ x \in new) => x \in NodeId /\ t.node[x].type \in Closers
    BY DEF Waiting
  <1>9. \A x : x \in old <=> x \in new
    BY <1>7, <1>8
  <1>10. QED BY <1>9 DEF Waiting, e

(***************************************************************************)
(* What the conversion writes for a node.                                  *)
(***************************************************************************)
Typed == tree \in Tree /\ conv.n \in NodeId /\ conv.last_offset \in Int

\* The fields of the node that is converted, and what is left to move.
LEMMA NodeTyped ==
  ASSUME Typed
  PROVE  /\ NodeNow \in Node /\ NodeNow = tree.node[conv.n]
         /\ NodeNow.count \in Int /\ NodeNow.offset \in Int
         /\ NodeNow.count2 \in Int /\ NodeNow.offset2 \in Int
         /\ NodeNow.count3 \in Int /\ NodeNow.offset3 \in Int
         /\ Mov \in Int /\ OffsetAfter \in Int /\ \A off \in Int : Rel(off) \in Int
  <1>1. NodeNow \in Node /\ NodeNow = tree.node[conv.n]
    BY DEF Typed, NodeNow, Tree
  <1>2. /\ NodeNow.count \in Int /\ NodeNow.offset \in Int
        /\ NodeNow.count2 \in Int /\ NodeNow.offset2 \in Int
        /\ NodeNow.count3 \in Int /\ NodeNow.offset3 \in Int
    BY <1>1 DEF Node
  <1> HIDE DEF NodeNow
  <1>3. Mov \in Int /\ OffsetAfter \in Int
    BY <1>2 DEF Typed, Mov, OffsetAfter
  <1>4. \A off \in Int : Rel(off) \in Int
    BY <1>3 DEF Rel
  <1>5. QED BY <1>1, <1>2, <1>3, <1>4

\* A token and operands of its number are an instruction.
LEMMA InstrIs ==
  ASSUME Typed, NEW tok \in Tokens, NEW ws \in Seq(Int)
  PROVE  /\ Width(tok) = Len(ws) + 2 => Instruction(Instr(tok, ws), tok)
         /\ Len(ws) = 1 => Instr(tok, ws)[3] = ws[1]
  <1> DEFINE two == IF merge_mov THEN <<Mov, Code[tok]>> ELSE <<Code[tok], NodeNow.offset>>
             now == two \o ws
  <1>1. two \in Seq(Int) /\ Len(two) = 2 /\ two[TokenWord] = Code[tok] /\ TokenWord \in {1, 2}
    <2>1. Mov \in Int /\ NodeNow.offset \in Int /\ Code[tok] \in Int
      BY NodeTyped, Coded
    <2>2. QED BY <2>1 DEF TokenWord
  <1>2. Instr(tok, ws) = now
    BY DEF Instr
  <1> HIDE DEF two
  <1>3. /\ now \in Seq(Int) /\ Len(ws) \in Nat /\ Len(now) = 2 + Len(ws)
        /\ \A i \in 1 .. 2 : now[i] = two[i]
        /\ \A i \in 1 .. Len(ws) : now[2 + i] = ws[i]
    <2>1. /\ now \in Seq(Int) /\ Len(ws) \in Nat /\ Len(now) = Len(two) + Len(ws)
          /\ \A i \in 1 .. Len(two) : now[i] = two[i]
          /\ \A i \in 1 .. Len(ws) : now[Len(two) + i] = ws[i]
      BY <1>1, Appended
    <2> HIDE DEF now
    <2>2. QED BY <2>1, <1>1
  <1> HIDE DEF now
  <1>4. now[TokenWord] = Code[tok]
    BY <1>1, <1>3
  <1>5. Len(ws) = 1 => now[3] = ws[1]
    <2>1. Len(ws) = 1 => now[2 + 1] = ws[1]
      BY <1>3
    <2>2. QED BY <2>1
  <1>6. QED BY <1>2, <1>3, <1>4, <1>5 DEF Instruction

\* A token and as many words as its width are an instruction.
LEMMA BareIs ==
  ASSUME Typed, NEW tok \in Tokens, NEW ws \in Seq(Int), Width(tok) = Len(ws) + TokenWord
  PROVE  Instruction(Bare(tok, ws), tok)
  <1>1. CASE merge_mov
    BY <1>1, InstrIs DEF Bare, TokenWord
  <1>2. CASE ~merge_mov
    <2>1. Code[tok] \in Int /\ <<Code[tok]>> \in Seq(Int)
      BY Coded
    <2> DEFINE now == <<Code[tok]>> \o ws
    <2>2. now \in Seq(Int) /\ Len(now) = 1 + Len(ws) /\ now[1] = Code[tok] /\ Len(ws) \in Nat
      BY <2>1
    <2>3. Bare(tok, ws) = now /\ TokenWord = 1
      BY <1>2 DEF Bare, TokenWord
    <2> HIDE DEF now
    <2>4. QED BY <2>2, <2>3 DEF Instruction
  <1>3. QED BY <1>1, <1>2

\* Tokens that are written without a jump to be patched in.
Straight == Tokens \ (Openers \cup {"END", "FINI"})

Commands == (Simple \cup Calc \cup {"NOP"}) \ {"DUMP"}

CommandWords ==
  CASE NodeNow.type = "CALC" -> CalcInstr(NodeNow)
    [] NodeNow.type = "CHR"  -> Bare("CHR", <<NodeNow.count>>)
    [] NodeNow.type = "STOP" -> Bare("STOP", <<>>)
    [] NodeNow.type = "NOP"  -> IF merge_mov THEN Instr("NOP", <<>>) ELSE <<>>
    [] OTHER                 -> Instr(NodeNow.type, Operands(NodeNow))

\* A command becomes one instruction or none.
LEMMA CommandInstruction ==
  ASSUME Typed, NodeNow.type \in Commands
  PROVE  \/ CommandWords = <<>>
         \/ \E tok \in Straight : /\ Instruction(CommandWords, tok)
                                  /\ Width(tok) <= WordsFor(NodeNow.type)
  <1> DEFINE nd == NodeNow
  <1>1. /\ nd.count \in Int /\ nd.count2 \in Int /\ nd.count3 \in Int
        /\ Rel(nd.offset2) \in Int /\ Rel(nd.offset3) \in Int
    BY NodeTyped
  <1>2. /\ {"CALC", "CALC2", "CALC3", "CALC4", "CALC5", "CALCMULT", "LT", "DIV"} \subseteq Straight
        /\ {"ADD", "SET", "PRT", "PRTI", "INP", "INPI", "CHR", "STOP", "NOP"} \subseteq Straight
    BY TokensListed DEF Straight, Openers
  <1>3. /\ Width("CALC") = 7 /\ Width("CALC2") = 5 /\ Width("CALC3") = 4
        /\ Width("CALC4") = 3 /\ Width("CALC5") = 3 /\ Width("CALCMULT") = 4 /\ Width("LT") = 4
        /\ Width("ADD") = 3 /\ Width("SET") = 3
        /\ Width("CHR") = 1 + TokenWord /\ Width("STOP") = 0 + TokenWord
        /\ \A tok \in {"DIV", "PRT", "PRTI", "INP", "INPI", "NOP"} : Width(tok) = 0 + 2
    BY DEF Width, Openers, TokenWord
  <1>0. /\ WordsFor("CALC") = 7 /\ WordsFor("CALCMULT") = 4 /\ WordsFor("LT") = 4
        /\ WordsFor("ADD") = 3 /\ WordsFor("SET") = 3 /\ WordsFor("CHR") = 3
        /\ WordsFor("STOP") = 3 /\ WordsFor("NOP") = 3 /\ TokenWord \in 1 .. 2
        /\ \A tok \in {"DIV", "PRT", "PRTI", "INP", "INPI"} : 2 <= WordsFor(tok)
    BY DEF WordsFor, TokenWord
  <1> HIDE DEF nd
  <1>4. CASE nd.type = "CALC"
    <2>1. CommandWords = CalcInstr(nd)
      BY <1>4 DEF CommandWords, nd
    <2> DEFINE four == <<Rel(nd.offset2)>>
               two  == <<nd.count, Rel(nd.offset2), nd.count2>>
               five == <<Rel(nd.offset3)>>
               three == <<Rel(nd.offset3), nd.count3>>
               all  == <<nd.count, Rel(nd.offset2), nd.count2, Rel(nd.offset3), nd.count3>>
    <2>2. \/ CalcInstr(nd) = Instr("CALC4", four) \/ CalcInstr(nd) = Instr("CALC2", two)
          \/ CalcInstr(nd) = Instr("CALC5", five) \/ CalcInstr(nd) = Instr("CALC3", three)
          \/ CalcInstr(nd) = Instr("CALC", all)
      BY DEF CalcInstr
    <2>3. /\ four \in Seq(Int) /\ Len(four) = 1 /\ two \in Seq(Int) /\ Len(two) = 3
          /\ five \in Seq(Int) /\ Len(five) = 1 /\ three \in Seq(Int) /\ Len(three) = 2
          /\ all \in Seq(Int) /\ Len(all) = 5
      BY <1>1
    <2> HIDE DEF four, two, five, three, all
    <2>4. /\ "CALC4" \in Tokens /\ "CALC2" \in Tokens /\ "CALC5" \in Tokens
          /\ "CALC3" \in Tokens /\ "CALC" \in Tokens
      BY TokensListed
    <2> DEFINE Fits(tok, ws) == ws \in Seq(Int) /\ Width(tok) = Len(ws) + 2
    <2>5. /\ Fits("CALC4", four) /\ Fits("CALC2", two) /\ Fits("CALC5", five)
          /\ Fits("CALC3", three) /\ Fits("CALC", all)
      BY <2>3, <1>3
    <2>6. \A tok \in Tokens : \A ws : Fits(tok, ws) => Instruction(Instr(tok, ws), tok)
      BY InstrIs
    <2> HIDE DEF Fits
    <2>7. /\ Instruction(Instr("CALC4", four), "CALC4") /\ Instruction(Instr("CALC2", two), "CALC2")
          /\ Instruction(Instr("CALC5", five), "CALC5") /\ Instruction(Instr("CALC3", three), "CALC3")
          /\ Instruction(Instr("CALC", all), "CALC")
      BY <2>4, <2>5, <2>6
    <2>8. nd = NodeNow /\ WordsFor(nd.type) = 7
      BY <1>0, <1>4 DEF nd
    <2>9. \E tok \in Straight : /\ Instruction(CommandWords, tok)
                               /\ Width(tok) <= 7
      BY <2>1, <2>2, <2>7, <1>2, <1>3
    <2>10. QED BY <2>8, <2>9
  <1>5. CASE nd.type = "CHR"
    <2>1. CommandWords = Bare("CHR", <<nd.count>>)
      BY <1>5 DEF CommandWords, nd
    <2>2. <<nd.count>> \in Seq(Int) /\ Len(<<nd.count>>) = 1
      BY <1>1
    <2>3. Instruction(CommandWords, "CHR")
      BY <2>1, <2>2, <1>2, <1>3, BareIs DEF Straight
    <2>4. nd = NodeNow /\ Width("CHR") <= WordsFor(nd.type)
      BY <1>0, <1>3, <1>5 DEF nd
    <2>5. QED BY <2>3, <2>4, <1>2
  <1>6. CASE nd.type = "STOP"
    <2>1. CommandWords = Bare("STOP", <<>>)
      BY <1>6 DEF CommandWords, nd
    <2>2. <<>> \in Seq(Int) /\ Len(<<>>) = 0
      OBVIOUS
    <2>3. Instruction(CommandWords, "STOP")
      BY <2>1, <2>2, <1>2, <1>3, BareIs DEF Straight
    <2>4. nd = NodeNow /\ Width("STOP") <= WordsFor(nd.type)
      BY <1>0, <1>3, <1>6 DEF nd
    <2>5. QED BY <2>3, <2>4, <1>2
  <1>7. CASE nd.type = "NOP"
    <2>1. CommandWords = Instr("NOP", <<>>) \/ CommandWords = <<>>
      BY <1>7 DEF CommandWords, nd
    <2>2. <<>> \in Seq(Int) /\ Len(<<>>) = 0
      OBVIOUS
    <2>3. "NOP" \in Tokens /\ Width("NOP") = Len(<<>>) + 2
      BY <2>2, <1>3, TokensListed
    <2>4. Instruction(Instr("NOP", <<>>), "NOP")
      BY <2>2, <2>3, InstrIs
    <2>5. nd = NodeNow /\ Width("NOP") <= WordsFor(nd.type)
      BY <1>0, <1>3, <1>7 DEF nd
    <2>6. QED BY <2>1, <2>4, <2>5, <1>2
  <1>8. CASE nd.type \in {"ADD", "SET", "CALCMULT", "LT", "DIV", "PRT", "PRTI", "INP", "INPI"}
    <2> DEFINE ws == Operands(nd)
    <2>1. CommandWords = Instr(nd.type, ws)
      BY <1>8 DEF CommandWords, nd
    <2>2. ws \in Seq(Int) /\ Width(nd.type) = Len(ws) + 2
      <3>1. CASE nd.type \in {"ADD", "SET"}
        <4>1. ws = <<nd.count>>
          BY <3>1 DEF Operands
        <4>2. QED BY <4>1, <3>1, <1>1, <1>3
      <3>2. CASE nd.type \in {"CALCMULT", "LT"}
        <4>1. ws = <<Rel(nd.offset2), Rel(nd.offset3)>>
          BY <3>2 DEF Operands
        <4>2. QED BY <4>1, <3>2, <1>1, <1>3
      <3>3. CASE nd.type \in {"DIV", "PRT", "PRTI", "INP", "INPI"}
        <4>1. ws = <<>>
          BY <3>3 DEF Operands
        <4>2. QED BY <4>1, <3>3, <1>3
      <3>4. QED BY <3>1, <3>2, <3>3, <1>8
    <2> HIDE DEF ws
    <2>3. nd.type \in Straight /\ nd.type \in Tokens
      BY <1>8, <1>2 DEF Straight
    <2>4. Instruction(Instr(nd.type, ws), nd.type)
      BY <2>2, <2>3, InstrIs
    <2>5. nd = NodeNow /\ Width(nd.type) <= WordsFor(nd.type)
      BY <1>0, <1>3, <1>8 DEF nd
    <2>6. QED BY <2>1, <2>3, <2>4, <2>5
  <1>9. QED BY <1>4, <1>5, <1>6, <1>7, <1>8 DEF nd, Commands, Simple, Calc

\* Inside a loop there is a next node.
LEMMA NextInside ==
  ASSUME NEW t \in Tree, NEW r, InOrder(t, r), NEW v \in NodeId, NEW e \in NodeId,
         Live(t, v), Live(t, e), r[v] < r[e]
  PROVE  /\ t.next[v] \in NodeId /\ Live(t, t.next[v])
         /\ t.next[v] # e => r[t.next[v]] < r[e]
  <1>1. t.next[v] # Null
    BY DEF InOrder, Places
  <1>2. Live(t, t.next[v]) /\ r[t.next[v]] = r[v] + 1 /\ t.next[v] \in NodeId
    BY <1>1 DEF InOrder, Places, Live
  <1>3. r[v] \in Int /\ r[e] \in Int
    BY Partners
  <1>4. t.next[v] # e => r[t.next[v]] # r[e]
    BY <1>2 DEF InOrder, Places
  <1>5. QED BY <1>2, <1>3, <1>4

RailWords ==
  CASE IsZfind -> Instr("ZFIND", <<Body(1).count>>)
    [] IsAddwz -> Instr("ADDWZ", <<Rel(Body(1).offset), Body(1).count, Body(2).count>>)
    [] OTHER   -> Instr("MFIND", <<Body(3).count>>)

\* A rail becomes one instruction of at most five words.
LEMMA RailInstruction ==
  ASSUME Typed, NEW r, InOrder(tree, r), NodeNow.type \in LoopOpeners, IsRail
  PROVE  \E tok \in Straight : Instruction(RailWords, tok) /\ Width(tok) <= 5
  <1> DEFINE e == NodeNow.jmp
             one == tree.next[conv.n]
             two == tree.next[one]
             three == tree.next[two]
  <1>1. /\ tree \in Tree /\ conv.n \in NodeId /\ Live(tree, conv.n)
        /\ e \in NodeId /\ Live(tree, e) /\ r[conv.n] < r[e] /\ tree.node[e].type \in Closers
    <2>1. tree.node[conv.n].type \in Openers /\ NodeNow = tree.node[conv.n]
      BY NodeTyped DEF LoopOpeners
    <2>2. tree \in Tree /\ conv.n \in NodeId
      BY DEF Typed
    <2>3. /\ tree.node[conv.n].jmp \in NodeId /\ tree.node[tree.node[conv.n].jmp].type \in Closers
          /\ r[conv.n] < r[tree.node[conv.n].jmp] /\ Live(tree, conv.n)
      BY <2>1, <2>2, Partners DEF Bracket
    <2>4. Live(tree, tree.node[conv.n].jmp)
      BY <2>2, <2>3, Partners DEF Bracket
    <2>5. QED BY <2>1, <2>2, <2>3, <2>4
  <1> HIDE DEF e
  <1>2. one \in NodeId /\ Live(tree, one) /\ (one # e => r[one] < r[e])
    BY <1>1, NextInside
  <1>3. one # e => two \in NodeId /\ Live(tree, two) /\ (two # e => r[two] < r[e])
    <2> HIDE DEF one
    <2>1. QED BY <1>1, <1>2, NextInside
  <1>4. one # e /\ two # e => three \in NodeId
    <2> HIDE DEF one, two
    <2>1. QED BY <1>1, <1>2, <1>3, NextInside
  <1>5. Body(1) = tree.node[one]
    BY DEF Body
  <1>6. one # e => Body(2) = tree.node[two]
    <2>1. one # Null
      BY <1>2
    <2>2. QED BY <2>1 DEF Body
  <1>7. one # e /\ two # e => Body(3) = tree.node[three]
    <2>1. one # Null /\ (one # e => two # Null)
      BY <1>2, <1>3
    <2>2. QED BY <2>1 DEF Body
  <1> HIDE DEF one, two, three
  <1>8. \A x \in NodeId : tree.node[x] \in Node
    BY <1>1 DEF Tree
  <1>9. \A x \in NodeId : tree.node[x].type \in {"MOV", "ADD"} => x # e
    BY <1>1 DEF Closers
  <1>10. \A x \in NodeId : tree.node[x].count \in Int /\ tree.node[x].offset \in Int
    <2>1. \A nd \in Node : nd.count \in Int /\ nd.offset \in Int
      BY DEF Node
    <2>2. QED BY <2>1, <1>8
  <1>11. Body(1).count \in Int /\ Body(1).offset \in Int
    BY <1>2, <1>5, <1>10
  <1> DEFINE Fits(tok, ws) == ws \in Seq(Int) /\ Width(tok) = Len(ws) + 2
  <1>12. \A tok \in Tokens : \A ws : Fits(tok, ws) => Instruction(Instr(tok, ws), tok)
    BY InstrIs
  <1>13. /\ "ZFIND" \in Straight /\ "ADDWZ" \in Straight /\ "MFIND" \in Straight
         /\ "ZFIND" \in Tokens /\ "ADDWZ" \in Tokens /\ "MFIND" \in Tokens
    BY TokensListed DEF Straight, Openers
  <1>14. Width("ZFIND") = 3 /\ Width("ADDWZ") = 5 /\ Width("MFIND") = 3
    BY DEF Width, Openers
  <1>15. CASE IsZfind
    <2>1. Fits("ZFIND", <<Body(1).count>>)
      BY <1>11, <1>14
    <2> HIDE DEF Fits
    <2>2. Instruction(Instr("ZFIND", <<Body(1).count>>), "ZFIND")
      BY <2>1, <1>12, <1>13
    <2>3. ~IsAddwz
      <3> DEFINE toks == <<"ADD", "MOV", "END">>
      <3>1. toks[1] = "ADD" /\ 1 \in DOMAIN toks
        OBVIOUS
      <3> HIDE DEF toks
      <3>2. (\A k \in DOMAIN toks : Body(k).type = toks[k]) => Body(1).type = "ADD"
        BY <3>1
      <3>3. QED BY <3>2, <1>15 DEF IsZfind, IsAddwz, Types, toks
    <2>4. RailWords = Instr("ZFIND", <<Body(1).count>>)
      BY <1>15, <2>3 DEF RailWords
    <2>5. QED BY <2>2, <2>4, <1>13, <1>14
  <1>16. CASE ~IsZfind /\ IsAddwz
    <2>1. Body(1).type = "ADD"
      <3>1. <<"ADD", "MOV", "END">>[1] = "ADD" /\ 1 \in DOMAIN <<"ADD", "MOV", "END">>
        OBVIOUS
      <3>2. QED BY <3>1, <1>16 DEF IsAddwz, Types
    <2>2. one # e
      BY <2>1, <1>2, <1>5, <1>9
    <2>3. Body(2).count \in Int
      BY <2>2, <1>3, <1>6, <1>10
    <2>4. Rel(Body(1).offset) \in Int
      BY <1>11, NodeTyped
    <2> DEFINE ws == <<Rel(Body(1).offset), Body(1).count, Body(2).count>>
    <2>5. Fits("ADDWZ", ws)
      BY <2>3, <2>4, <1>11, <1>14
    <2>6. RailWords = Instr("ADDWZ", ws)
      BY <1>16 DEF RailWords
    <2> HIDE DEF Fits, ws
    <2>7. Instruction(Instr("ADDWZ", ws), "ADDWZ")
      BY <2>5, <1>12, <1>13
    <2>8. QED BY <2>6, <2>7, <1>13, <1>14
  <1>17. CASE ~IsZfind /\ ~IsAddwz
    <2>1. Body(1).type = "ADD" /\ Body(2).type = "ADD"
      <3> DEFINE toks == <<"ADD", "ADD", "MOV", "END">>
      <3>1. toks[1] = "ADD" /\ toks[2] = "ADD" /\ 1 \in DOMAIN toks /\ 2 \in DOMAIN toks
        OBVIOUS
      <3>2. \A k \in DOMAIN toks : Body(k).type = toks[k]
        BY <1>17 DEF IsRail, IsMfind, Types
      <3> HIDE DEF toks
      <3>3. QED BY <3>1, <3>2
    <2>2. one # e
      BY <2>1, <1>2, <1>5, <1>9
    <2>3. two # e
      BY <2>1, <2>2, <1>3, <1>6, <1>9
    <2>4. Body(3).count \in Int
      BY <2>2, <2>3, <1>4, <1>7, <1>10
    <2>5. Fits("MFIND", <<Body(3).count>>)
      BY <2>4, <1>14
    <2>6. RailWords = Instr("MFIND", <<Body(3).count>>)
      BY <1>17 DEF RailWords
    <2> HIDE DEF Fits
    <2>7. Instruction(Instr("MFIND", <<Body(3).count>>), "MFIND")
      BY <2>5, <1>12, <1>13
    <2>8. QED BY <2>6, <2>7, <1>13, <1>14
  <1>18. QED BY <1>15, <1>16, <1>17

(***************************************************************************)
(* The size of the array: what the first loop of the conversion counts for *)
(* the nodes of a set A.                                                   *)
(***************************************************************************)
Counted(t, A, x) == IF x \in A /\ Live(t, x) THEN WordsFor(t.node[x].type) ELSE 0

IsSum(f, t, A, k) ==
  f = [x \in 0 .. k |-> IF x = 0 THEN 0 ELSE f[x - 1] + Counted(t, A, x)]

Sums(t, A, s) == \E f : IsSum(f, t, A, MaxNode) /\ s = f[MaxNode]

\* A node counts for some number of words,
LEMMA WordsNat ==
  ASSUME NEW tok
  PROVE  WordsFor(tok) \in Nat
  BY DEF WordsFor

\* also when it is left out.
LEMMA CountedNat ==
  ASSUME NEW t, NEW A, NEW x
  PROVE  Counted(t, A, x) \in Nat
  BY WordsNat DEF Counted

\* There is a sum.
LEMMA SumExists ==
  ASSUME NEW t, NEW A
  PROVE  \E f : IsSum(f, t, A, MaxNode)
  <1> DEFINE T == {k \in Nat : \E f : IsSum(f, t, A, k)}
  <1>1. 0 \in T
    <2>1. IsSum([x \in 0 .. 0 |-> 0], t, A, 0)
      BY DEF IsSum
    <2>2. QED BY <2>1
  <1>2. ASSUME NEW k \in Nat, k \in T PROVE k + 1 \in T
    <2>1. PICK f : IsSum(f, t, A, k)
      BY <1>2
    <2> DEFINE g == [x \in 0 .. k + 1 |-> IF x = k + 1 THEN f[k] + Counted(t, A, x) ELSE f[x]]
    <2>2. \A x \in 0 .. k : g[x] = f[x] /\ f[x] = IF x = 0 THEN 0 ELSE f[x - 1] + Counted(t, A, x)
      BY <2>1 DEF IsSum
    <2>3. g[k + 1] = g[k] + Counted(t, A, k + 1)
      BY <2>2
    <2>4. ASSUME NEW x \in 0 .. k + 1
          PROVE  g[x] = IF x = 0 THEN 0 ELSE g[x - 1] + Counted(t, A, x)
      <3> HIDE DEF g
      <3>1. CASE x = k + 1
        BY <3>1, <2>3
      <3>2. CASE x # k + 1
        <4>1. x \in 0 .. k /\ (x # 0 => x - 1 \in 0 .. k)
          BY <3>2
        <4>2. QED BY <4>1, <2>2
      <3>3. QED BY <3>1, <3>2
    <2> HIDE DEF g
    <2>5. g = [x \in 0 .. k + 1 |-> IF x = 0 THEN 0 ELSE g[x - 1] + Counted(t, A, x)]
      <3>1. g = [x \in 0 .. k + 1 |-> g[x]]
        BY DEF g
      <3>2. QED BY <3>1, <2>4
    <2>6. QED BY <2>5 DEF IsSum
  <1> HIDE DEF T
  <1>3. MaxNode \in T
    BY <1>1, <1>2, Induction
  <1>4. QED BY <1>3 DEF T

\* The more nodes, the greater the sum.
LEMMA SumGrows ==
  ASSUME NEW t, NEW A, NEW f, IsSum(f, t, A, MaxNode),
         NEW B, NEW g, IsSum(g, t, B, MaxNode), \A x \in NodeId : x \in B => x \in A
  PROVE  f[MaxNode] \in Nat /\ g[MaxNode] \in Nat /\ g[MaxNode] <= f[MaxNode]
  <1> DEFINE Fine(k) == f[k] \in Nat /\ g[k] \in Nat /\ g[k] <= f[k]
             T == {k \in Nat : k <= MaxNode => Fine(k)}
  <1>1. f[0] = 0 /\ g[0] = 0
    BY DEF IsSum
  <1>2. ASSUME NEW k \in Nat, k \in T PROVE k + 1 \in T
    <2>1. SUFFICES ASSUME k + 1 <= MaxNode PROVE Fine(k + 1)
      OBVIOUS
    <2>2. k + 1 \in NodeId /\ Fine(k)
      BY <1>2, <2>1
    <2>3. /\ f[k + 1] = f[(k + 1) - 1] + Counted(t, A, k + 1)
          /\ g[k + 1] = g[(k + 1) - 1] + Counted(t, B, k + 1)
      BY <2>1 DEF IsSum
    <2>4. (k + 1) - 1 = k
      OBVIOUS
    <2>5. Counted(t, A, k + 1) \in Nat /\ Counted(t, B, k + 1) \in Nat
      BY CountedNat
    <2>6. Counted(t, B, k + 1) <= Counted(t, A, k + 1)
      <3>1. CASE k + 1 \in B
        <4>1. Counted(t, B, k + 1) = Counted(t, A, k + 1)
          BY <2>2, <3>1 DEF Counted
        <4>2. QED BY <4>1, <2>5
      <3>2. CASE k + 1 \notin B
        <4>1. Counted(t, B, k + 1) = 0
          BY <3>2 DEF Counted
        <4>2. QED BY <4>1, <2>5
      <3>3. QED BY <3>1, <3>2
    <2>7. QED BY <2>2, <2>3, <2>4, <2>5, <2>6
  <1>3. 0 \in T
    BY <1>1
  <1> HIDE DEF T
  <1>4. MaxNode \in T
    BY <1>2, <1>3, Induction
  <1>5. QED BY <1>4 DEF T

\* Fewer nodes count for fewer words.
LEMMA SumFewer ==
  ASSUME NEW t, NEW A, NEW s, Sums(t, A, s), NEW B, \A x \in NodeId : x \in B => x \in A
  PROVE  s \in Nat /\ \E u \in Nat : Sums(t, B, u) /\ u <= s
  <1>1. PICK f : IsSum(f, t, A, MaxNode) /\ s = f[MaxNode]
    BY DEF Sums
  <1>2. PICK g : IsSum(g, t, B, MaxNode)
    BY SumExists
  <1>3. f[MaxNode] \in Nat /\ g[MaxNode] \in Nat /\ g[MaxNode] <= f[MaxNode]
    BY <1>1, <1>2, SumGrows
  <1>4. QED BY <1>1, <1>2, <1>3 DEF Sums

\* A node is taken out.
LEMMA SumTaken ==
  ASSUME NEW t, NEW A, NEW s, Sums(t, A, s), NEW v \in NodeId, v \in A, Live(t, v)
  PROVE  Sums(t, A \ {v}, s - WordsFor(t.node[v].type))
  <1>1. PICK f : IsSum(f, t, A, MaxNode) /\ s = f[MaxNode]
    BY DEF Sums
  <1> DEFINE w == WordsFor(t.node[v].type)
             g == [x \in 0 .. MaxNode |-> IF x < v THEN f[x] ELSE f[x] - w]
  <1>2. w \in Nat
    BY WordsNat
  <1>3. Counted(t, A, v) = w /\ Counted(t, A \ {v}, v) = 0
    BY DEF Counted
  <1>4. \A x \in NodeId : x # v => Counted(t, A \ {v}, x) = Counted(t, A, x)
    BY DEF Counted
  <1>5. f[0] = 0 /\ \A x \in NodeId : f[x] = f[x - 1] + Counted(t, A, x)
    BY <1>1 DEF IsSum
  <1>6. \A k \in 0 .. MaxNode : f[k] \in Nat
    <2> DEFINE T == {k \in Nat : k <= MaxNode => f[k] \in Nat}
    <2>1. 0 \in T
      BY <1>5
    <2>2. ASSUME NEW k \in Nat, k \in T PROVE k + 1 \in T
      <3>1. SUFFICES ASSUME k + 1 <= MaxNode PROVE f[k + 1] \in Nat
        OBVIOUS
      <3>2. k + 1 \in NodeId /\ f[k] \in Nat /\ (k + 1) - 1 = k
        BY <2>2, <3>1
      <3>3. f[k + 1] = f[k] + Counted(t, A, k + 1)
        BY <1>5, <3>2
      <3>4. QED BY <3>2, <3>3, CountedNat
    <2> HIDE DEF T
    <2>3. Nat \subseteq T
      BY <2>1, <2>2, Induction
    <2>4. QED BY <2>3 DEF T
  <1> HIDE DEF w
  <1>7. ASSUME NEW x \in 0 .. MaxNode
        PROVE  g[x] = IF x = 0 THEN 0 ELSE g[x - 1] + Counted(t, A \ {v}, x)
    <2>1. CASE x = 0
      BY <2>1, <1>5
    <2>2. CASE x # 0
      <3>1. x \in NodeId /\ x - 1 \in 0 .. MaxNode
        BY <2>2
      <3>2. f[x] = f[x - 1] + Counted(t, A, x) /\ f[x] \in Nat /\ f[x - 1] \in Nat
        BY <3>1, <1>5, <1>6
      <3>3. CASE x < v
        <4>1. g[x] = f[x] /\ g[x - 1] = f[x - 1] /\ x # v
          BY <3>1, <3>3
        <4>2. QED BY <4>1, <3>1, <3>2, <1>4, <2>2
      <3>4. CASE x = v
        <4>1. g[x] = f[x] - w /\ g[x - 1] = f[x - 1]
          BY <3>1, <3>4
        <4>2. f[x] - w = f[x - 1] + 0
          BY <3>2, <3>4, <1>2, <1>3
        <4>3. QED BY <4>1, <4>2, <3>4, <1>3, <2>2
      <3>5. CASE v < x
        <4>1. g[x] = f[x] - w /\ g[x - 1] = f[x - 1] - w /\ x # v
          BY <3>1, <3>5
        <4>2. Counted(t, A, x) \in Nat
          BY CountedNat
        <4>3. f[x] - w = (f[x - 1] - w) + Counted(t, A, x)
          BY <3>2, <4>2, <1>2
        <4>4. QED BY <4>1, <4>3, <3>1, <1>4, <2>2
      <3>6. QED BY <3>1, <3>3, <3>4, <3>5
    <2>3. QED BY <2>1, <2>2
  <1>8. g[MaxNode] = s - w /\ g = [x \in 0 .. MaxNode |-> g[x]]
    BY <1>1
  <1> HIDE DEF g
  <1>9. IsSum(g, t, A \ {v}, MaxNode)
    BY <1>7, <1>8 DEF IsSum
  <1>10. QED BY <1>8, <1>9 DEF Sums, w

\* Only what a node is matters.
Alike(t, u) == \A x \in NodeId : u.node[x].type = t.node[x].type

\* The words counted depend on the tokens alone,
LEMMA SumKept ==
  ASSUME NEW t, NEW u, Alike(t, u), NEW A, NEW s, Sums(t, A, s)
  PROVE  Sums(u, A, s)
  <1>1. PICK f : IsSum(f, t, A, MaxNode) /\ s = f[MaxNode]
    BY DEF Sums
  <1>2. \A x \in NodeId : Counted(u, A, x) = Counted(t, A, x)
    BY DEF Alike, Counted, Live
  <1>3. \A x \in 0 .. MaxNode : f[x] = IF x = 0 THEN 0 ELSE f[x - 1] + Counted(t, A, x)
    BY <1>1 DEF IsSum
  <1>4. \A x \in 0 .. MaxNode : f[x] = IF x = 0 THEN 0 ELSE f[x - 1] + Counted(u, A, x)
    <2>1. \A x \in 0 .. MaxNode : x = 0 \/ x \in NodeId
      OBVIOUS
    <2>2. QED BY <2>1, <1>2, <1>3
  <1>5. f = [x \in 0 .. MaxNode |-> f[x]]
    BY <1>1 DEF IsSum
  <1>6. IsSum(f, u, A, MaxNode)
    BY <1>4, <1>5 DEF IsSum
  <1>7. QED BY <1>1, <1>6 DEF Sums

\* arraylen is the sum for all nodes.
LEMMA ArraylenSum ==
  ASSUME NEW t
  PROVE  Sums(t, NodeId, arraylen(t)) /\ arraylen(t) \in Nat
  <1> DEFINE Is(f) == f = [x \in 0 .. MaxNode |->
                             IF x = 0 THEN 0
                             ELSE f[x - 1] + (IF Live(t, x) THEN WordsFor(t.node[x].type) ELSE 0)]
             it == CHOOSE f : Is(f)
  <1>1. arraylen(t) = it[MaxNode]
    BY DEF arraylen
  <1>2. \A x \in NodeId : Counted(t, NodeId, x) = IF Live(t, x) THEN WordsFor(t.node[x].type) ELSE 0
    BY DEF Counted
  <1>3. \A f : Is(f) <=> IsSum(f, t, NodeId, MaxNode)
    <2> TAKE f
    <2>1. \A x \in 0 .. MaxNode : x = 0 \/ x \in NodeId
      OBVIOUS
    <2>2. [x \in 0 .. MaxNode |-> IF x = 0 THEN 0
              ELSE f[x - 1] + (IF Live(t, x) THEN WordsFor(t.node[x].type) ELSE 0)]
          = [x \in 0 .. MaxNode |-> IF x = 0 THEN 0 ELSE f[x - 1] + Counted(t, NodeId, x)]
      BY <2>1, <1>2
    <2>3. QED BY <2>2 DEF IsSum
  <1> HIDE DEF Is
  <1>4. \E f : Is(f)
    BY <1>3, SumExists
  <1>5. Is(it)
    BY <1>4
  <1> HIDE DEF it
  <1>6. Sums(t, NodeId, arraylen(t))
    BY <1>1, <1>3, <1>5 DEF Sums
  <1>7. QED BY <1>6, SumFewer

\* The nodes that are still to be converted.
Rest(t, r, n) == {x \in NodeId : Ahead(t, r, n, x)}

\* Past a node less is left, by what is counted for it; past a loop, also by what
\* is counted for its end.
LEMMA RestShrinks ==
  ASSUME NEW t \in Tree, NEW r, InOrder(t, r), NEW v \in NodeId, Live(t, v),
         NEW s, Sums(t, Rest(t, r, v), s)
  PROVE  /\ \E u \in Nat : /\ Sums(t, Rest(t, r, t.next[v]), u)
                           /\ u + WordsFor(t.node[v].type) <= s
         /\ \A e \in NodeId : Live(t, e) /\ r[v] < r[e] =>
              \E u \in Nat : /\ Sums(t, Rest(t, r, t.next[e]), u)
                             /\ u + WordsFor(t.node[v].type) + WordsFor(t.node[e].type) <= s
  <1> DEFINE A == Rest(t, r, v)
             w == WordsFor(t.node[v].type)
  <1>1. r[v] \in Int /\ w \in Nat /\ s \in Int
    <2>1. s \in Nat
      BY SumFewer
    <2>2. QED BY <2>1, Partners, WordsNat
  <1>2. v \in A
    BY <1>1 DEF Rest, Ahead
  <1>3. Sums(t, A \ {v}, s - w)
    BY <1>2, SumTaken
  <1>4. \A x \in NodeId : Ahead(t, r, t.next[v], x) => Live(t, x) /\ r[v] < r[x]
    BY MovingOn
  <1>5. \A x \in NodeId : x \in Rest(t, r, t.next[v]) => x \in A \ {v}
    BY <1>1, <1>4, Partners DEF Rest, Ahead
  <1> HIDE DEF A, w
  <1>6. \E u \in Nat : Sums(t, Rest(t, r, t.next[v]), u) /\ u + w <= s
    <2>1. PICK u \in Nat : Sums(t, Rest(t, r, t.next[v]), u) /\ u <= s - w
      BY <1>3, <1>5, SumFewer
    <2>2. QED BY <2>1, <1>1
  <1>7. ASSUME NEW e \in NodeId, Live(t, e), r[v] < r[e]
        PROVE  \E u \in Nat : /\ Sums(t, Rest(t, r, t.next[e]), u)
                              /\ u + w + WordsFor(t.node[e].type) <= s
    <2> DEFINE y == WordsFor(t.node[e].type)
    <2>1. r[e] \in Int /\ y \in Nat /\ e # v
      BY <1>1, <1>7, Partners, WordsNat
    <2>2. e \in A \ {v}
      BY <2>1, <1>1, <1>7 DEF A, Rest, Ahead
    <2>3. Sums(t, (A \ {v}) \ {e}, (s - w) - y)
      BY <2>2, <1>3, <1>7, SumTaken
    <2>4. \A x \in NodeId : Ahead(t, r, t.next[e], x) => Live(t, x) /\ r[e] < r[x]
      BY <1>7, MovingOn
    <2>5. \A x \in NodeId : x \in Rest(t, r, t.next[e]) => x \in (A \ {v}) \ {e}
      <3>1. ASSUME NEW x \in NodeId, x \in Rest(t, r, t.next[e])
            PROVE  x \in (A \ {v}) \ {e}
        <4>1. Live(t, x) /\ r[e] < r[x] /\ r[x] \in Int
          BY <2>4, <3>1, Partners DEF Rest
        <4>2. QED BY <4>1, <2>1, <1>1, <1>7 DEF A, Rest, Ahead
      <3>2. QED BY <3>1
    <2> HIDE DEF y
    <2>6. PICK u \in Nat : Sums(t, Rest(t, r, t.next[e]), u) /\ u <= (s - w) - y
      BY <2>3, <2>5, SumFewer
    <2>7. u + w + y <= s
      BY <2>1, <2>6, <1>1
    <2>8. QED BY <2>6, <2>7 DEF y
  <1>8. QED BY <1>6, <1>7 DEF w

(***************************************************************************)
(* The invariant.                                                          *)
(***************************************************************************)
ConvFields == {"n", "last_offset", "progarray", "size", "done", "starts"}

ConvTyped ==
  /\ DOMAIN conv = ConvFields
  /\ conv.last_offset \in Int /\ conv.size \in Nat /\ conv.done \in BOOLEAN
  /\ conv.n = Null \/ Live(tree, conv.n)

Progress(r) ==
  IF conv.done
  THEN /\ Array(conv.progarray, conv.starts, conv.starts, {})
       /\ \A b \in conv.starts : b < Len(conv.progarray)
  ELSE Array(conv.progarray, conv.starts, Starting, Pending(tree, r, conv.n))

MachinePlaced ==
  /\ IsMachine(vm)
  /\ vm.status = "run" => IF conv.done THEN vm.n \in conv.starts
                                      ELSE vm.n = 0 /\ 0 \in Starting

Conversion(r) ==
  /\ tree \in Tree /\ InOrder(tree, r)
  /\ ConvTyped /\ Progress(r) /\ MachinePlaced

\* What is left fits into what was allocated.
Room(r) ==
  IF conv.done
  THEN Len(conv.progarray) <= conv.size
  ELSE \E s \in Nat : /\ Sums(tree, Rest(tree, r, conv.n), s)
                      /\ (Len(conv.progarray) + s) + 2 <= conv.size

IInv == \E r : Conversion(r) /\ Room(r)

\* What the end of a turn assigns.
LEMMA WrittenFields ==
  ASSUME NEW words, NEW last, ConvTyped, Written(words, last)
  PROVE  /\ DOMAIN conv' = ConvFields
         /\ conv'.progarray = words /\ conv'.n = tree.next[last]
         /\ conv'.last_offset = OffsetAfter /\ conv'.starts = Starting
         /\ conv'.done = conv.done /\ conv'.size = conv.size
  <1> DEFINE after == OffsetAfter
             st == Starting
             nx == tree.next[last]
  <1>1. conv' = [conv EXCEPT !.progarray = words, !.n = nx, !.last_offset = after, !.starts = st]
    BY DEF Written
  <1>2. DOMAIN conv = ConvFields
    BY DEF ConvTyped
  <1> HIDE DEF after, st, nx
  <1>3. /\ DOMAIN conv' = ConvFields
        /\ conv'.progarray = words /\ conv'.n = nx
        /\ conv'.last_offset = after /\ conv'.starts = st
        /\ conv'.done = conv.done /\ conv'.size = conv.size
    BY <1>1, <1>2 DEF ConvFields
  <1>4. QED BY <1>3 DEF after, st, nx

\* While the conversion is going on.
Going_on(r) == Conversion(r) /\ ~conv.done /\ conv.n \in NodeId

\* What is known of a conversion that goes on.
LEMMA GoingOn ==
  ASSUME NEW r, Going_on(r)
  PROVE  /\ Typed /\ tree \in Tree /\ InOrder(tree, r) /\ conv.n \in NodeId /\ Live(tree, conv.n)
         /\ conv.progarray \in Seq(Int)
         /\ Starting = conv.starts \cup {Len(conv.progarray)}
         /\ Array(conv.progarray, conv.starts, conv.starts \cup {Len(conv.progarray)},
                  Pending(tree, r, conv.n))
  <1>1. Array(conv.progarray, conv.starts, Starting, Pending(tree, r, conv.n))
    BY DEF Going_on, Conversion, Progress
  <1>2. conv.progarray \in Seq(Int)
    BY <1>1 DEF Array
  <1>3. QED BY <1>1, <1>2 DEF Going_on, Conversion, ConvTyped, Typed, Starting, Live

\* The array has grown as it should, and the loop goes on behind node last.
LEMMA Goes ==
  ASSUME NEW r, Going_on(r), NEW last \in NodeId, Live(tree, last),
         NEW words, Written(words, last), UNCHANGED vm,
         tree' \in Tree, InOrder(tree', r), \A x : Live(tree', x) <=> Live(tree, x),
         Array(words, Starting, Starting \cup {Len(words)}, Pending(tree', r, tree.next[last]))
  PROVE  Conversion(r)'
  <1>1. /\ DOMAIN conv' = ConvFields
        /\ conv'.progarray = words /\ conv'.n = tree.next[last]
        /\ conv'.last_offset = OffsetAfter /\ conv'.starts = Starting
        /\ conv'.done = FALSE /\ conv'.size \in Nat
    BY WrittenFields DEF Going_on, Conversion, ConvTyped
  <1>2. ConvTyped'
    <2>1. OffsetAfter \in Int
      BY GoingOn, NodeTyped
    <2>2. tree.next[last] = Null \/ Live(tree, tree.next[last])
      BY GoingOn, MovingOn
    <2>3. QED BY <1>1, <2>1, <2>2 DEF ConvTyped
  <1>3. Starting' = Starting \cup {Len(words)}
    BY <1>1 DEF Starting
  <1>4. Progress(r)'
    BY <1>1, <1>3 DEF Progress
  <1>5. MachinePlaced'
    BY <1>1, <1>3 DEF MachinePlaced, Going_on, Conversion
  <1>6. QED BY <1>2, <1>4, <1>5 DEF Conversion

\* The words of an instruction that is no bracket, or none.
LEMMA WordsWritten ==
  ASSUME NEW words, NEW S, NEW P, Array(words, S, S \cup {Len(words)}, P),
         NEW ws, ws = <<>> \/ \E tok \in Straight : Instruction(ws, tok)
  PROVE  LET now == words \o ws
             T   == S \cup {Len(words)}
         IN  Array(now, T, T \cup {Len(now)}, P)
  <1> DEFINE now == words \o ws
             T == S \cup {Len(words)}
  <1>1. CASE ws = <<>>
    <2>1. words \in Seq(Int)
      BY DEF Array
    <2>2. now = words
      BY <1>1, <2>1
    <2>3. Array(words, T, T, P)
      BY NotGrown
    <2>4. T \cup {Len(words)} = T
      OBVIOUS
    <2>5. QED BY <2>2, <2>3, <2>4
  <1>2. CASE \E tok \in Straight : Instruction(ws, tok)
    <2>1. PICK tok \in Straight : Instruction(ws, tok)
      BY <1>2
    <2>2. tok # "FINI" /\ tok # "END" /\ tok \notin Openers
      BY <2>1 DEF Straight
    <2>3. Array(now, T, T \cup {Len(now)}, P \cup (IF tok \in Openers THEN {Len(words)} ELSE {}))
      BY <2>1, <2>2, Grown
    <2>4. P \cup (IF tok \in Openers THEN {Len(words)} ELSE {}) = P
      BY <2>2
    <2>5. QED BY <2>3, <2>4
  <1>3. QED BY <1>1, <1>2

\* Words are written for a node, or a whole loop, after which as many jumps as
\* before are waited for.
LEMMA StraightGoes ==
  ASSUME NEW r, Going_on(r), NEW last \in NodeId, Live(tree, last),
         Waiting(tree, r, tree.next[last]) = Waiting(tree, r, conv.n),
         NEW ws, ws = <<>> \/ \E tok \in Straight : Instruction(ws, tok),
         Emit(ws, last), UNCHANGED <<tree, vm>>
  PROVE  Conversion(r)'
  <1> DEFINE words == conv.progarray
             now == words \o ws
  <1>1. /\ tree' = tree /\ tree \in Tree /\ InOrder(tree, r) /\ UNCHANGED vm
        /\ Starting = conv.starts \cup {Len(words)}
        /\ Array(words, conv.starts, conv.starts \cup {Len(words)}, Pending(tree, r, conv.n))
    BY GoingOn
  <1>2. Pending(tree', r, tree.next[last]) = Pending(tree, r, conv.n)
    BY <1>1 DEF Pending
  <1>3. Array(now, Starting, Starting \cup {Len(now)}, Pending(tree', r, tree.next[last]))
    <2> HIDE DEF words
    <2>1. QED BY <1>1, <1>2, WordsWritten
  <1>4. Written(now, last)
    BY DEF Emit
  <1> HIDE DEF now
  <1>5. QED BY <1>1, <1>3, <1>4, Goes

\* A command is written.
LEMMA ConvertCommandKeeps ==
  ASSUME NEW r, Going_on(r), ConvertCommand
  PROVE  Conversion(r)'
  <1>1. /\ NodeNow.type \in Commands /\ Emit(CommandWords, conv.n) /\ UNCHANGED <<tree, vm>>
        /\ tree.node[conv.n].type \notin Bracket
    BY DEF ConvertCommand, Converting, Commands, CommandWords, NodeNow, Bracket, Openers, Closers,
           Simple, Calc
  <1>2. CommandWords = <<>> \/ \E tok \in Straight : Instruction(CommandWords, tok)
    BY <1>1, GoingOn, CommandInstruction
  <1>3. Waiting(tree, r, tree.next[conv.n]) = Waiting(tree, r, conv.n)
    BY <1>1, GoingOn, PastNode
  <1> DEFINE ws == CommandWords
  <1>4. Emit(ws, conv.n) /\ (ws = <<>> \/ \E tok \in Straight : Instruction(ws, tok))
    BY <1>1, <1>2
  <1> HIDE DEF ws
  <1>5. QED BY <1>1, <1>3, <1>4, GoingOn, StraightGoes

\* A loop that became a rail is written as one instruction.
LEMMA ConvertRailKeeps ==
  ASSUME NEW r, Going_on(r), ConvertRail
  PROVE  Conversion(r)'
  <1> DEFINE ws == RailWords
             e == NodeNow.jmp
  <1>1. /\ NodeNow.type \in LoopOpeners /\ IsRail /\ UNCHANGED <<tree, vm>>
        /\ tree.node[conv.n].type \in Openers /\ NodeNow = tree.node[conv.n]
    BY DEF ConvertRail, Converting, NodeNow, LoopOpeners
  <1>2. Emit(ws, e)
    BY DEF ConvertRail, RailWords
  <1>3. \E tok \in Straight : Instruction(ws, tok)
    BY <1>1, GoingOn, RailInstruction
  <1>4. Waiting(tree, r, tree.next[e]) = Waiting(tree, r, conv.n)
    BY <1>1, GoingOn, PastLoop
  <1>5. e \in NodeId /\ Live(tree, e)
    <2>1. e \in NodeId /\ tree.node[e].type \in Closers
      BY <1>1, GoingOn, Partners
    <2>2. QED BY <2>1, GoingOn, Partners DEF Bracket
  <1> HIDE DEF ws, e
  <1>6. QED BY <1>1, <1>2, <1>3, <1>4, <1>5, StraightGoes

\* A movement is written or put off.
LEMMA ConvertMovKeeps ==
  ASSUME NEW r, Going_on(r), ConvertMov
  PROVE  Conversion(r)'
  <1>1. /\ tree.node[conv.n].type = "MOV" /\ UNCHANGED <<tree, vm>>
        /\ tree.node[conv.n].type \notin Bracket
    BY DEF ConvertMov, Converting, Bracket, Openers, Closers
  <1>2. Waiting(tree, r, tree.next[conv.n]) = Waiting(tree, r, conv.n)
    BY <1>1, GoingOn, PastNode
  <1>3. NodeNow.count \in Int
    BY GoingOn, NodeTyped
  <1>4. CASE merge_mov
    <2> DEFINE nx == tree.next[conv.n]
               off == conv.last_offset - NodeNow.count
    <2>1. conv' = [conv EXCEPT !.last_offset = off, !.n = nx]
      BY <1>4 DEF ConvertMov
    <2>2. /\ DOMAIN conv = ConvFields /\ conv.last_offset \in Int /\ conv.done = FALSE
          /\ nx = Null \/ Live(tree, nx)
      <3>1. nx = Null \/ Live(tree, nx)
        BY GoingOn, MovingOn
      <3>2. QED BY <3>1 DEF Going_on, Conversion, ConvTyped
    <2>3. off \in Int
      BY <2>2, <1>3
    <2>4. Waiting(tree, r, nx) = Waiting(tree, r, conv.n)
      BY <1>2
    <2> HIDE DEF nx, off
    <2>5. /\ DOMAIN conv' = ConvFields /\ conv'.n = nx /\ conv'.last_offset = off
          /\ conv'.progarray = conv.progarray /\ conv'.starts = conv.starts /\ conv'.done = FALSE
          /\ conv'.size = conv.size
      BY <2>1, <2>2 DEF ConvFields
    <2>6. ConvTyped'
      BY <1>1, <2>2, <2>3, <2>5 DEF ConvTyped, Going_on, Conversion
    <2>7. Starting' = Starting
      BY <2>5 DEF Starting
    <2>8. Pending(tree, r, nx) = Pending(tree, r, conv.n)
      BY <2>4 DEF Pending
    <2>9. Progress(r)' /\ MachinePlaced'
      BY <1>1, <2>5, <2>7, <2>8 DEF Progress, MachinePlaced, Going_on, Conversion
    <2>10. QED BY <1>1, <2>6, <2>9 DEF Conversion, Going_on
  <1>5. CASE ~merge_mov
    <2> DEFINE ws == <<Code["MOV"], NodeNow.count>>
    <2>1. Emit(ws, conv.n)
      BY <1>5 DEF ConvertMov
    <2>2. "MOV" \in Tokens /\ "MOV" \in Straight /\ Code["MOV"] \in Int
      BY TokensListed, Coded DEF Straight, Openers
    <2>3. Width("MOV") = 2 /\ TokenWord = 1
      BY <1>5 DEF Width, TokenWord, Openers
    <2>4. ws \in Seq(Int) /\ Len(ws) = 2 /\ ws[1] = Code["MOV"]
      BY <1>3, <2>2
    <2> HIDE DEF ws
    <2>5. Instruction(ws, "MOV")
      BY <2>2, <2>3, <2>4 DEF Instruction
    <2>6. QED BY <1>1, <1>2, <2>1, <2>2, <2>5, GoingOn, StraightGoes
  <1>6. QED BY <1>4, <1>5

\* A note in a closing bracket changes nothing of the tree's shape.
Noting(t, e, c) == [t EXCEPT !.node[e].count = c]

\* A count that is written into a node does not disturb the order.
LEMMA Recounted ==
  ASSUME NEW t \in Tree, NEW e \in NodeId, NEW c \in Int,
         NEW u, u = Noting(t, e, c), NEW r, NEW n \in Link
  PROVE  /\ u \in Tree /\ \A x : Live(u, x) <=> Live(t, x)
         /\ Alike(t, u)
         /\ InOrder(t, r) => InOrder(u, r)
         /\ Waiting(u, r, n) = Waiting(t, r, n)
  <1> DEFINE nd == [t.node[e] EXCEPT !.count = c]
             nodes == [t.node EXCEPT ![e] = nd]
  <1>1. t.node[e] \in Node /\ t.node \in [NodeId -> Node]
    BY DEF Tree
  <1>2. nd \in Node /\ nd.type = t.node[e].type /\ nd.jmp = t.node[e].jmp /\ nd.count = c
    BY <1>1 DEF Node
  <1>3. u = [t EXCEPT !.node = nodes]
    BY DEF Noting
  <1> HIDE DEF nd
  <1>4. /\ nodes \in [NodeId -> Node] /\ nodes[e] = nd
        /\ \A x \in NodeId : x # e => nodes[x] = t.node[x]
    BY <1>1, <1>2
  <1> HIDE DEF nodes
  <1>5. u \in Tree /\ u.next = t.next /\ u.node = nodes
    BY <1>3, <1>4 DEF Tree
  <1>6. /\ \A x \in NodeId : /\ u.node[x].type = t.node[x].type /\ u.node[x].jmp = t.node[x].jmp
                             /\ x # e => u.node[x].count = t.node[x].count
        /\ u.node[e].count = c
    BY <1>2, <1>4, <1>5
  <1>7. \A x : Live(u, x) <=> Live(t, x)
    BY <1>6 DEF Live
  <1>8. /\ InOrder(t, r) => InOrder(u, r)
        /\ Waiting(u, r, n) = Waiting(t, r, n)
    <2>1. BracketsPaired(t) => BracketsPaired(u)
      <3>1. SUFFICES ASSUME BracketsPaired(t), NEW x \in NodeId, u.node[x].type \in Bracket
                     PROVE  LET y == u.node[x].jmp IN
                            /\ y \in NodeId
                            /\ u.node[y].jmp = x
                            /\ u.node[x].type \in Openers => u.node[y].type \in Closers
                            /\ u.node[x].type \in Closers => u.node[y].type \in Openers
        BY DEF BracketsPaired
      <3>2. PICK y : y = t.node[x].jmp
        OBVIOUS
      <3>3. /\ y \in NodeId /\ t.node[y].jmp = x
            /\ t.node[x].type \in Openers => t.node[y].type \in Closers
            /\ t.node[x].type \in Closers => t.node[y].type \in Openers
        BY <3>1, <3>2, <1>6 DEF BracketsPaired
      <3>4. u.node[x].jmp = y
        BY <3>2, <1>6
      <3>5. QED BY <3>3, <3>4, <1>6
    <2>2. Places(t, r) => Places(u, r)
      BY <1>5, <1>7 DEF Places
    <2>3. NestedBy(t, r) => NestedBy(u, r)
      BY <1>6 DEF NestedBy, Inside
    <2>4. ASSUME NEW x \in NodeId
          PROVE  Ahead(u, r, n, x) <=> Ahead(t, r, n, x)
      BY <1>7 DEF Ahead
    <2>5. ASSUME NEW x \in NodeId
          PROVE  Ahead(u, r, n, u.node[x].jmp) <=> Ahead(t, r, n, t.node[x].jmp)
      BY <1>6, <1>7 DEF Ahead
    <2>6. Waiting(u, r, n) = Waiting(t, r, n)
      BY <2>4, <2>5, <1>6 DEF Waiting
    <2>7. QED BY <2>1, <2>2, <2>3, <2>6 DEF InOrder
  <1>9. Alike(t, u)
    BY <1>6 DEF Alike
  <1>10. QED BY <1>5, <1>7, <1>8, <1>9

\* A loop is opened: its jump waits for its partner.
LEMMA ConvertOpenKeeps ==
  ASSUME NEW r, Going_on(r), ConvertOpen
  PROVE  Conversion(r)'
  <1> DEFINE v == conv.n
             e == tree.node[v].jmp
             words == conv.progarray
             L == Len(words)
             tok == IF NodeNow.type = "IF" THEN "WHL" ELSE NodeNow.type
             ws == Instr(tok, <<0>>)
             now == words \o ws
             P == Pending(tree, r, v)
             nx == tree.next[v]
  <1>1. /\ tree.node[v].type \in Openers /\ NodeNow = tree.node[v] /\ NodeNow.jmp = e
        /\ Written(now, v) /\ tree' = [tree EXCEPT !.node[e].count = L + 2] /\ UNCHANGED vm
    BY DEF ConvertOpen, Converting, NodeNow, Emit
  <1>2. /\ tree \in Tree /\ InOrder(tree, r) /\ v \in NodeId /\ Live(tree, v)
        /\ Starting = conv.starts \cup {L} /\ Array(words, conv.starts, conv.starts \cup {L}, P)
        /\ words \in Seq(Int) /\ L \in Nat
    <2>1. words \in Seq(Int)
      BY GoingOn
    <2>2. L \in Nat
      BY <2>1
    <2>3. QED BY <2>1, <2>2, GoingOn
  <1>3. e \in NodeId /\ tree.node[e].type \in Closers /\ tree.node[e].jmp = v
    BY <1>1, <1>2, Partners
  <1>4. nx \in Link
    BY <1>2, MovingOn
  <1> DEFINE W == Waiting(tree, r, v)
  <1>5. Waiting(tree, r, nx) = W \cup {e} /\ e \notin W
    <2>1. Waiting(tree, r, nx) = W \cup {e}
      BY <1>1, <1>2, PastNode
    <2>2. r[v] \in Int
      BY <1>2, Partners
    <2>3. Ahead(tree, r, v, v)
      BY <1>2, <2>2 DEF Ahead
    <2>4. e \notin W
      BY <2>3, <1>3 DEF Waiting
    <2>5. QED BY <2>1, <2>4
  <1>6. /\ tree' \in Tree /\ InOrder(tree', r) /\ \A x : Live(tree', x) <=> Live(tree, x)
        /\ Waiting(tree', r, nx) = W \cup {e}
        /\ \A x \in NodeId : x # e => tree'.node[x].count = tree.node[x].count
        /\ tree'.node[e].count = L + 2
    <2> DEFINE c == L + 2
    <2>1. c \in Int /\ tree' = Noting(tree, e, c)
      BY <1>1, <1>2 DEF Noting
    <2> HIDE DEF c, e, nx, L
    <2>2. PICK u : u = tree' /\ u = Noting(tree, e, c)
      BY <2>1
    <2>3. tree \in Tree /\ e \in NodeId /\ c \in Int /\ u = Noting(tree, e, c)
      BY <2>1, <2>2, <1>2, <1>3
    <2>4. u \in Tree /\ \A x : Live(u, x) <=> Live(tree, x)
      BY <2>3, Recounted
    <2>5. /\ \A x \in NodeId : x # e => u.node[x].count = tree.node[x].count
          /\ u.node[e].count = c
      <3>1. tree.node \in [NodeId -> Node] /\ DOMAIN tree = {"next", "prev", "node", "num"}
        BY <1>2 DEF Tree
      <3>2. u.node = [tree.node EXCEPT ![e] = [tree.node[e] EXCEPT !.count = c]]
        BY <2>3, <3>1 DEF Noting
      <3>3. tree.node[e] \in Node
        BY <2>3, <3>1
      <3>4. [tree.node[e] EXCEPT !.count = c].count = c
        BY <3>3 DEF Node
      <3>5. QED BY <2>3, <3>1, <3>2, <3>4
    <2>6. InOrder(tree, r) => InOrder(u, r)
      BY <2>3, Recounted
    <2>7. Waiting(u, r, nx) = Waiting(tree, r, nx)
      BY <2>3, <1>4, Recounted
    <2>8. QED BY <2>2, <2>4, <2>5, <2>6, <2>7, <1>2, <1>4, <1>5 DEF c
  <1>7. Pending(tree', r, nx) = P \cup {L}
    <2>1. W \subseteq NodeId
      BY DEF Waiting
    <2> HIDE DEF W, e, nx, L
    <2>2. P = {tree.node[x].count - 2 : x \in W}
      BY DEF Pending, W
    <2>3. Pending(tree', r, nx) = {tree'.node[x].count - 2 : x \in W \cup {e}}
      BY <1>6 DEF Pending
    <2>4. \A x \in W : tree'.node[x].count - 2 = tree.node[x].count - 2
      BY <2>1, <1>5, <1>6
    <2>5. tree'.node[e].count - 2 = L
      BY <1>6, <1>2
    <2> HIDE DEF P
    <2>6. QED BY <2>2, <2>3, <2>4, <2>5
  <1>8. Instruction(ws, tok) /\ tok \in Openers /\ tok # "FINI" /\ tok # "END"
    <2>1. tok \in Openers
      BY <1>1 DEF Openers
    <2>2. tok \in {"WHL", "MULT", "CMULT"}
      BY <1>1 DEF Openers
    <2>3. tok \in Tokens
      BY <2>2, TokensListed
    <2>4. Width(tok) = 3 /\ tok # "FINI" /\ tok # "END"
      BY <2>2 DEF Width, Openers
    <2> HIDE DEF tok
    <2>5. <<0>> \in Seq(Int) /\ Len(<<0>>) = 1
      OBVIOUS
    <2>6. Width(tok) = Len(<<0>>) + 2
      BY <2>4, <2>5
    <2>7. Instruction(Instr(tok, <<0>>), tok)
      BY <2>3, <2>5, <2>6, GoingOn, InstrIs
    <2>8. QED BY <2>1, <2>4, <2>7
  <1> HIDE DEF ws, tok, P
  <1>9. Array(now, Starting, Starting \cup {Len(now)}, P \cup {L})
    <2> HIDE DEF words
    <2>1. Array(now, conv.starts \cup {L}, conv.starts \cup {L} \cup {Len(now)},
                P \cup (IF tok \in Openers THEN {L} ELSE {}))
      BY <1>2, <1>8, Grown
    <2>2. QED BY <2>1, <1>2, <1>8
  <1> HIDE DEF now, L
  <1>10. Array(now, Starting, Starting \cup {Len(now)}, Pending(tree', r, nx))
    BY <1>7, <1>9
  <1>11. QED BY <1>1, <1>2, <1>6, <1>10, Goes

\* At a closing bracket: its jump is waited for, and no other's is lost.
LEMMA Awaited ==
  ASSUME NEW r, Going_on(r), tree.node[conv.n].type \in Closers, NEW o, o = NodeNow.count - 2
  PROVE  LET P == Pending(tree, r, conv.n)
             Q == Pending(tree, r, tree.next[conv.n])
         IN  o \in P /\ P \ {o} \subseteq Q /\ Q \subseteq P
  <1> DEFINE W == Waiting(tree, r, conv.n)
             V == Waiting(tree, r, tree.next[conv.n])
             P == Pending(tree, r, conv.n)
             Q == Pending(tree, r, tree.next[conv.n])
  <1>1. conv.n \in W /\ V = W \ {conv.n}
    BY GoingOn, PastNode
  <1>2. o = tree.node[conv.n].count - 2
    BY DEF NodeNow
  <1>3. P = {tree.node[x].count - 2 : x \in W} /\ Q = {tree.node[x].count - 2 : x \in V}
    BY DEF Pending
  <1> HIDE DEF W, V, P, Q
  <1>4. o \in P /\ P \ {o} \subseteq Q /\ Q \subseteq P
    BY <1>1, <1>2, <1>3
  <1>5. QED BY <1>4 DEF P, Q

\* The jump to what is written next is patched in.
LEMMA PatchedGoes ==
  ASSUME NEW r, Going_on(r), tree.node[conv.n].type \in Closers,
         NEW o, o = NodeNow.count - 2,
         NEW words, Array(words, Starting, Starting \cup {Len(words)}, Pending(tree, r, conv.n)),
         NEW d \in Int, o + (d + 3) = Len(words),
         Written(Patched(words, o + 2, d), conv.n), UNCHANGED <<tree, vm>>
  PROVE  Conversion(r)'
  <1> DEFINE now == Patched(words, o + 2, d)
             P == Pending(tree, r, conv.n)
             Q == Pending(tree, r, tree.next[conv.n])
  <1>1. o \in P /\ P \ {o} \subseteq Q /\ Q \subseteq P
    BY Awaited
  <1> HIDE DEF P, Q
  <1>2. o + (d + 3) \in Starting \cup {Len(words)}
    OBVIOUS
  <1>3. Array(now, Starting, Starting \cup {Len(words)}, Q) /\ Len(now) = Len(words)
    <2> DEFINE S == Starting
               G == S \cup {Len(words)}
    <2>1. Array(words, S, G, P) /\ o + (d + 3) \in G
      BY <1>2 DEF P
    <2> HIDE DEF S, G
    <2>2. Array(now, S, G, Q) /\ Len(now) = Len(words)
      <3>1. o \in P /\ Fewer(P, o, Q) /\ d \in Int
        BY <1>1 DEF Fewer
      <3>2. QED BY <2>1, <3>1, PatchedArray
    <2>3. QED BY <2>2 DEF S, G
  <1>4. Written(now, conv.n)
    OBVIOUS
  <1> HIDE DEF now
  <1>5. Array(now, Starting, Starting \cup {Len(now)}, Pending(tree', r, tree.next[conv.n]))
    BY <1>3 DEF Q
  <1>6. tree' = tree /\ UNCHANGED vm
    OBVIOUS
  <1>7. QED BY <1>4, <1>5, <1>6, GoingOn, Goes

\* A loop is closed: both jumps are known.
LEMMA ConvertEndKeeps ==
  ASSUME NEW r, Going_on(r), ConvertEnd
  PROVE  Conversion(r)'
  <1> DEFINE words == conv.progarray
             L == Len(words)
             c == NodeNow.count
             o == c - 2
             d == L + 2 - c
             ws == Instr("END", <<-d>>)
             now == words \o ws
             P == Pending(tree, r, conv.n)
             S == conv.starts
  <1>1. /\ tree.node[conv.n].type = "END" /\ UNCHANGED <<tree, vm>>
        /\ Written(Patched(now, c, d), conv.n)
    BY DEF ConvertEnd, Converting
  <1>2. words \in Seq(Int) /\ Starting = S \cup {L} /\ Array(words, S, S \cup {L}, P)
    BY GoingOn
  <1>3. L \in Nat
    BY <1>2
  <1>4. c \in Int /\ d \in Int /\ o \in Int /\ d = L - o /\ c = o + 2
    <2>1. c \in Int
      BY GoingOn, NodeTyped
    <2> HIDE DEF c, L
    <2>2. QED BY <2>1, <1>3
  <1>5. tree.node[conv.n].type \in Closers
    BY <1>1 DEF Closers
  <1>6. o \in P
    BY <1>5, Awaited
  <1>7. Instruction(ws, "END") /\ ws[3] = -d
    <2>1. "END" \in Tokens /\ Width("END") = 3
      BY TokensListed DEF Width, Openers
    <2> DEFINE x == -d
    <2>2. x \in Int
      BY <1>4
    <2> HIDE DEF x
    <2>3. <<x>> \in Seq(Int) /\ Len(<<x>>) = 1 /\ <<x>>[1] = x
      BY <2>2
    <2>4. Width("END") = Len(<<x>>) + 2
      BY <2>1, <2>3
    <2>5. Instruction(Instr("END", <<x>>), "END") /\ Instr("END", <<x>>)[3] = <<x>>[1]
      BY <2>1, <2>3, <2>4, GoingOn, InstrIs
    <2>6. QED BY <2>3, <2>5 DEF x
  <1>8. o + 3 \in S \cup {L}
    <2> HIDE DEF o, words, P, S, L
    <2>1. /\ o \in S /\ o + 3 <= Len(words) /\ TokenAt(words, o) \in Openers
      BY <1>2, <1>6 DEF Array, Patchable
    <2>2. o < Len(words)
      BY <2>1, <1>3, <1>4 DEF L
    <2>3. Whole(words, S \cup {L}, P, o)
      BY <1>2, <2>1, <2>2 DEF Array
    <2> DEFINE tok == TokenAt(words, o)
    <2>4. tok # "FINI" => o + Width(tok) \in S \cup {L}
      BY <2>3 DEF Whole
    <2>5. tok \in Openers
      BY <2>1
    <2> HIDE DEF tok
    <2>6. tok # "FINI" /\ Width(tok) = 3
      BY <2>5 DEF Width, Openers
    <2>7. QED BY <2>4, <2>6
  <1>9. L + (ws[3] + 3) \in S \cup {L}
    <2>1. L + (-d + 3) = o + 3
      <3> HIDE DEF L, o, d
      <3>1. QED BY <1>3, <1>4
    <2> HIDE DEF ws
    <2>2. QED BY <2>1, <1>7, <1>8
  <1> HIDE DEF ws
  <1>10. Len(now) = L + 3
    <2>1. ws \in Seq(Int) /\ Len(ws) = 3
      BY <1>7 DEF Instruction, Width, Openers
    <2>2. words \in Seq(Int) /\ Len(words) = L
      BY <1>2
    <2> HIDE DEF words, L
    <2>3. Len(words \o ws) = Len(words) + Len(ws)
      BY <2>1, <2>2, Appended
    <2>4. QED BY <2>1, <2>2, <2>3
  <1>11. Array(now, Starting, Starting \cup {Len(now)}, P)
    <2> HIDE DEF words, P
    <2>1. "END" \notin Openers /\ "END" # "FINI"
      BY DEF Openers
    <2>2. Array(now, S \cup {L}, S \cup {L} \cup {Len(now)},
                P \cup (IF "END" \in Openers THEN {L} ELSE {}))
      BY <1>2, <1>7, <1>9, <2>1, Grown
    <2>3. P \cup (IF "END" \in Openers THEN {L} ELSE {}) = P
      BY <2>1
    <2>4. QED BY <2>2, <2>3, <1>2
  <1> HIDE DEF now
  <1>12. o + (d + 3) = Len(now)
    <2> HIDE DEF o, d, L
    <2>1. QED BY <1>3, <1>4, <1>10
  <1>13. Written(Patched(now, o + 2, d), conv.n)
    <2> HIDE DEF o, d, c
    <2>1. QED BY <1>1, <1>4
  <1> HIDE DEF d
  <1>14. QED BY <1>1, <1>4, <1>5, <1>11, <1>12, <1>13, PatchedGoes

\* A conditional is closed: the jump past it is known.
LEMMA ConvertEndIfKeeps ==
  ASSUME NEW r, Going_on(r), ConvertEndIf
  PROVE  Conversion(r)'
  <1> DEFINE words == conv.progarray
             c == NodeNow.count
             o == c - 2
             ws == EndIfInstr
             now == words \o ws
             d == Len(now) - c - 1
             P == Pending(tree, r, conv.n)
             S == conv.starts
  <1>1. /\ tree.node[conv.n].type = "ENDIF" /\ UNCHANGED <<tree, vm>>
        /\ Written(Patched(now, c, d), conv.n)
    BY DEF ConvertEndIf, Converting
  <1>2. Starting = S \cup {Len(words)} /\ Array(words, S, S \cup {Len(words)}, P)
    BY GoingOn
  <1>3. ws = <<>> \/ \E tok \in Straight : Instruction(ws, tok)
    <2>1. ws = <<>> \/ ws = Instr("ENDIF", <<>>)
      BY DEF EndIfInstr
    <2>2. "ENDIF" \in Tokens /\ "ENDIF" \in Straight /\ Width("ENDIF") = 2
      BY TokensListed DEF Width, Straight, Openers
    <2>3. <<>> \in Seq(Int) /\ Len(<<>>) = 0
      OBVIOUS
    <2>4. Width("ENDIF") = Len(<<>>) + 2
      BY <2>2, <2>3
    <2>5. Instruction(Instr("ENDIF", <<>>), "ENDIF")
      BY <2>2, <2>3, <2>4, GoingOn, InstrIs
    <2>6. QED BY <2>1, <2>2, <2>5
  <1> HIDE DEF ws
  <1>4. Array(now, Starting, Starting \cup {Len(now)}, P)
    <2> HIDE DEF words, P, S
    <2>1. QED BY <1>2, <1>3, WordsWritten
  <1> HIDE DEF now
  <1>5. Len(now) \in Nat /\ c \in Int
    <2>1. now \in Seq(Int)
      BY <1>4 DEF Array
    <2>2. QED BY <2>1, GoingOn, NodeTyped
  <1>6. d \in Int /\ o + (d + 3) = Len(now) /\ c = o + 2
    <2> HIDE DEF c
    <2>1. QED BY <1>5
  <1>7. Written(Patched(now, o + 2, d), conv.n)
    <2> HIDE DEF o, d, c
    <2>1. QED BY <1>1, <1>6
  <1>8. tree.node[conv.n].type \in Closers
    BY <1>1 DEF Closers
  <1> HIDE DEF d
  <1>9. QED BY <1>1, <1>4, <1>6, <1>7, <1>8, PatchedGoes

\* The end of the array: no jump waits any longer.
LEMMA ConvertDoneKeeps ==
  ASSUME NEW r, Conversion(r), ConvertDone
  PROVE  Conversion(r)'
  <1> DEFINE words == conv.progarray
             S == conv.starts
             T == Starting
             now == words \o FinishInstr
  <1>1. /\ conv.n = Null /\ conv.done = FALSE /\ UNCHANGED <<tree, vm>>
        /\ conv' = [conv EXCEPT !.progarray = now, !.starts = T, !.done = TRUE]
    BY DEF ConvertDone, Conversion, ConvTyped
  <1>2. Pending(tree, r, conv.n) = {}
    BY <1>1 DEF Pending, Waiting, Ahead
  <1>3. Array(words, S, S \cup {Len(words)}, {}) /\ T = S \cup {Len(words)}
    BY <1>1, <1>2 DEF Conversion, Progress, Starting
  <1>4. Array(now, T, T, {}) /\ \A b \in T : b < Len(now)
    <2> HIDE DEF words, S, T
    <2>1. QED BY <1>3, Finished
  <1>5. DOMAIN conv = ConvFields
    BY DEF Conversion, ConvTyped
  <1> HIDE DEF now, T
  <1>6. /\ DOMAIN conv' = ConvFields /\ conv'.n = conv.n /\ conv'.last_offset = conv.last_offset
        /\ conv'.progarray = now /\ conv'.starts = T /\ conv'.done = TRUE
        /\ conv'.size = conv.size
    BY <1>1, <1>5 DEF ConvFields
  <1>7. ConvTyped'
    BY <1>1, <1>6 DEF ConvTyped, Conversion
  <1>8. Progress(r)'
    BY <1>4, <1>6 DEF Progress
  <1>9. MachinePlaced'
    BY <1>1, <1>6 DEF MachinePlaced, Conversion, T
  <1>10. QED BY <1>1, <1>7, <1>8, <1>9 DEF Conversion

\* The loops read the array and write to no word of it.
LEMMA TurnKeeps ==
  ASSUME NEW r, Conversion(r), (merge_mov /\ Turn) \/ (~merge_mov /\ GmpTurn)
  PROVE  Conversion(r)'
  <1> DEFINE words == conv.progarray
             S == conv.starts
             tok == TokenAt(words, vm.n)
  <1>1. /\ conv.done /\ vm.status = "run" /\ UNCHANGED <<tree, conv>>
        /\ \/ merge_mov /\ vm' = Exec(tok, words, vm)
           \/ ~merge_mov /\ vm' = GmpExec(tok, words, vm)
    BY DEF Turn, GmpTurn
  <1>2. /\ Array(words, S, S, {}) /\ \A b \in S : b < Len(words)
        /\ IsMachine(vm) /\ vm.n \in S
    BY <1>1 DEF Conversion, Progress, MachinePlaced
  <1>3. vm.n \in Nat
    BY <1>2 DEF Array
  <1> HIDE DEF tok, words, S
  <1>4. Lands(tok, words, vm, vm')
    BY <1>1, <1>2, <1>3, ExecLands, GmpExecLands
  <1>5. vm'.status = "run" => vm'.n \in S
    BY <1>2, <1>4, TurnLands DEF tok
  <1>6. IsMachine(vm')
    BY <1>4 DEF Lands
  <1>7. MachinePlaced'
    BY <1>1, <1>5, <1>6 DEF MachinePlaced, S
  <1>8. QED BY <1>1, <1>7 DEF Conversion, ConvTyped, Progress, Starting

(***************************************************************************)
(* The room in the array.                                                  *)
(***************************************************************************)
LEMMA LengthNat ==
  ASSUME NEW r, Going_on(r)
  PROVE  Len(conv.progarray) \in Nat
  <1>1. conv.progarray \in Seq(Int)
    BY GoingOn
  <1>2. QED BY <1>1

\* A turn that writes no more words than were counted for its nodes.
LEMMA RoomGoes ==
  ASSUME NEW r, Going_on(r), Room(r), NEW last \in NodeId, Live(tree, last), Alike(tree, tree'),
         conv'.done = FALSE, conv'.size = conv.size, conv'.n = tree.next[last],
         \A x : Live(tree', x) <=> Live(tree, x),
         NEW k \in Nat, Len(conv'.progarray) = Len(conv.progarray) + k,
         \/ last = conv.n /\ k <= WordsFor(tree.node[conv.n].type)
         \/ /\ r[conv.n] < r[last]
            /\ k <= WordsFor(tree.node[conv.n].type) + WordsFor(tree.node[last].type)
  PROVE  Room(r)'
  <1> DEFINE L == Len(conv.progarray)
             w == WordsFor(tree.node[conv.n].type)
             y == WordsFor(tree.node[last].type)
             B == Rest(tree, r, tree.next[last])
             a == conv.size
  <1>1. w \in Nat /\ y \in Nat /\ L \in Nat /\ a \in Nat
    BY WordsNat, LengthNat DEF Going_on, Conversion, ConvTyped
  <1>2. PICK s \in Nat : Sums(tree, Rest(tree, r, conv.n), s) /\ (L + s) + 2 <= a
    BY DEF Going_on, Room
  <1>3. tree \in Tree /\ InOrder(tree, r) /\ conv.n \in NodeId /\ Live(tree, conv.n)
    BY GoingOn
  <1>4. \E u \in Nat : Sums(tree, B, u) /\ u + k <= s
    <2>1. CASE last = conv.n /\ k <= w
      <3>1. PICK u \in Nat : Sums(tree, B, u) /\ u + w <= s
        BY <1>2, <1>3, <2>1, RestShrinks
      <3> HIDE DEF w, B
      <3>2. u + k <= s
        BY <3>1, <2>1, <1>1
      <3>3. QED BY <3>1, <3>2
    <2>2. CASE r[conv.n] < r[last] /\ k <= w + y
      <3>1. PICK u \in Nat : Sums(tree, B, u) /\ u + w + y <= s
        BY <1>2, <1>3, <2>2, RestShrinks
      <3> HIDE DEF w, y, B
      <3>2. u + k <= s
        BY <3>1, <2>2, <1>1
      <3>3. QED BY <3>1, <3>2
    <2>3. QED BY <2>1, <2>2
  <1>5. PICK u \in Nat : Sums(tree, B, u) /\ u + k <= s
    BY <1>4
  <1>6. Rest(tree', r, tree.next[last]) = B
    BY DEF Rest, Ahead
  <1>7. Sums(tree', B, u) /\ conv'.size = a
    BY <1>5, SumKept
  <1> HIDE DEF B, a, L
  <1>8. ((L + k) + u) + 2 <= a
    BY <1>1, <1>2, <1>5
  <1>9. (Len(conv'.progarray) + u) + 2 <= a
    BY <1>8 DEF L
  <1>10. QED BY <1>6, <1>7, <1>9 DEF Room

\* Words are written for a node, or for a loop.
LEMMA EmitRoom ==
  ASSUME NEW r, Going_on(r), Room(r), NEW last \in NodeId, Live(tree, last), Alike(tree, tree'),
         \A x : Live(tree', x) <=> Live(tree, x),
         NEW ws \in Seq(Int), Emit(ws, last),
         \/ last = conv.n /\ Len(ws) <= WordsFor(tree.node[conv.n].type)
         \/ /\ r[conv.n] < r[last]
            /\ Len(ws) <= WordsFor(tree.node[conv.n].type) + WordsFor(tree.node[last].type)
  PROVE  Room(r)'
  <1> DEFINE now == conv.progarray \o ws
             k == Len(ws)
  <1>1. Len(now) = Len(conv.progarray) + k /\ k \in Nat
    BY GoingOn, Appended
  <1>2. Written(now, last)
    BY DEF Emit
  <1> HIDE DEF now
  <1>3. /\ conv'.progarray = now /\ conv'.n = tree.next[last]
        /\ conv'.done = FALSE /\ conv'.size = conv.size
    BY <1>2, WrittenFields DEF Going_on, Conversion, ConvTyped
  <1> HIDE DEF k
  <1>4. Len(conv'.progarray) = Len(conv.progarray) + k
    BY <1>1, <1>3
  <1>5. QED BY <1>1, <1>3, <1>4, RoomGoes DEF k

\* What is not changed is alike.
LEMMA UnchangedAlike ==
  ASSUME tree' = tree
  PROVE  Alike(tree, tree') /\ \A x : Live(tree', x) <=> Live(tree, x)
  BY DEF Alike

\* A command has the room counted for it.
LEMMA ConvertCommandRoom ==
  ASSUME NEW r, Going_on(r), Room(r), ConvertCommand
  PROVE  Room(r)'
  <1> DEFINE ws == CommandWords
  <1>1. NodeNow.type \in Commands /\ Emit(ws, conv.n) /\ tree' = tree
    BY DEF ConvertCommand, Converting, Commands, CommandWords, NodeNow
  <1>2. \/ ws = <<>>
        \/ \E tok \in Straight : Instruction(ws, tok) /\ Width(tok) <= WordsFor(NodeNow.type)
    BY <1>1, GoingOn, CommandInstruction
  <1> HIDE DEF ws
  <1>3. ws \in Seq(Int) /\ Len(ws) <= WordsFor(NodeNow.type)
    <2>1. CASE ws = <<>>
      <3>1. <<>> \in Seq(Int) /\ Len(<<>>) = 0
        OBVIOUS
      <3>2. QED BY <2>1, <3>1, WordsNat
    <2>2. CASE \E tok \in Straight : Instruction(ws, tok) /\ Width(tok) <= WordsFor(NodeNow.type)
      BY <2>2 DEF Instruction
    <2>3. QED BY <1>2, <2>1, <2>2
  <1>4. Len(ws) <= WordsFor(tree.node[conv.n].type)
    BY <1>3 DEF NodeNow
  <1>5. QED BY <1>1, <1>3, <1>4, GoingOn, UnchangedAlike, EmitRoom

\* Brackets are counted with three words.
LEMMA BracketWords ==
  ASSUME NEW tok \in Bracket
  PROVE  WordsFor(tok) = 3
  BY DEF WordsFor, Bracket, Openers, Closers

\* A rail has the room counted for its two brackets.
LEMMA ConvertRailRoom ==
  ASSUME NEW r, Going_on(r), Room(r), ConvertRail
  PROVE  Room(r)'
  <1> DEFINE ws == RailWords
             e == NodeNow.jmp
  <1>1. /\ NodeNow.type \in LoopOpeners /\ IsRail /\ tree' = tree
        /\ tree.node[conv.n].type \in Openers /\ NodeNow = tree.node[conv.n]
    BY DEF ConvertRail, Converting, NodeNow, LoopOpeners
  <1>2. Emit(ws, e)
    BY DEF ConvertRail, RailWords
  <1>3. \E tok \in Straight : Instruction(ws, tok) /\ Width(tok) <= 5
    BY <1>1, GoingOn, RailInstruction
  <1>4. e \in NodeId /\ tree.node[e].type \in Closers /\ r[conv.n] < r[e]
    BY <1>1, GoingOn, Partners
  <1>5. Live(tree, e)
    BY <1>4, GoingOn, Partners DEF Bracket
  <1> HIDE DEF ws, e
  <1>6. ws \in Seq(Int) /\ Len(ws) <= 5
    BY <1>3 DEF Instruction
  <1>7. WordsFor(tree.node[conv.n].type) = 3 /\ WordsFor(tree.node[e].type) = 3
    BY <1>1, <1>4, BracketWords DEF Bracket
  <1>8. Len(ws) \in Nat
    BY <1>6
  <1>9. Len(ws) <= WordsFor(tree.node[conv.n].type) + WordsFor(tree.node[e].type)
    BY <1>6, <1>7, <1>8
  <1>10. QED BY <1>1, <1>2, <1>4, <1>5, <1>6, <1>9, UnchangedAlike, EmitRoom

\* A movement has the room counted for it.
LEMMA ConvertMovRoom ==
  ASSUME NEW r, Going_on(r), Room(r), ConvertMov
  PROVE  Room(r)'
  <1>1. tree.node[conv.n].type = "MOV" /\ tree' = tree
    BY DEF ConvertMov, Converting
  <1>2. CASE merge_mov
    <2> DEFINE nx == tree.next[conv.n]
               off == conv.last_offset - NodeNow.count
    <2>1. conv' = [conv EXCEPT !.last_offset = off, !.n = nx]
      BY <1>2 DEF ConvertMov
    <2>2. DOMAIN conv = ConvFields /\ conv.done = FALSE
      BY DEF Going_on, Conversion, ConvTyped
    <2> HIDE DEF nx, off
    <2>3. /\ conv'.n = nx /\ conv'.progarray = conv.progarray
          /\ conv'.done = FALSE /\ conv'.size = conv.size
      BY <2>1, <2>2 DEF ConvFields
    <2>4. Len(conv'.progarray) = Len(conv.progarray) + 0
      BY <2>3, LengthNat
    <2>5. 0 <= WordsFor(tree.node[conv.n].type)
      BY WordsNat
    <2>6. QED BY <1>1, <2>3, <2>4, <2>5, GoingOn, UnchangedAlike, RoomGoes DEF nx
  <1>3. CASE ~merge_mov
    <2> DEFINE ws == <<Code["MOV"], NodeNow.count>>
    <2>1. Emit(ws, conv.n)
      BY <1>3 DEF ConvertMov
    <2>2. Code["MOV"] \in Int /\ NodeNow.count \in Int
      BY TokensListed, Coded, GoingOn, NodeTyped
    <2>3. ws \in Seq(Int) /\ Len(ws) = 2
      BY <2>2
    <2>4. WordsFor(tree.node[conv.n].type) = 2
      BY <1>1, <1>3 DEF WordsFor
    <2> HIDE DEF ws
    <2>5. Len(ws) <= WordsFor(tree.node[conv.n].type)
      BY <2>3, <2>4
    <2>6. QED BY <1>1, <2>1, <2>3, <2>5, GoingOn, UnchangedAlike, EmitRoom
  <1>4. QED BY <1>2, <1>3

\* An opening bracket has the room counted for it,
LEMMA ConvertOpenRoom ==
  ASSUME NEW r, Going_on(r), Room(r), ConvertOpen
  PROVE  Room(r)'
  <1> DEFINE v == conv.n
             e == tree.node[v].jmp
             tok == IF NodeNow.type = "IF" THEN "WHL" ELSE NodeNow.type
             ws == Instr(tok, <<0>>)
             c == Len(conv.progarray) + 2
  <1>1. /\ tree.node[v].type \in Openers /\ NodeNow = tree.node[v] /\ NodeNow.jmp = e
        /\ Emit(ws, v) /\ tree' = Noting(tree, e, c)
    BY DEF ConvertOpen, Converting, NodeNow, Noting
  <1>2. e \in NodeId
    BY <1>1, GoingOn, Partners
  <1>3. c \in Int
    BY LengthNat
  <1> HIDE DEF e, c
  <1>4. Alike(tree, tree') /\ \A x : Live(tree', x) <=> Live(tree, x)
    <2>1. PICK u : u = tree' /\ u = Noting(tree, e, c)
      BY <1>1
    <2>2. tree \in Tree /\ v \in Link
      BY GoingOn
    <2>3. Alike(tree, u) /\ \A x : Live(u, x) <=> Live(tree, x)
      BY <1>2, <1>3, <2>1, <2>2, Recounted
    <2>4. QED BY <2>1, <2>3
  <1>5. ws \in Seq(Int) /\ Len(ws) = 3
    <2>1. tok \in {"WHL", "MULT", "CMULT"}
      BY <1>1 DEF Openers
    <2>2. tok \in Tokens
      BY <2>1, TokensListed
    <2>3. Width(tok) = 3
      BY <2>1 DEF Width, Openers
    <2> HIDE DEF tok
    <2>4. <<0>> \in Seq(Int) /\ Len(<<0>>) = 1
      OBVIOUS
    <2>5. Width(tok) = Len(<<0>>) + 2
      BY <2>3, <2>4
    <2>6. Instruction(Instr(tok, <<0>>), tok)
      BY <2>2, <2>4, <2>5, GoingOn, InstrIs
    <2>7. QED BY <2>3, <2>6 DEF Instruction
  <1>6. WordsFor(tree.node[v].type) = 3
    BY <1>1, BracketWords DEF Bracket
  <1> HIDE DEF ws
  <1>7. Len(ws) <= WordsFor(tree.node[conv.n].type)
    BY <1>5, <1>6
  <1>8. QED BY <1>1, <1>4, <1>5, <1>7, GoingOn, EmitRoom

\* Patching does not change the array's length.
LEMMA PatchedLength ==
  ASSUME NEW words \in Seq(Int), NEW i, NEW w
  PROVE  Len(Patched(words, i, w)) = Len(words)
  <1> DEFINE now == [words EXCEPT ![i + 1] = w]
  <1>1. now = [k \in 1 .. Len(words) |-> now[k]] /\ Len(words) \in Nat
    OBVIOUS
  <1> HIDE DEF now
  <1>2. DOMAIN now = 1 .. Len(words)
    BY <1>1
  <1>3. now \in Seq({now[k] : k \in 1 .. Len(words)})
    BY <1>1
  <1>4. Len(now) = Len(words)
    BY <1>1, <1>2, <1>3
  <1>5. QED BY <1>4 DEF Patched, now

\* A closing bracket's words are written, or fewer, and a jump is patched in.
LEMMA CloseRoom ==
  ASSUME NEW r, Going_on(r), Room(r), tree.node[conv.n].type \in Closers, tree' = tree,
         NEW ws \in Seq(Int), Len(ws) <= 3, NEW i, NEW d,
         Written(Patched(conv.progarray \o ws, i, d), conv.n)
  PROVE  Room(r)'
  <1> DEFINE words == conv.progarray \o ws
             now == Patched(words, i, d)
             k == Len(ws)
  <1>1. words \in Seq(Int) /\ Len(words) = Len(conv.progarray) + k /\ k \in Nat
    BY GoingOn, Appended
  <1> HIDE DEF words
  <1>2. Len(now) = Len(words)
    BY <1>1, PatchedLength
  <1>3. Written(now, conv.n)
    BY DEF words
  <1> HIDE DEF now
  <1>4. /\ conv'.progarray = now /\ conv'.n = tree.next[conv.n]
        /\ conv'.done = FALSE /\ conv'.size = conv.size
    BY <1>3, WrittenFields DEF Going_on, Conversion, ConvTyped
  <1>5. WordsFor(tree.node[conv.n].type) = 3
    BY BracketWords DEF Bracket
  <1>6. k <= WordsFor(tree.node[conv.n].type)
    BY <1>5
  <1> HIDE DEF k
  <1>7. Len(conv'.progarray) = Len(conv.progarray) + k
    BY <1>1, <1>2, <1>4
  <1>8. QED BY <1>1, <1>4, <1>6, <1>7, GoingOn, UnchangedAlike, RoomGoes

\* a closing one too,
LEMMA ConvertEndRoom ==
  ASSUME NEW r, Going_on(r), Room(r), ConvertEnd
  PROVE  Room(r)'
  <1> DEFINE d == Len(conv.progarray) + 2 - NodeNow.count
             x == -d
             ws == Instr("END", <<x>>)
             i == NodeNow.count
  <1>1. /\ tree.node[conv.n].type = "END" /\ tree' = tree
        /\ Written(Patched(conv.progarray \o ws, i, d), conv.n)
    BY DEF ConvertEnd, Converting
  <1>2. x \in Int
    <2>1. NodeNow.count \in Int
      BY GoingOn, NodeTyped
    <2>2. Len(conv.progarray) \in Nat
      BY LengthNat
    <2> DEFINE L == Len(conv.progarray)
               c == NodeNow.count
    <2>3. L \in Int /\ c \in Int
      BY <2>1, <2>2
    <2> HIDE DEF L, c
    <2>4. -(L + 2 - c) \in Int
      BY <2>3
    <2>5. QED BY <2>4 DEF L, c
  <1> HIDE DEF x, d, i
  <1>3. ws \in Seq(Int) /\ Len(ws) <= 3
    <2>1. "END" \in Tokens /\ Width("END") = 3
      BY TokensListed DEF Width, Openers
    <2>2. <<x>> \in Seq(Int) /\ Len(<<x>>) = 1
      BY <1>2
    <2>3. Width("END") = Len(<<x>>) + 2
      BY <2>1, <2>2
    <2>4. Instruction(Instr("END", <<x>>), "END")
      BY <2>1, <2>2, <2>3, GoingOn, InstrIs
    <2>5. QED BY <2>1, <2>4 DEF Instruction
  <1> HIDE DEF ws
  <1>4. tree.node[conv.n].type \in Closers
    BY <1>1 DEF Closers
  <1>5. QED BY <1>1, <1>3, <1>4, CloseRoom

\* and the end of a conditional.
LEMMA ConvertEndIfRoom ==
  ASSUME NEW r, Going_on(r), Room(r), ConvertEndIf
  PROVE  Room(r)'
  <1> DEFINE ws == EndIfInstr
             i == NodeNow.count
             d == Len(conv.progarray \o ws) - NodeNow.count - 1
  <1>1. /\ tree.node[conv.n].type = "ENDIF" /\ tree' = tree
        /\ Written(Patched(conv.progarray \o ws, i, d), conv.n)
    BY DEF ConvertEndIf, Converting
  <1>2. ws \in Seq(Int) /\ Len(ws) <= 3
    <2>1. ws = <<>> \/ ws = Instr("ENDIF", <<>>)
      BY DEF EndIfInstr
    <2>2. "ENDIF" \in Tokens /\ Width("ENDIF") = 2
      BY TokensListed DEF Width, Openers
    <2>3. <<>> \in Seq(Int) /\ Len(<<>>) = 0
      OBVIOUS
    <2>4. Width("ENDIF") = Len(<<>>) + 2
      BY <2>2, <2>3
    <2>5. Instruction(Instr("ENDIF", <<>>), "ENDIF")
      BY <2>2, <2>3, <2>4, GoingOn, InstrIs
    <2>6. CASE ws = <<>>
      <3>1. <<>> \in Seq(Int) /\ Len(<<>>) <= 3
        BY <2>3
      <3> HIDE DEF ws
      <3>2. QED BY <2>6, <3>1
    <2>7. CASE ws = Instr("ENDIF", <<>>)
      <3> DEFINE now == Instr("ENDIF", <<>>)
      <3>1. now \in Seq(Int) /\ Len(now) = 2
        BY <2>2, <2>5 DEF Instruction
      <3> HIDE DEF now, ws
      <3>2. now \in Seq(Int) /\ Len(now) <= 3
        BY <3>1
      <3>3. QED BY <2>7, <3>2 DEF now
    <2>8. QED BY <2>1, <2>6, <2>7
  <1> HIDE DEF ws, i, d
  <1>3. tree.node[conv.n].type \in Closers
    BY <1>1 DEF Closers
  <1>4. QED BY <1>1, <1>2, <1>3, CloseRoom

\* The last instruction has the room that is left.
LEMMA ConvertDoneRoom ==
  ASSUME NEW r, Conversion(r), Room(r), ConvertDone
  PROVE  Room(r)'
  <1> DEFINE words == conv.progarray
             now == words \o FinishInstr
             st == Starting
  <1>1. /\ conv.done = FALSE /\ tree' = tree
        /\ conv' = [conv EXCEPT !.progarray = now, !.starts = st, !.done = TRUE]
    BY DEF ConvertDone, Conversion, ConvTyped
  <1>2. words \in Seq(Int)
    BY <1>1 DEF Conversion, Progress, Array
  <1>3. FinishInstr \in Seq(Int) /\ Len(FinishInstr) <= 2
    <2>1. Code["FINI"] \in Int
      BY Coded, TokensListed
    <2>2. /\ <<0, Code["FINI"]>> \in Seq(Int) /\ Len(<<0, Code["FINI"]>>) = 2
          /\ <<Code["FINI"]>> \in Seq(Int) /\ Len(<<Code["FINI"]>>) = 1
      BY <2>1
    <2>3. FinishInstr = <<0, Code["FINI"]>> \/ FinishInstr = <<Code["FINI"]>>
      BY DEF FinishInstr
    <2> DEFINE two == <<0, Code["FINI"]>>
               one == <<Code["FINI"]>>
    <2>4. two \in Seq(Int) /\ Len(two) <= 2 /\ one \in Seq(Int) /\ Len(one) <= 2
      BY <2>2
    <2>5. FinishInstr = two \/ FinishInstr = one
      BY <2>3
    <2> HIDE DEF two, one
    <2>6. QED BY <2>4, <2>5
  <1>4. DOMAIN conv = ConvFields
    BY DEF Conversion, ConvTyped
  <1>5. Len(now) = Len(words) + Len(FinishInstr) /\ Len(words) \in Nat /\ Len(FinishInstr) \in Nat
    BY <1>2, <1>3, Appended
  <1>6. PICK s \in Nat : (Len(words) + s) + 2 <= conv.size
    BY <1>1 DEF Room
  <1> HIDE DEF now, st, words
  <1>7. conv'.progarray = now /\ conv'.done = TRUE /\ conv'.size = conv.size
    BY <1>1, <1>4 DEF ConvFields
  <1>8. Len(now) <= conv.size
    <2>1. conv.size \in Nat
      BY DEF Conversion, ConvTyped
    <2>2. QED BY <1>3, <1>5, <1>6, <2>1
  <1>9. QED BY <1>1, <1>7, <1>8 DEF Room

\* At first all the words counted are left.
LEMMA InitRoom ==
  ASSUME NEW r, conv.done = FALSE, conv.progarray = <<>>, conv.size = arraylen(tree) + 2
  PROVE  Room(r)
  <1>1. PICK s \in Nat : Sums(tree, Rest(tree, r, conv.n), s) /\ s <= arraylen(tree)
    BY ArraylenSum, SumFewer DEF Rest
  <1>2. (Len(conv.progarray) + s) + 2 <= conv.size
    <2>1. Len(conv.progarray) = 0
      OBVIOUS
    <2>2. arraylen(tree) \in Nat
      BY ArraylenSum
    <2>3. QED BY <1>1, <2>1, <2>2
  <1>3. QED BY <1>1, <1>2 DEF Room

\* At first nothing is written.
LEMMA InitPlaced == Init => IInv
  <1> SUFFICES ASSUME Init PROVE IInv
    OBVIOUS
  <1>1. tree \in Tree /\ BracketsPaired(tree) /\ Complete(tree) /\ Nested(tree)
    BY DEF Init, Convertible, WellFormed
  <1>2. PICK r : Places(tree, r) /\ NestedBy(tree, r)
    BY <1>1, CompletePlaces
  <1>3. InOrder(tree, r)
    BY <1>1, <1>2 DEF InOrder
  <1>4. /\ DOMAIN conv = ConvFields /\ conv.n = tree.next[Null] /\ conv.last_offset = 0
        /\ conv.progarray = <<>> /\ conv.done = FALSE /\ conv.starts = {}
        /\ conv.size = arraylen(tree) + 2
    BY DEF Init, StartConverting, ConvFields
  <1>5. conv.n = Null \/ Live(tree, conv.n)
    BY <1>2, <1>4 DEF Places
  <1>6. Waiting(tree, r, conv.n) = {}
    <2>1. SUFFICES ASSUME NEW x \in NodeId, tree.node[x].type \in Closers,
                          Ahead(tree, r, conv.n, x)
                   PROVE  Ahead(tree, r, conv.n, tree.node[x].jmp)
      BY DEF Waiting
    <2>2. tree.node[x].jmp \in NodeId /\ tree.node[tree.node[x].jmp].type \in Openers
      BY <1>1, <1>3, <2>1, Partners
    <2>3. Live(tree, tree.node[x].jmp)
      BY <1>1, <1>3, <2>2, Partners DEF Bracket
    <2>4. r[conv.n] <= r[tree.node[x].jmp]
      BY <1>2, <1>4, <2>2, <2>3 DEF Places
    <2>5. QED BY <2>1, <2>3, <2>4 DEF Ahead
  <1>7. Pending(tree, r, conv.n) = {}
    BY <1>6 DEF Pending
  <1>8. Len(conv.progarray) = 0 /\ conv.progarray \in Seq(Int)
    BY <1>4
  <1>9. Starting = {0}
    BY <1>4, <1>8 DEF Starting
  <1>10. Array(conv.progarray, conv.starts, Starting, {})
    BY <1>4, <1>8 DEF Array
  <1>11. Progress(r)
    BY <1>4, <1>7, <1>10 DEF Progress
  <1>12. IsMachine(vm) /\ vm.n = 0
    <2>1. PICK stdin : vm = Machine(stdin)
      BY DEF Init
    <2>2. QED BY <2>1 DEF Machine, IsMachine, Fields
  <1>13. ConvTyped /\ MachinePlaced
    <2>1. conv.last_offset \in Int /\ conv.size \in Nat /\ conv.done \in BOOLEAN
      <3>1. conv.last_offset \in Int /\ conv.size \in Nat
        BY <1>4, ArraylenSum
      <3>2. conv.done \in BOOLEAN
        BY <1>4, Zenon
      <3>3. QED BY <3>1, <3>2
    <2>2. ConvTyped
      BY <2>1, <1>4, <1>5 DEF ConvTyped
    <2>3. 0 \in Starting
      BY <1>9
    <2>4. QED BY <2>2, <2>3, <1>4, <1>12 DEF MachinePlaced
  <1>14. Room(r)
    BY <1>4, InitRoom
  <1>15. QED BY <1>1, <1>3, <1>11, <1>13, <1>14 DEF Conversion, IInv

\* Each step of the conversion and of the loops keeps the invariant.
LEMMA NextPlaced == IInv /\ [Next]_vars => IInv'
  <1> SUFFICES ASSUME IInv, [Next]_vars PROVE IInv'
    OBVIOUS
  <1>1. PICK r : Conversion(r) /\ Room(r)
    BY DEF IInv
  <1>2. ASSUME ConvertMov \/ ConvertCommand \/ ConvertRail \/ ConvertOpen
               \/ ConvertEnd \/ ConvertEndIf
        PROVE  Going_on(r)
    <2>1. ~conv.done /\ conv.n # Null
      BY <1>2 DEF ConvertMov, ConvertCommand, ConvertRail, ConvertOpen, ConvertEnd,
                  ConvertEndIf, Converting
    <2>2. conv.n \in NodeId
      BY <1>1, <2>1 DEF Conversion, ConvTyped, Live
    <2>3. QED BY <1>1, <2>1, <2>2 DEF Going_on
  <1>3. CASE ConvertMov
    BY <1>1, <1>2, <1>3, ConvertMovKeeps, ConvertMovRoom DEF IInv
  <1>4. CASE ConvertCommand
    BY <1>1, <1>2, <1>4, ConvertCommandKeeps, ConvertCommandRoom DEF IInv
  <1>5. CASE ConvertRail
    BY <1>1, <1>2, <1>5, ConvertRailKeeps, ConvertRailRoom DEF IInv
  <1>6. CASE ConvertOpen
    BY <1>1, <1>2, <1>6, ConvertOpenKeeps, ConvertOpenRoom DEF IInv
  <1>7. CASE ConvertEnd
    BY <1>1, <1>2, <1>7, ConvertEndKeeps, ConvertEndRoom DEF IInv
  <1>8. CASE ConvertEndIf
    BY <1>1, <1>2, <1>8, ConvertEndIfKeeps, ConvertEndIfRoom DEF IInv
  <1>9. CASE ConvertDone
    BY <1>1, <1>9, ConvertDoneKeeps, ConvertDoneRoom DEF IInv
  <1>10. CASE (merge_mov /\ Turn) \/ (~merge_mov /\ GmpTurn)
    <2>1. conv.done /\ UNCHANGED <<tree, conv>>
      BY <1>10 DEF Turn, GmpTurn
    <2>2. Room(r)'
      BY <1>1, <2>1 DEF Room
    <2>3. QED BY <1>1, <1>10, <2>2, TurnKeeps DEF IInv
  <1>11. CASE UNCHANGED vars
    <2>1. tree' = tree /\ conv' = conv /\ vm' = vm
      BY <1>11 DEF vars
    <2>2. Conversion(r)'
      BY <1>1, <2>1 DEF Conversion, ConvTyped, Progress, MachinePlaced, Starting
    <2>3. Room(r)'
      BY <1>1, <2>1 DEF Room
    <2>4. QED BY <2>2, <2>3 DEF IInv
  <1>12. QED
    BY <1>3, <1>4, <1>5, <1>6, <1>7, <1>8, <1>9, <1>10, <1>11 DEF Next, Convert

\* The array is sound while it grows, when its jumps are patched in and when it
\* is run, whatever the tree, the widths and the input.
THEOREM Placing == Spec => []IInv
  BY InitPlaced, NextPlaced, PTL DEF Spec

\* Neither loop ever takes an operand for an instruction, or runs out of the
\* array, and no word is written behind the memory that was allocated for it: p
\* is at the beginning of an instruction in every turn, and the array is never
\* longer than what the first loop of the conversion counted.
THEOREM AlwaysLands == Spec => []JumpsLand
  <1>1. IInv => JumpsLand
    <2> SUFFICES ASSUME IInv PROVE JumpsLand
      OBVIOUS
    <2>1. PICK r : Conversion(r) /\ Room(r)
      BY DEF IInv
    <2>2. Landing
      BY <2>1 DEF Conversion, MachinePlaced, Landing
    <2>3. LongEnough
      <3>1. CASE conv.done
        BY <2>1, <3>1 DEF Room, LongEnough
      <3>2. CASE ~conv.done
        <4>1. PICK s \in Nat : (Len(conv.progarray) + s) + 2 <= conv.size
          BY <2>1, <3>2 DEF Room
        <4>2. conv.progarray \in Seq(Int) /\ conv.size \in Nat
          BY <2>1, <3>2 DEF Conversion, ConvTyped, Progress, Array
        <4>3. Len(conv.progarray) \in Nat
          BY <4>2
        <4>4. QED BY <4>1, <4>2, <4>3 DEF LongEnough
      <3>3. QED BY <3>1, <3>2
    <2>4. QED BY <2>2, <2>3 DEF JumpsLand
  <1>2. QED BY <1>1, Placing, PTL
=============================================================================
