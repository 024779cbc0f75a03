---------------------------- MODULE RunTreeProofs ---------------------------
(***************************************************************************)
(* Lemmas about runs of the tree interpreter, for the proofs that a pass   *)
(* of the optimiser keeps the meaning of a program: a run turn by turn,    *)
(* and two machines side by side, whose pointers differ and which carry    *)
(* out instructions whose offsets differ by as much.                       *)
(*                                                                         *)
(* A run is looked at command by command too: the movements between two    *)
(* commands are taken together, and trees are Alike if what lies between   *)
(* the commands they share moves the pointer as the commands' offsets say. *)
(***************************************************************************)
EXTENDS RunTree, BFTreeProofs

USE Ids

(***************************************************************************)
(* Runs, turn by turn.                                                     *)
(***************************************************************************)

\* One turn, one movement, or one command and the movements behind it.
Went(by, t, m) ==
  IF by = "turn" THEN Turn(t, m)
  ELSE IF by = "movement" THEN Movement(t, m)
  ELSE Moved(t, Turn(t, m))

\* f[i] is the machine m after i of them.
IsRun(f, by, t, m, k) ==
  f = [i \in 0 .. k |-> IF i = 0 THEN m ELSE Went(by, t, f[i - 1])]

\* There is such a run, however long,
LEMMA RunExists ==
  ASSUME NEW by, NEW t, NEW m, NEW k \in Nat
  PROVE  \E f : IsRun(f, by, t, m, k)
  <1> DEFINE T == {j \in Nat : \E f : IsRun(f, by, t, m, j)}
  <1>1. 0 \in T
    <2>1. IsRun([i \in 0 .. 0 |-> m], by, t, m, 0)
      BY DEF IsRun
    <2>2. QED BY <2>1
  <1>2. ASSUME NEW j \in Nat, j \in T PROVE j + 1 \in T
    <2>1. PICK f : IsRun(f, by, t, m, j)
      BY <1>2
    <2> DEFINE g == [i \in 0 .. j + 1 |-> IF i = j + 1 THEN Went(by, t, f[j]) ELSE f[i]]
    <2>2. \A i \in 0 .. j : g[i] = f[i] /\ f[i] = IF i = 0 THEN m ELSE Went(by, t, f[i - 1])
      BY <2>1 DEF IsRun
    <2>3. g[j + 1] = Went(by, t, g[j])
      BY <2>2
    <2>4. ASSUME NEW i \in 0 .. j + 1
          PROVE  g[i] = IF i = 0 THEN m ELSE Went(by, t, g[i - 1])
      <3> HIDE DEF g
      <3>1. CASE i = j + 1
        BY <3>1, <2>3
      <3>2. CASE i # j + 1
        <4>1. i \in 0 .. j /\ (i # 0 => i - 1 \in 0 .. j)
          BY <3>2
        <4>2. QED BY <4>1, <2>2
      <3>3. QED BY <3>1, <3>2
    <2> HIDE DEF g
    <2>5. g = [i \in 0 .. j + 1 |-> IF i = 0 THEN m ELSE Went(by, t, g[i - 1])]
      <3>1. g = [i \in 0 .. j + 1 |-> g[i]]
        BY DEF g
      <3>2. QED BY <3>1, <2>4
    <2>6. QED BY <2>5 DEF IsRun
  <1> HIDE DEF T
  <1>3. k \in T
    BY <1>1, <1>2, Induction
  <1>4. QED BY <1>3 DEF T

\* and a longer one begins like a shorter one.
LEMMA RunsAgree ==
  ASSUME NEW by, NEW t, NEW m, NEW k \in Nat, NEW l \in Nat, k <= l,
         NEW f, IsRun(f, by, t, m, k), NEW g, IsRun(g, by, t, m, l)
  PROVE  f[k] = g[k]
  <1> DEFINE T == {i \in Nat : i <= k => f[i] = g[i]}
  <1>1. /\ \A i \in 0 .. k : f[i] = IF i = 0 THEN m ELSE Went(by, t, f[i - 1])
        /\ \A i \in 0 .. l : g[i] = IF i = 0 THEN m ELSE Went(by, t, g[i - 1])
    BY DEF IsRun
  <1>2. 0 \in T
    BY <1>1
  <1>3. ASSUME NEW i \in Nat, i \in T PROVE i + 1 \in T
    <2>1. SUFFICES ASSUME i + 1 <= k PROVE f[i + 1] = g[i + 1]
      OBVIOUS
    <2>2. i + 1 \in 0 .. k /\ i + 1 \in 0 .. l /\ i + 1 # 0 /\ (i + 1) - 1 = i
      BY <2>1
    <2>3. f[i + 1] = Went(by, t, f[i]) /\ g[i + 1] = Went(by, t, g[i])
      BY <1>1, <2>2
    <2>4. f[i] = g[i]
      BY <1>3, <2>1
    <2>5. QED BY <2>3, <2>4
  <1> HIDE DEF T
  <1>4. k \in T
    BY <1>2, <1>3, Induction
  <1>5. QED BY <1>4 DEF T

\* What Turns says is where such a run comes to.
LEMMA TurnsAreRun ==
  ASSUME NEW t, NEW m, NEW k \in Nat
  PROVE  \E f : IsRun(f, "turn", t, m, k) /\ Turns(t, m, k) = f[k]
  <1> DEFINE Is(f) == f = [i \in 0 .. k |-> IF i = 0 THEN m ELSE Turn(t, f[i - 1])]
             it == CHOOSE f : Is(f)
  <1>1. Turns(t, m, k) = it[k]
    BY DEF Turns
  <1>2. \A f : Is(f) <=> IsRun(f, "turn", t, m, k)
    BY DEF IsRun, Went
  <1> HIDE DEF Is
  <1>3. \E f : Is(f)
    BY <1>2, RunExists
  <1>4. Is(it)
    BY <1>3
  <1> HIDE DEF it
  <1>5. QED BY <1>1, <1>2, <1>4

\* At first nothing has been run, and a turn more is one turn.
LEMMA TurnsGoOn ==
  ASSUME NEW t, NEW m, NEW k \in Nat
  PROVE  /\ Turns(t, m, 0) = m
         /\ Turns(t, m, k + 1) = Turn(t, Turns(t, m, k))
  <1>1. PICK f0 : IsRun(f0, "turn", t, m, 0) /\ Turns(t, m, 0) = f0[0]
    BY TurnsAreRun
  <1>2. PICK f : IsRun(f, "turn", t, m, k) /\ Turns(t, m, k) = f[k]
    BY TurnsAreRun
  <1>3. k + 1 \in Nat /\ k <= k + 1
    OBVIOUS
  <1>4. PICK g : IsRun(g, "turn", t, m, k + 1) /\ Turns(t, m, k + 1) = g[k + 1]
    BY <1>3, TurnsAreRun
  <1>5. f[k] = g[k]
    BY <1>2, <1>3, <1>4, RunsAgree
  <1>6. g[k + 1] = Turn(t, g[k])
    BY <1>4 DEF IsRun, Went
  <1>7. f0[0] = m
    BY <1>1 DEF IsRun
  <1>8. QED BY <1>1, <1>2, <1>4, <1>5, <1>6, <1>7


\* A machine that has stopped stays as it is.
LEMMA StaysStopped ==
  ASSUME NEW t, NEW m, NEW k \in Nat, NEW l \in Nat, k <= l, Turns(t, m, k).status # "run"
  PROVE  Turns(t, m, l) = Turns(t, m, k)
  <1> DEFINE T == {i \in Nat : k <= i => Turns(t, m, i) = Turns(t, m, k)}
  <1>1. 0 \in T
    <2>1. k <= 0 => k = 0
      OBVIOUS
    <2>2. QED BY <2>1
  <1>2. ASSUME NEW i \in Nat, i \in T PROVE i + 1 \in T
    <2>1. CASE k <= i
      <3>1. Turns(t, m, i) = Turns(t, m, k)
        BY <1>2, <2>1
      <3>2. Turns(t, m, i + 1) = Turn(t, Turns(t, m, i))
        BY TurnsGoOn
      <3>3. Turns(t, m, i + 1) = Turns(t, m, k)
        BY <3>1, <3>2 DEF Turn
      <3>4. QED BY <3>3
    <2>2. CASE ~(k <= i)
      <3>1. k <= i + 1 => k = i + 1
        BY <2>2
      <3>2. QED BY <3>1
    <2>3. QED BY <2>1, <2>2
  <1> HIDE DEF T
  <1>3. l \in T
    BY <1>1, <1>2, Induction
  <1>4. QED BY <1>3 DEF T

(***************************************************************************)
(* Two machines that differ in the pointer.                                *)
(***************************************************************************)
Fields == {"n", "p", "tape", "string", "stdin", "io", "status"}

IsTape(tape) == \A a \in DOMAIN tape : tape[a] \in Int

IsVm(m) ==
  /\ DOMAIN m = Fields
  /\ m.p \in Int /\ IsTape(m.tape)
  /\ m.stdin \in Seq(Int) /\ m.string \in [on : BOOLEAN, left : Seq(Int)]

\* b is a with the pointer d further on.
Beside(a, b, d) ==
  /\ IsVm(a) /\ IsVm(b) /\ d \in Int
  /\ b.p = a.p + d
  /\ b.tape = a.tape /\ b.string = a.string /\ b.stdin = a.stdin
  /\ b.io = a.io /\ b.n = a.n /\ b.status = a.status

\* Nothing is jumped over and nothing stops.
InPlace(m, m2) == m2.n = m.n /\ m2.status = m.status

\* A cut value is a number.
LEMMA CutIsInt ==
  ASSUME NEW v \in Int
  PROVE  UM(v) \in Nat
  BY CellBitsAssumption DEF UM

\* A cell holds a number, touched or not.
LEMMA CellIsInt ==
  ASSUME NEW tape, IsTape(tape), NEW a
  PROVE  Cell(tape, a) \in Int
  BY DEF Cell, IsTape

\* A write leaves a tape.
LEMMA StoreIsTape ==
  ASSUME NEW tape, IsTape(tape), NEW a, NEW v \in Int
  PROVE  IsTape(Store(tape, a, v))
  BY DEF Store, IsTape

\* Both look at the same cell,
LEMMA FetchBeside ==
  ASSUME NEW a, NEW b, NEW d, Beside(a, b, d), NEW o \in Int, NEW o2 \in Int, o2 = o - d
  PROVE  Fetch(b, o2) = Fetch(a, o) /\ Fetch(a, o) \in Int
  <1>1. a.p \in Int /\ d \in Int /\ b.p + o2 = a.p + o /\ IsTape(a.tape) /\ b.tape = a.tape
    BY DEF Beside, IsVm
  <1>2. QED BY <1>1, CellIsInt DEF Fetch

\* A write changes the tape only.
LEMMA PutIsVm ==
  ASSUME NEW m, IsVm(m), NEW o, NEW v \in Int
  PROVE  LET m2 == Put(m, o, v) IN
         /\ IsVm(m2) /\ InPlace(m, m2) /\ m2.tape = Store(m.tape, m.p + o, v)
         /\ m2.p = m.p /\ m2.string = m.string /\ m2.stdin = m.stdin /\ m2.io = m.io
  <1> DEFINE tape == Store(m.tape, m.p + o, v)
             m2 == [m EXCEPT !.tape = tape]
  <1>1. IsTape(tape)
    BY StoreIsTape DEF IsVm
  <1>2. Put(m, o, v) = m2
    BY DEF Put
  <1> HIDE DEF tape
  <1>3. /\ DOMAIN m2 = Fields /\ InPlace(m, m2) /\ m2.tape = tape
        /\ m2.p = m.p /\ m2.string = m.string /\ m2.stdin = m.stdin /\ m2.io = m.io
    BY DEF IsVm, Fields, InPlace
  <1> HIDE DEF m2
  <1>4. IsVm(m2)
    BY <1>1, <1>3 DEF IsVm
  <1>5. QED BY <1>2, <1>3, <1>4 DEF tape

\* both write it in the same way,
LEMMA PutBeside ==
  ASSUME NEW a, NEW b, NEW d, Beside(a, b, d), NEW o \in Int, NEW o2 \in Int, o2 = o - d,
         NEW v \in Int
  PROVE  Beside(Put(a, o, v), Put(b, o2, v), d) /\ InPlace(a, Put(a, o, v))
  <1>1. a.p \in Int /\ d \in Int /\ b.p + o2 = a.p + o /\ IsVm(a) /\ IsVm(b)
    BY DEF Beside, IsVm
  <1> DEFINE a2 == Put(a, o, v)
             b2 == Put(b, o2, v)
  <1>2. /\ IsVm(a2) /\ InPlace(a, a2) /\ a2.tape = Store(a.tape, a.p + o, v)
        /\ a2.p = a.p /\ a2.string = a.string /\ a2.stdin = a.stdin /\ a2.io = a.io
    BY <1>1, PutIsVm
  <1>3. /\ IsVm(b2) /\ InPlace(b, b2) /\ b2.tape = Store(b.tape, b.p + o2, v)
        /\ b2.p = b.p /\ b2.string = b.string /\ b2.stdin = b.stdin /\ b2.io = b.io
    BY <1>1, PutIsVm
  <1> HIDE DEF a2, b2
  <1>4. b2.tape = a2.tape
    BY <1>1, <1>2, <1>3 DEF Beside
  <1>5. QED BY <1>2, <1>3, <1>4 DEF Beside, InPlace, a2, b2

\* both report the same,
LEMMA EventBeside ==
  ASSUME NEW a, NEW b, NEW d, Beside(a, b, d), NEW ev, NEW v
  PROVE  Beside(Event(a, ev, v), Event(b, ev, v), d) /\ InPlace(a, Event(a, ev, v))
  BY DEF Event, Beside, IsVm, Fields, InPlace

\* and both stop.
LEMMA HaltedBeside ==
  ASSUME NEW a, NEW b, NEW d, Beside(a, b, d), NEW how
  PROVE  /\ Beside(Halted(a, how), Halted(b, how), d)
         /\ Halted(a, how).status = how
  BY DEF Halted, Beside, IsVm, Fields

\* What is left to read is a sequence of numbers.
LEMMA InputIsSeq ==
  ASSUME NEW s \in Seq(Int)
  PROVE  WithoutCR(s) \in Seq(Int)
  <1> DEFINE kept == {i \in DOMAIN s : iostyle \in {1, 2} => s[i] # CR}
             first == CHOOSE i \in kept : \A j \in kept : i <= j
  <1>1. kept \subseteq 1 .. Len(s) /\ Len(s) \in Nat
    OBVIOUS
  <1>2. CASE kept = {}
    BY <1>2 DEF WithoutCR
  <1>3. CASE kept # {}
    <2>1. \E i \in kept : \A j \in kept : i <= j
      <3>1. kept \subseteq Nat
        BY <1>1
      <3> HIDE DEF kept
      <3>2. PICK i \in kept : \A j \in kept : ~(j < i)
        BY <1>3, <3>1, Least
      <3>3. \A j \in kept : i <= j
        BY <3>1, <3>2
      <3>4. QED BY <3>3
    <2>2. WithoutCR(s) = SubSeq(s, first, Len(s))
      BY <1>3 DEF WithoutCR
    <2> HIDE DEF kept
    <2>3. first \in kept
      BY <2>1
    <2> HIDE DEF first
    <2>4. first \in 1 .. Len(s)
      BY <1>1, <2>3
    <2>5. QED BY <2>2, <2>4
  <1>4. QED BY <1>2, <1>3

\* Nothing is jumped over, or the machine stops in the middle of the program.
Goes(m, m2) == InPlace(m, m2) \/ m2.status \notin {"run", "done"}

\* Both take the same from the input.
LEMMA ReadBeside ==
  ASSUME NEW a, NEW b, NEW d, Beside(a, b, d)
  PROVE  /\ \A s \in Seq(Int) :
              /\ Beside([a EXCEPT !.stdin = s], [b EXCEPT !.stdin = s], d)
              /\ InPlace(a, [a EXCEPT !.stdin = s])
         /\ \A s \in [on : BOOLEAN, left : Seq(Int)] :
              /\ Beside([a EXCEPT !.string = s], [b EXCEPT !.string = s], d)
              /\ InPlace(a, [a EXCEPT !.string = s])
  BY DEF Beside, IsVm, Fields, InPlace

\* A read at the end of the input.
LEMMA AtEofBeside ==
  ASSUME NEW a, NEW b, NEW d, Beside(a, b, d), NEW o \in Int, NEW o2 \in Int, o2 = o - d,
         NEW old \in Int
  PROVE  Beside(AtEof(a, old, o), AtEof(b, old, o2), d) /\ Goes(a, AtEof(a, old, o))
  <1>1. CASE eofcell = 7
    <2>1. AtEof(a, old, o) = Halted(a, "exit") /\ AtEof(b, old, o2) = Halted(b, "exit")
      BY <1>1 DEF AtEof
    <2>2. QED BY <2>1, HaltedBeside DEF Goes
  <1>2. CASE eofcell # 7
    <2>1. PICK v \in Int : AtEof(a, old, o) = Put(a, o, v) /\ AtEof(b, old, o2) = Put(b, o2, v)
      <3>1. CASE eofcell \in {2, 4}
        BY <3>1 DEF AtEof
      <3>2. CASE eofcell = 3
        BY <3>2 DEF AtEof
      <3>3. CASE eofcell \notin {2, 3, 4}
        BY <1>2, <3>3 DEF AtEof
      <3>4. QED BY <3>1, <3>2, <3>3
    <2>2. QED BY <2>1, PutBeside DEF Goes
  <1>3. QED BY <1>1, <1>2

\* Two things done in place are done in place.
LEMMA InPlaceTwice ==
  ASSUME NEW a, NEW b, NEW c, InPlace(a, b), InPlace(b, c) \/ Goes(b, c)
  PROVE  Goes(a, c) /\ (InPlace(b, c) => InPlace(a, c))
  BY DEF InPlace, Goes

\* A character, from the -I string or from stdin.
LEMMA GetchBeside ==
  ASSUME NEW a, NEW b, NEW d, Beside(a, b, d), NEW o \in Int, NEW o2 \in Int, o2 = o - d
  PROVE  Beside(Getch(a, o), Getch(b, o2), d) /\ Goes(a, Getch(a, o))
  <1> DEFINE old == Fetch(a, o)
             s   == WithoutCR(a.stdin)
             str == a.string
  <1>1. /\ Fetch(b, o2) = old /\ old \in Int
        /\ b.stdin = a.stdin /\ b.string = str
        /\ s \in Seq(Int) /\ str \in [on : BOOLEAN, left : Seq(Int)]
    <2>1. Fetch(b, o2) = old /\ old \in Int
      BY FetchBeside
    <2>2. b.stdin = a.stdin /\ b.string = str /\ a.stdin \in Seq(Int)
          /\ str \in [on : BOOLEAN, left : Seq(Int)]
      BY DEF Beside, IsVm
    <2>3. s \in Seq(Int)
      BY <2>2, InputIsSeq
    <2> HIDE DEF old, s, str
    <2>4. QED BY <2>1, <2>2, <2>3
  <1> HIDE DEF old, s, str
  <1>2. CASE str.on /\ str.left = <<>>
    <2> DEFINE k  == [str EXCEPT !.on = FALSE]
               a1 == [a EXCEPT !.string = k]
               b1 == [b EXCEPT !.string = k]
               a2 == Event(a1, "eof", 0)
               b2 == Event(b1, "eof", 0)
    <2>1. k \in [on : BOOLEAN, left : Seq(Int)]
      BY <1>1
    <2>2. a1 = [a EXCEPT !.string.on = FALSE] /\ b1 = [b EXCEPT !.string.on = FALSE]
      BY <1>1 DEF str, Beside, IsVm, Fields
    <2>3. Getch(a, o) = AtEof(Event([a EXCEPT !.string.on = FALSE], "eof", 0), old, o)
          /\ Getch(b, o2) = AtEof(Event([b EXCEPT !.string.on = FALSE], "eof", 0), old, o2)
      BY <1>1, <1>2 DEF Getch, str, old
    <2> HIDE DEF k
    <2>4. Beside(a1, b1, d) /\ InPlace(a, a1)
      BY <2>1, ReadBeside
    <2>5. Beside(a2, b2, d) /\ InPlace(a1, a2)
      BY <2>4, EventBeside
    <2>6. Getch(a, o) = AtEof(a2, old, o) /\ Getch(b, o2) = AtEof(b2, old, o2)
      BY <2>2, <2>3
    <2> HIDE DEF a1, a2, b1, b2
    <2>7. Beside(Getch(a, o), Getch(b, o2), d) /\ Goes(a2, Getch(a, o))
      BY <1>1, <2>5, <2>6, AtEofBeside
    <2>8. InPlace(a, a2)
      BY <2>4, <2>5, InPlaceTwice
    <2>9. QED BY <2>7, <2>8, InPlaceTwice
  <1>3. CASE str.on /\ str.left # <<>>
    <2> DEFINE k  == [str EXCEPT !.left = Tail(@)]
               ch == Head(str.left)
               a1 == [a EXCEPT !.string = k]
               b1 == [b EXCEPT !.string = k]
               a2 == Event(a1, "in", ch)
               b2 == Event(b1, "in", ch)
    <2>1. k \in [on : BOOLEAN, left : Seq(Int)] /\ ch \in Int
      <3>1. str.left \in Seq(Int) /\ str.on \in BOOLEAN
        BY <1>1
      <3>2. Tail(str.left) \in Seq(Int) /\ ch \in Int
        BY <1>3, <3>1
      <3> DEFINE tl == Tail(str.left)
      <3>3. k = [on |-> str.on, left |-> tl]
        <4>1. str = [on |-> str.on, left |-> str.left]
          BY <1>1
        <4>2. k = [str EXCEPT !.left = tl]
          OBVIOUS
        <4> HIDE DEF tl, k
        <4>3. QED BY <4>1, <4>2
      <3> HIDE DEF k
      <3>4. QED BY <3>1, <3>2, <3>3
    <2>2. a1 = [a EXCEPT !.string.left = Tail(@)] /\ b1 = [b EXCEPT !.string.left = Tail(@)]
      BY <1>1 DEF str, Beside, IsVm, Fields
    <2>3. /\ Getch(a, o) = Put(Event([a EXCEPT !.string.left = Tail(@)], "in", ch), o, ch)
          /\ Getch(b, o2) = Put(Event([b EXCEPT !.string.left = Tail(@)], "in", ch), o2, ch)
      BY <1>1, <1>3 DEF Getch, str
    <2> HIDE DEF k, ch
    <2>4. Beside(a1, b1, d) /\ InPlace(a, a1)
      BY <2>1, ReadBeside
    <2>5. Beside(a2, b2, d) /\ InPlace(a1, a2)
      BY <2>4, EventBeside
    <2>6. Getch(a, o) = Put(a2, o, ch) /\ Getch(b, o2) = Put(b2, o2, ch)
      BY <2>2, <2>3
    <2> HIDE DEF a1, a2, b1, b2
    <2>7. Beside(Getch(a, o), Getch(b, o2), d) /\ InPlace(a2, Getch(a, o))
      BY <2>1, <2>5, <2>6, PutBeside
    <2>8. InPlace(a, a2)
      BY <2>4, <2>5, InPlaceTwice
    <2>9. QED BY <2>7, <2>8, InPlaceTwice
  <1>4. CASE ~str.on /\ s = <<>>
    <2> DEFINE a1 == [a EXCEPT !.stdin = s]
               b1 == [b EXCEPT !.stdin = s]
               a2 == Event(a1, "eof", 0)
               b2 == Event(b1, "eof", 0)
    <2>1. Getch(a, o) = AtEof(a2, old, o) /\ Getch(b, o2) = AtEof(b2, old, o2)
      BY <1>1, <1>4 DEF Getch, str, s, old
    <2>2. Beside(a1, b1, d) /\ InPlace(a, a1)
      BY <1>1, ReadBeside
    <2>3. Beside(a2, b2, d) /\ InPlace(a1, a2)
      BY <2>2, EventBeside
    <2> HIDE DEF a1, a2, b1, b2
    <2>4. Beside(Getch(a, o), Getch(b, o2), d) /\ Goes(a2, Getch(a, o))
      BY <1>1, <2>1, <2>3, AtEofBeside
    <2>5. InPlace(a, a2)
      BY <2>2, <2>3, InPlaceTwice
    <2>6. QED BY <2>4, <2>5, InPlaceTwice
  <1>5. CASE ~str.on /\ s # <<>>
    <2> DEFINE tl == Tail(s)
               ch == Head(s)
               a1 == [a EXCEPT !.stdin = tl]
               b1 == [b EXCEPT !.stdin = tl]
               a2 == Event(a1, "in", ch)
               b2 == Event(b1, "in", ch)
    <2>1. tl \in Seq(Int) /\ ch \in Int
      BY <1>1, <1>5
    <2>2. Getch(a, o) = Put(a2, o, ch) /\ Getch(b, o2) = Put(b2, o2, ch)
      BY <1>1, <1>5 DEF Getch, str, s
    <2> HIDE DEF tl, ch
    <2>3. Beside(a1, b1, d) /\ InPlace(a, a1)
      BY <2>1, ReadBeside
    <2>4. Beside(a2, b2, d) /\ InPlace(a1, a2)
      BY <2>3, EventBeside
    <2> HIDE DEF a1, a2, b1, b2
    <2>5. Beside(Getch(a, o), Getch(b, o2), d) /\ InPlace(a2, Getch(a, o))
      BY <2>1, <2>2, <2>4, PutBeside
    <2>6. InPlace(a, a2)
      BY <2>3, <2>4, InPlaceTwice
    <2>7. QED BY <2>5, <2>6, InPlaceTwice
  <1>6. QED BY <1>1, <1>2, <1>3, <1>4, <1>5

\* A number.
LEMMA GetintBeside ==
  ASSUME NEW a, NEW b, NEW d, Beside(a, b, d), NEW o \in Int, NEW o2 \in Int, o2 = o - d
  PROVE  Beside(Getint(a, o), Getint(b, o2), d) /\ Goes(a, Getint(a, o))
  <1>1. a.stdin \in Seq(Int) /\ b.stdin = a.stdin
    BY DEF Beside, IsVm
  <1>2. CASE a.stdin = <<>>
    <2>1. Getint(a, o) = Event(a, "eof", 0) /\ Getint(b, o2) = Event(b, "eof", 0)
      BY <1>1, <1>2 DEF Getint
    <2>2. QED BY <2>1, EventBeside DEF Goes
  <1>3. CASE a.stdin # <<>>
    <2> DEFINE tl == Tail(a.stdin)
               ch == Head(a.stdin)
               v  == UM(ch)
               a1 == [a EXCEPT !.stdin = tl]
               b1 == [b EXCEPT !.stdin = tl]
               a2 == Event(a1, "in", ch)
               b2 == Event(b1, "in", ch)
    <2>1. tl \in Seq(Int) /\ ch \in Int
      BY <1>1, <1>3
    <2>2. Getint(a, o) = Put(a2, o, v) /\ Getint(b, o2) = Put(b2, o2, v)
      <3>1. Getint(a, o) = Put(Event([a EXCEPT !.stdin = Tail(a.stdin)], "in", ch), o, v)
        BY <1>3 DEF Getint
      <3>2. Getint(b, o2) = Put(Event([b EXCEPT !.stdin = Tail(a.stdin)], "in", ch), o2, v)
        BY <1>1, <1>3 DEF Getint
      <3>3. QED BY <3>1, <3>2
    <2>3. v \in Int
      <3> HIDE DEF ch
      <3>1. v \in Nat
        BY <2>1, CutIsInt
      <3> HIDE DEF v
      <3>2. QED BY <3>1
    <2> HIDE DEF tl, ch, v
    <2>4. Beside(a1, b1, d) /\ InPlace(a, a1)
      BY <2>1, ReadBeside
    <2>5. Beside(a2, b2, d) /\ InPlace(a1, a2)
      BY <2>4, EventBeside
    <2> HIDE DEF a1, a2, b1, b2
    <2>6. Beside(Getint(a, o), Getint(b, o2), d) /\ InPlace(a2, Getint(a, o))
      BY <2>2, <2>3, <2>5, PutBeside
    <2>7. InPlace(a, a2)
      BY <2>4, <2>5, InPlaceTwice
    <2>8. QED BY <2>6, <2>7, InPlaceTwice
  <1>4. QED BY <1>2, <1>3


(***************************************************************************)
(* One instruction and its shifted twin, carried out on such two machines. *)
(***************************************************************************)

\* What each instruction does to the machine.
LEMMA ExecMoves ==
  ASSUME NEW t, NEW m, NEW nd, nd = t.node[m.n], nd.type = "MOV"
  PROVE  Exec(t, m) = [m EXCEPT !.p = @ + nd.count]
  BY DEF Exec, NodeOf, Openers

\* Those that write one cell, for each its value.
LEMMA ExecWrites ==
  ASSUME NEW t, NEW m, NEW nd, nd = t.node[m.n]
  PROVE  LET B == Fetch(m, nd.offset2)
             C == Fetch(m, nd.offset3)
             own == Fetch(m, nd.offset)
         IN /\ nd.type = "ADD" => Exec(t, m) = Put(m, nd.offset, own + nd.count)
            /\ nd.type = "SET" => Exec(t, m) = Put(m, nd.offset, nd.count)
            /\ nd.type = "CALC" =>
                 Exec(t, m) = Put(m, nd.offset, nd.count + nd.count2 * B + nd.count3 * C)
            /\ nd.type = "CALCMULT" =>
                 Exec(t, m) = Put(m, nd.offset, nd.count + nd.count2 * B * nd.count3 * C)
            /\ nd.type = "LT" =>
                 Exec(t, m) = Put(m, nd.offset, own + (IF UM(B) < UM(C) THEN 1 ELSE 0))
  BY DEF Exec, NodeOf, Openers

\* A division, with what it takes from the first two cells.
Divided(m, o, x, y) ==
  LET xy == Put(Put(m, o, x), o + 1, y)
  IN  IF y # 0 THEN Put(Put(xy, o + 2, x % y), o + 3, x \div y)
      ELSE Put(Put(xy, o + 2, x), o + 3, 0)

\* A division takes the two cells cut.
LEMMA ExecDivides ==
  ASSUME NEW t, NEW m, NEW nd, nd = t.node[m.n], nd.type = "DIV"
  PROVE  Exec(t, m) = Divided(m, nd.offset, UM(Fetch(m, nd.offset)),
                                UM(Fetch(m, nd.offset + 1)))
  BY DEF Exec, NodeOf, Openers, Divided

\* The brackets.
LEMMA ExecTests ==
  ASSUME NEW t, NEW m, NEW nd, nd = t.node[m.n]
  PROVE  LET zero == UM(Fetch(m, nd.offset)) = 0 IN
         /\ nd.type \in Openers =>
              Exec(t, m) = IF zero THEN [m EXCEPT !.n = nd.jmp] ELSE m
         /\ nd.type = "END" =>
              Exec(t, m) = IF ~zero THEN [m EXCEPT !.n = nd.jmp] ELSE m
         /\ nd.type \in {"ENDIF", "NOP"} => Exec(t, m) = m
  BY DEF Exec, NodeOf, Openers

\* Input, output, and the end.
LEMMA ExecSpeaks ==
  ASSUME NEW t, NEW m, NEW nd, nd = t.node[m.n]
  PROVE  LET own == Fetch(m, nd.offset)
         IN /\ nd.type = "CHR"  => Exec(t, m) = Event(m, "out", Char(nd.count))
            /\ nd.type = "PRT"  => Exec(t, m) = Event(m, "out", Char(own))
            /\ nd.type = "PRTI" => Exec(t, m) = Event(m, "int", UM(own))
            /\ nd.type = "DUMP" => Exec(t, m) = Event(m, "dump", m.p + nd.offset)
            /\ nd.type = "INP"  => Exec(t, m) = Getch(m, nd.offset)
            /\ nd.type = "INPI" => Exec(t, m) = Getint(m, nd.offset)
            /\ nd.type = "STOP" => Exec(t, m) = Halted(m, "stop")
  BY DEF Exec, NodeOf, Openers, Putch, Putint

\* A product does not depend on the cell it is nothing of.
LEMMA Nothing ==
  ASSUME NEW k \in Int, NEW v \in Int, NEW w \in Int, k # 0 => v = w
  PROVE  k * v = k * w /\ k * v \in Int
  <1>1. CASE k = 0
    BY <1>1
  <1>2. CASE k # 0
    BY <1>2
  <1>3. QED BY <1>1, <1>2

\* The four cells of a division.
LEMMA DividedBeside ==
  ASSUME NEW a, NEW b, NEW d, Beside(a, b, d), NEW o \in Int, NEW o2 \in Int, o2 = o - d,
         NEW x \in Nat, NEW y \in Nat
  PROVE  Beside(Divided(a, o, x, y), Divided(b, o2, x, y), d)
         /\ InPlace(a, Divided(a, o, x, y))
  <1> DEFINE P(m, l) == Put(Put(m, l, x), l + 1, y)
  <1>1. d \in Int
    BY DEF Beside
  <1>2. Beside(P(a, o), P(b, o2), d) /\ InPlace(a, P(a, o))
    <2>1. Beside(Put(a, o, x), Put(b, o2, x), d) /\ InPlace(a, Put(a, o, x))
      BY PutBeside
    <2>2. o + 1 \in Int /\ o2 + 1 \in Int /\ o2 + 1 = (o + 1) - d
      BY <1>1
    <2>3. Beside(P(a, o), P(b, o2), d) /\ InPlace(Put(a, o, x), P(a, o))
      BY <2>1, <2>2, PutBeside
    <2>4. QED BY <2>1, <2>3, InPlaceTwice
  <1>3. PICK v \in Int, w \in Int :
          /\ Divided(a, o, x, y) = Put(Put(P(a, o), o + 2, v), o + 3, w)
          /\ Divided(b, o2, x, y) = Put(Put(P(b, o2), o2 + 2, v), o2 + 3, w)
    <2>1. CASE y # 0
      <3>1. x % y \in Int /\ x \div y \in Int
        BY <2>1
      <3>2. QED BY <2>1, <3>1 DEF Divided
    <2>2. CASE y = 0
      BY <2>2 DEF Divided
    <2>3. QED BY <2>1, <2>2
  <1> DEFINE pa == P(a, o)
             pb == P(b, o2)
             qa == Put(pa, o + 2, v)
             qb == Put(pb, o2 + 2, v)
  <1> HIDE DEF P
  <1>4. Beside(pa, pb, d) /\ InPlace(a, pa)
    BY <1>2
  <1> HIDE DEF pa, pb
  <1>5. Beside(qa, qb, d) /\ InPlace(pa, qa)
    <2>1. o + 2 \in Int /\ o2 + 2 \in Int /\ o2 + 2 = (o + 2) - d
      BY <1>1
    <2>2. QED BY <1>4, <2>1, PutBeside
  <1>6. Divided(a, o, x, y) = Put(qa, o + 3, w) /\ Divided(b, o2, x, y) = Put(qb, o2 + 3, w)
    BY <1>3 DEF pa, pb
  <1> HIDE DEF qa, qb
  <1>7. Beside(Divided(a, o, x, y), Divided(b, o2, x, y), d)
        /\ InPlace(qa, Divided(a, o, x, y))
    <2>1. o + 3 \in Int /\ o2 + 3 \in Int /\ o2 + 3 = (o + 3) - d
      BY <1>1
    <2>2. QED BY <1>5, <1>6, <2>1, PutBeside
  <1>8. InPlace(a, qa)
    BY <1>4, <1>5, InPlaceTwice
  <1>9. QED BY <1>7, <1>8, InPlaceTwice

\* Node b does with the pointer ahead by s what node a did.
Same(a, b, s) ==
  /\ b.type = a.type
  /\ a.type # "MOV" =>
       /\ b.offset = a.offset - s /\ b.jmp = a.jmp
       /\ b.count = a.count /\ b.count2 = a.count2 /\ b.count3 = a.count3
       /\ a.type \in Calc /\ a.count2 # 0 => b.offset2 = a.offset2 - s
       /\ a.type \in Calc /\ a.count3 # 0 => b.offset3 = a.offset3 - s

\* The shift behind an instruction that was come to with the shift d.
ShiftAfter(na, nb, d) == IF na.type = "MOV" THEN d + nb.count - na.count ELSE d

\* The machine goes on behind the instruction, jumps, or stops.
Proceeds(m, m2, nd) ==
  \/ Goes(m, m2)
  \/ nd.type \in Bracket /\ m2.n = nd.jmp /\ m2.status = m.status

Twins(na, nb, d) ==
  /\ na \in Node /\ nb \in Node /\ na.type # "FREE" /\ Same(na, nb, d)
  /\ na.type = "LT" => na.count2 # 0 /\ na.count3 # 0

\* A movement, shortened or lengthened.
LEMMA MovesBeside ==
  ASSUME NEW a, NEW b, NEW d, Beside(a, b, d), NEW k \in Int, NEW l \in Int
  PROVE  /\ Beside([a EXCEPT !.p = @ + k], [b EXCEPT !.p = @ + l], d + l - k)
         /\ InPlace(a, [a EXCEPT !.p = @ + k])
  <1> DEFINE a2 == [a EXCEPT !.p = @ + k]
             b2 == [b EXCEPT !.p = @ + l]
  <1>1. a.p \in Int /\ b.p \in Int /\ d \in Int /\ b.p = a.p + d
    BY DEF Beside, IsVm
  <1>2. a.p + k \in Int /\ b.p + l \in Int /\ d + l - k \in Int
        /\ b.p + l = (a.p + k) + (d + l - k)
    BY <1>1
  <1>3. IsVm(a2) /\ a2.p = a.p + k /\ InPlace(a, a2) /\ a2.tape = a.tape
        /\ a2.string = a.string /\ a2.stdin = a.stdin /\ a2.io = a.io
    BY <1>2 DEF Beside, IsVm, Fields, InPlace
  <1>4. IsVm(b2) /\ b2.p = b.p + l /\ InPlace(b, b2) /\ b2.tape = b.tape
        /\ b2.string = b.string /\ b2.stdin = b.stdin /\ b2.io = b.io
    BY <1>2 DEF Beside, IsVm, Fields, InPlace
  <1> HIDE DEF a2, b2
  <1>5. Beside(a2, b2, d + l - k)
    BY <1>2, <1>3, <1>4 DEF Beside, InPlace
  <1>6. QED BY <1>3, <1>5 DEF a2, b2

\* One machine's pointer is moved further.
LEMMA MovesAlone ==
  ASSUME NEW a, NEW b, NEW d, Beside(a, b, d), NEW l \in Int
  PROVE  Beside(a, [b EXCEPT !.p = @ + l], d + l)
  <1> DEFINE b2 == [b EXCEPT !.p = @ + l]
  <1>0. a.p \in Int /\ b.p \in Int /\ d \in Int /\ b.p = a.p + d
    BY DEF Beside, IsVm
  <1>1. b.p + l \in Int /\ d + l \in Int /\ b.p + l = a.p + (d + l)
    BY <1>0
  <1>2. IsVm(b2) /\ b2.p = b.p + l /\ InPlace(b, b2) /\ b2.tape = b.tape
        /\ b2.string = b.string /\ b2.stdin = b.stdin /\ b2.io = b.io
    BY <1>1 DEF Beside, IsVm, Fields, InPlace
  <1> HIDE DEF b2
  <1>3. Beside(a, b2, d + l)
    BY <1>1, <1>2 DEF Beside, InPlace
  <1>4. QED BY <1>3 DEF b2

\* Both find the same in the cells the instruction names.
LEMMA SameOperands ==
  ASSUME NEW a, NEW b, NEW d, Beside(a, b, d), NEW na, NEW nb, Twins(na, nb, d),
         na.type # "MOV"
  PROVE  /\ na.offset \in Int /\ nb.offset \in Int /\ nb.offset = na.offset - d
         /\ Fetch(b, nb.offset) = Fetch(a, na.offset) /\ Fetch(a, na.offset) \in Int
         /\ Fetch(a, na.offset2) \in Int /\ Fetch(b, nb.offset2) \in Int
         /\ Fetch(a, na.offset3) \in Int /\ Fetch(b, nb.offset3) \in Int
         /\ na.type \in Calc /\ na.count2 # 0 =>
              Fetch(b, nb.offset2) = Fetch(a, na.offset2)
         /\ na.type \in Calc /\ na.count3 # 0 =>
              Fetch(b, nb.offset3) = Fetch(a, na.offset3)
  <1>1. /\ na.offset \in Int /\ nb.offset \in Int /\ na.offset2 \in Int /\ nb.offset2 \in Int
        /\ na.offset3 \in Int /\ nb.offset3 \in Int /\ d \in Int
    BY DEF Twins, Node, Beside
  <1>2. /\ nb.offset = na.offset - d
        /\ na.type \in Calc /\ na.count2 # 0 => nb.offset2 = na.offset2 - d
        /\ na.type \in Calc /\ na.count3 # 0 => nb.offset3 = na.offset3 - d
    BY DEF Twins, Same
  <1>3. IsTape(a.tape) /\ IsTape(b.tape)
    BY DEF Beside, IsVm
  <1>4. /\ Fetch(a, na.offset2) \in Int /\ Fetch(b, nb.offset2) \in Int
        /\ Fetch(a, na.offset3) \in Int /\ Fetch(b, nb.offset3) \in Int
    BY <1>3, CellIsInt DEF Fetch
  <1>5. Fetch(b, nb.offset) = Fetch(a, na.offset) /\ Fetch(a, na.offset) \in Int
    BY <1>1, <1>2, FetchBeside
  <1>6. na.type \in Calc /\ na.count2 # 0 =>
              Fetch(b, nb.offset2) = Fetch(a, na.offset2)
    BY <1>1, <1>2, FetchBeside
  <1>7. na.type \in Calc /\ na.count3 # 0 =>
              Fetch(b, nb.offset3) = Fetch(a, na.offset3)
    BY <1>1, <1>2, FetchBeside
  <1>8. QED BY <1>1, <1>2, <1>4, <1>5, <1>6, <1>7

\* One cell is written, with the same value.
LEMMA WritesBeside ==
  ASSUME NEW g, NEW u, NEW a, NEW b, NEW d, Beside(a, b, d),
         NEW na, NEW nb, na = g.node[a.n], nb = u.node[b.n], Twins(na, nb, d),
         na.type \in {"ADD", "SET", "CALC", "CALCMULT", "LT"}
  PROVE  \E v \in Int : Exec(g, a) = Put(a, na.offset, v)
                        /\ Exec(u, b) = Put(b, nb.offset, v)
  <1> DEFINE own == Fetch(a, na.offset)
             B1 == Fetch(a, na.offset2)
             C1 == Fetch(a, na.offset3)
             B2 == Fetch(b, nb.offset2)
             C2 == Fetch(b, nb.offset3)
  <1>1. /\ Fetch(b, nb.offset) = own /\ own \in Int
        /\ B1 \in Int /\ B2 \in Int /\ C1 \in Int /\ C2 \in Int
        /\ na.type \in Calc /\ na.count2 # 0 => B2 = B1
        /\ na.type \in Calc /\ na.count3 # 0 => C2 = C1
    BY SameOperands
  <1>2. /\ nb.type = na.type /\ nb.count = na.count /\ nb.count2 = na.count2
        /\ nb.count3 = na.count3
        /\ na.count \in Int /\ na.count2 \in Int /\ na.count3 \in Int
    BY DEF Twins, Same, Node
  <1>3. CASE na.type = "ADD"
    <2>1. Exec(g, a) = Put(a, na.offset, own + na.count)
          /\ Exec(u, b) = Put(b, nb.offset, own + na.count)
      BY <1>1, <1>2, <1>3, ExecWrites
    <2> HIDE DEF own
    <2>2. own + na.count \in Int
      BY <1>1, <1>2
    <2>3. QED BY <2>1, <2>2
  <1>4. CASE na.type = "SET"
    <2>1. Exec(g, a) = Put(a, na.offset, na.count)
          /\ Exec(u, b) = Put(b, nb.offset, na.count)
      BY <1>2, <1>4, ExecWrites
    <2>2. QED BY <1>2, <2>1
  <1>5. CASE na.type = "CALC"
    <2> DEFINE v == na.count + na.count2 * B1 + na.count3 * C1
    <2>1. Exec(g, a) = Put(a, na.offset, v)
          /\ Exec(u, b) = Put(b, nb.offset, na.count + na.count2 * B2 + na.count3 * C2)
      BY <1>2, <1>5, ExecWrites
    <2> HIDE DEF B1, B2, C1, C2
    <2>2. na.count2 * B1 = na.count2 * B2 /\ na.count2 * B1 \in Int
      BY <1>1, <1>2, <1>5, Nothing DEF Calc
    <2>3. na.count3 * C1 = na.count3 * C2 /\ na.count3 * C1 \in Int
      BY <1>1, <1>2, <1>5, Nothing DEF Calc
    <2>4. v \in Int
      BY <1>2, <2>2, <2>3
    <2>5. QED BY <2>1, <2>2, <2>3, <2>4
  <1>6. CASE na.type = "CALCMULT"
    <2> DEFINE v == na.count + na.count2 * B1 * na.count3 * C1
    <2>1. Exec(g, a) = Put(a, na.offset, v)
          /\ Exec(u, b) = Put(b, nb.offset, na.count + na.count2 * B2 * na.count3 * C2)
      BY <1>2, <1>6, ExecWrites
    <2> HIDE DEF B1, B2, C1, C2
    <2>2. na.count2 * B1 = na.count2 * B2 /\ na.count2 * B1 \in Int
      BY <1>1, <1>2, <1>6, Nothing DEF Calc
    <2> DEFINE k == na.count2 * B1 * na.count3
    <2>3. k \in Int /\ k = na.count2 * B2 * na.count3 /\ (k # 0 => na.count3 # 0)
      <3> DEFINE j == na.count2 * B1
      <3>1. j \in Int /\ j = na.count2 * B2
        BY <2>2
      <3> HIDE DEF j
      <3>2. j * na.count3 \in Int /\ (j * na.count3 # 0 => na.count3 # 0)
        <4>1. j * na.count3 \in Int
          BY <1>2, <3>1
        <4>2. CASE na.count3 = 0
          BY <3>1, <4>2
        <4>3. CASE na.count3 # 0
          BY <4>1, <4>3
        <4>4. QED BY <4>1, <4>2, <4>3
      <3>3. k = j * na.count3
        BY DEF j
      <3>4. na.count2 * B2 * na.count3 = j * na.count3
        BY <3>1
      <3> HIDE DEF k
      <3>5. QED BY <3>2, <3>3, <3>4
    <2> HIDE DEF k
    <2>4. k * C1 = k * C2 /\ k * C1 \in Int
      BY <1>1, <1>6, <2>3, Nothing DEF Calc
    <2>5. v = na.count + k * C1 /\ na.count + na.count2 * B2 * na.count3 * C2 = na.count + k * C2
      BY <2>3 DEF k
    <2>6. v \in Int
      BY <1>2, <2>4, <2>5
    <2> HIDE DEF v
    <2>7. Exec(u, b) = Put(b, nb.offset, v)
      BY <2>1, <2>4, <2>5
    <2>8. Exec(g, a) = Put(a, na.offset, v)
      BY <2>1
    <2>9. QED BY <2>6, <2>7, <2>8
  <1>7. CASE na.type = "LT"
    <2> DEFINE w == IF UM(B1) < UM(C1) THEN 1 ELSE 0
    <2>1. B2 = B1 /\ C2 = C1
      BY <1>1, <1>7 DEF Twins, Calc
    <2>2. Exec(g, a) = Put(a, na.offset, own + w)
          /\ Exec(u, b) = Put(b, nb.offset, own + w)
      BY <1>1, <1>2, <1>7, <2>1, ExecWrites
    <2>3. w \in Int
      OBVIOUS
    <2> HIDE DEF own, w
    <2>4. own + w \in Int
      BY <1>1, <2>3
    <2>5. QED BY <2>2, <2>4
  <1>8. QED BY <1>3, <1>4, <1>5, <1>6, <1>7

\* Whatever the instruction is, the machines stay beside each other.
LEMMA ExecBeside ==
  ASSUME NEW g, NEW u, NEW a, NEW b, NEW d, Beside(a, b, d),
         NEW na, NEW nb, na = g.node[a.n], nb = u.node[b.n], Twins(na, nb, d)
  PROVE  /\ Beside(Exec(g, a), Exec(u, b), ShiftAfter(na, nb, d))
         /\ Proceeds(a, Exec(g, a), na)
  <1>1. nb.type = na.type /\ na.type \in Token \ {"FREE"}
    BY DEF Twins, Same, Node
  <1>2. CASE na.type = "MOV"
    <2>1. na.count \in Int /\ nb.count \in Int
      BY DEF Twins, Node
    <2>2. Exec(g, a) = [a EXCEPT !.p = @ + na.count] /\ Exec(u, b) = [b EXCEPT !.p = @ + nb.count]
      BY <1>1, <1>2, ExecMoves
    <2>3. QED BY <1>2, <2>1, <2>2, MovesBeside DEF ShiftAfter, Proceeds, Goes
  <1>3. CASE na.type # "MOV"
    <2>0. ShiftAfter(na, nb, d) = d
      BY <1>3 DEF ShiftAfter
    <2> DEFINE own == Fetch(a, na.offset)
    <2>1. /\ na.offset \in Int /\ nb.offset \in Int /\ nb.offset = na.offset - d
          /\ Fetch(b, nb.offset) = own /\ own \in Int
      BY <1>3, SameOperands
    <2>2. nb.count = na.count /\ nb.jmp = na.jmp /\ d \in Int
      BY <1>3 DEF Twins, Same, Beside
    <2>3. CASE na.type \in {"ADD", "SET", "CALC", "CALCMULT", "LT"}
      <3>1. PICK v \in Int : Exec(g, a) = Put(a, na.offset, v)
                             /\ Exec(u, b) = Put(b, nb.offset, v)
        BY <2>3, WritesBeside
      <3>2. QED BY <2>0, <2>1, <3>1, PutBeside DEF Proceeds, Goes
    <2>4. CASE na.type = "DIV"
      <3> DEFINE x == UM(own)
                 y == UM(Fetch(a, na.offset + 1))
      <3>1. Fetch(b, nb.offset + 1) = Fetch(a, na.offset + 1)
            /\ Fetch(a, na.offset + 1) \in Int
        <4>1. na.offset + 1 \in Int /\ nb.offset + 1 \in Int /\ nb.offset + 1 = (na.offset + 1) - d
          BY <2>1, <2>2
        <4>2. QED BY <4>1, FetchBeside
      <3>2. Exec(g, a) = Divided(a, na.offset, x, y) /\ Exec(u, b) = Divided(b, nb.offset, x, y)
        BY <1>1, <2>1, <2>4, <3>1, ExecDivides
      <3>3. x \in Nat /\ y \in Nat
        BY <2>1, <3>1, CutIsInt
      <3> HIDE DEF x, y
      <3>4. QED BY <2>0, <2>1, <3>2, <3>3, DividedBeside DEF Proceeds, Goes
    <2>5. CASE na.type \in Bracket \cup {"NOP"}
      <3> DEFINE a2 == [a EXCEPT !.n = na.jmp]
                 b2 == [b EXCEPT !.n = na.jmp]
      <3>1. Beside(a2, b2, d) /\ a2.n = na.jmp /\ a2.status = a.status
        BY DEF Beside, IsVm, Fields
      <3>2. \/ Exec(g, a) = a /\ Exec(u, b) = b
            \/ Exec(g, a) = a2 /\ Exec(u, b) = b2 /\ na.type \in Bracket
        <4> HIDE DEF own
        <4>1. CASE na.type \in Openers
          BY <1>1, <2>1, <2>2, <4>1, ExecTests DEF own, Bracket
        <4>2. CASE na.type = "END"
          BY <1>1, <2>1, <2>2, <4>2, ExecTests DEF own, Bracket, Closers
        <4>3. CASE na.type \in {"ENDIF", "NOP"}
          BY <1>1, <4>3, ExecTests
        <4>4. QED BY <2>5, <4>1, <4>2, <4>3 DEF Bracket, Closers
      <3> HIDE DEF a2, b2
      <3>3. QED BY <2>0, <3>1, <3>2 DEF Proceeds, Goes, InPlace
    <2>6. CASE na.type \in {"CHR", "PRT", "PRTI", "DUMP"}
      <3>1. PICK ev, v : Exec(g, a) = Event(a, ev, v) /\ Exec(u, b) = Event(b, ev, v)
        <4>1. CASE na.type = "CHR"
          BY <1>1, <2>2, <4>1, ExecSpeaks
        <4>2. CASE na.type = "PRT"
          BY <1>1, <2>1, <4>2, ExecSpeaks
        <4>3. CASE na.type = "PRTI"
          BY <1>1, <2>1, <4>3, ExecSpeaks
        <4>4. CASE na.type = "DUMP"
          <5>1. b.p + nb.offset = a.p + na.offset
            BY <2>1, <2>2 DEF Beside, IsVm
          <5>2. QED BY <1>1, <4>4, <5>1, ExecSpeaks
        <4>5. QED BY <2>6, <4>1, <4>2, <4>3, <4>4
      <3>2. QED BY <2>0, <3>1, EventBeside DEF Proceeds, Goes
    <2>7. CASE na.type = "INP"
      <3>1. Exec(g, a) = Getch(a, na.offset) /\ Exec(u, b) = Getch(b, nb.offset)
        BY <1>1, <2>7, ExecSpeaks
      <3>2. QED BY <2>0, <2>1, <3>1, GetchBeside DEF Proceeds
    <2>8. CASE na.type = "INPI"
      <3>1. Exec(g, a) = Getint(a, na.offset) /\ Exec(u, b) = Getint(b, nb.offset)
        BY <1>1, <2>8, ExecSpeaks
      <3>2. QED BY <2>0, <2>1, <3>1, GetintBeside DEF Proceeds
    <2>9. CASE na.type = "STOP"
      <3>1. Exec(g, a) = Halted(a, "stop") /\ Exec(u, b) = Halted(b, "stop")
        BY <1>1, <2>9, ExecSpeaks
      <3>2. QED BY <2>0, <3>1, HaltedBeside DEF Proceeds, Goes
    <2>10. QED BY <1>1, <1>3, <2>3, <2>4, <2>5, <2>6, <2>7, <2>8, <2>9
                  DEF Token, Simple, Calc
  <1>4. QED BY <1>2, <1>3

(***************************************************************************)
(* Movements: the machine comes through those it stands before to the next *)
(* command, whose node does not depend on anything but the list.           *)
(***************************************************************************)
\* m at the node y with the pointer s further on; behind the last node it is done.
Placed(m, y, s) ==
  [m EXCEPT !.n = y, !.p = @ + s, !.status = IF y = Null THEN "done" ELSE "run"]

\* Where the machine was put it is,
LEMMA PlacedParts ==
  ASSUME NEW m, IsVm(m), NEW y, NEW s \in Int
  PROVE  LET c == Placed(m, y, s) IN
         /\ IsVm(c) /\ c.n = y /\ c.p = m.p + s
         /\ c.status = IF y = Null THEN "done" ELSE "run"
         /\ c.tape = m.tape /\ c.string = m.string /\ c.stdin = m.stdin /\ c.io = m.io
  BY DEF IsVm, Fields, Placed

\* wherever it was before;
LEMMA PlacedTwice ==
  ASSUME NEW m, IsVm(m), NEW x, NEW y, NEW k \in Int, NEW s \in Int
  PROVE  Placed(Placed(m, x, k), y, s) = Placed(m, y, k + s)
  <1>1. m.p \in Int /\ DOMAIN m = Fields
    BY DEF IsVm
  <1>2. (m.p + k) + s = m.p + (k + s)
    BY <1>1
  <1>3. QED BY <1>1, <1>2 DEF Placed, Fields

\* two machines beside each other are put beside each other.
LEMMA PlacedBeside ==
  ASSUME NEW a, NEW b, NEW d, Beside(a, b, d), NEW y, NEW k \in Int, NEW l \in Int
  PROVE  Beside(Placed(a, y, k), Placed(b, y, l), d + l - k)
  <1>1. a.p \in Int /\ b.p \in Int /\ d \in Int /\ b.p = a.p + d /\ IsVm(a) /\ IsVm(b)
    BY DEF Beside, IsVm
  <1>2. b.p + l = (a.p + k) + (d + l - k) /\ d + l - k \in Int
    BY <1>1
  <1> DEFINE a2 == Placed(a, y, k)
             b2 == Placed(b, y, l)
  <1>3. /\ IsVm(a2) /\ a2.n = y /\ a2.p = a.p + k
        /\ a2.status = IF y = Null THEN "done" ELSE "run"
        /\ a2.tape = a.tape /\ a2.string = a.string /\ a2.stdin = a.stdin /\ a2.io = a.io
    BY <1>1, PlacedParts
  <1>4. /\ IsVm(b2) /\ b2.n = y /\ b2.p = b.p + l
        /\ b2.status = IF y = Null THEN "done" ELSE "run"
        /\ b2.tape = b.tape /\ b2.string = b.string /\ b2.stdin = b.stdin /\ b2.io = b.io
    BY <1>1, PlacedParts
  <1> HIDE DEF a2, b2
  <1>5. QED BY <1>2, <1>3, <1>4 DEF Beside, a2, b2

\* n = n->next puts the machine behind the node.
LEMMA OnwardPlaces ==
  ASSUME NEW t, NEW m, IsVm(m), m.status = "run"
  PROVE  Onward(t, m) = Placed(m, t.next[m.n], 0)
  <1>1. m.p + 0 = m.p /\ DOMAIN m = Fields
    BY DEF IsVm
  <1>2. QED BY <1>1 DEF Onward, Placed, Halted, Fields

\* A movement puts it there with the pointer moved.
LEMMA MovementPlaces ==
  ASSUME NEW t \in Tree, NEW m, IsVm(m), ~AtRest(t, m), m.n \in NodeId
  PROVE  /\ t.node[m.n].count \in Int
         /\ Movement(t, m) = Placed(m, t.next[m.n], t.node[m.n].count)
  <1> DEFINE c == t.node[m.n].count
             m2 == [m EXCEPT !.p = @ + c]
  <1>1. m.status = "run" /\ t.node[m.n].type = "MOV"
    BY DEF AtRest, NodeOf
  <1>2. c \in Int
    BY DEF Tree, Node
  <1>3. Exec(t, m) = m2
    BY <1>1, ExecMoves
  <1>4. Movement(t, m) = Onward(t, m2)
    BY <1>3 DEF Movement, Step
  <1> HIDE DEF c
  <1>5. IsVm(m2) /\ m2.status = "run" /\ m2.n = m.n /\ DOMAIN m = Fields /\ m.p \in Int
    BY <1>1, <1>2 DEF IsVm, Fields
  <1>6. Onward(t, m2) = Placed(m2, t.next[m.n], 0)
    BY <1>5, OnwardPlaces
  <1>7. Placed(m2, t.next[m.n], 0) = Placed(m, t.next[m.n], c)
    <2>1. (m.p + c) + 0 = m.p + c
      BY <1>2, <1>5
    <2>2. QED BY <1>5, <2>1 DEF Placed, Fields
  <1>8. QED BY <1>2, <1>4, <1>6, <1>7 DEF c

\* A machine at rest is not moved, however often.
LEMMA RestRun ==
  ASSUME NEW t, NEW m, AtRest(t, m), NEW k \in Nat, NEW f, IsRun(f, "movement", t, m, k)
  PROVE  f[k] = m
  <1> DEFINE T == {i \in Nat : i <= k => f[i] = m}
  <1>1. \A i \in 0 .. k : f[i] = IF i = 0 THEN m ELSE Movement(t, f[i - 1])
    BY DEF IsRun, Went
  <1>2. 0 \in T
    BY <1>1
  <1>3. ASSUME NEW i \in Nat, i \in T PROVE i + 1 \in T
    <2>1. SUFFICES ASSUME i + 1 <= k PROVE f[i + 1] = m
      OBVIOUS
    <2>2. i + 1 \in 0 .. k /\ i + 1 # 0 /\ (i + 1) - 1 = i /\ f[i] = m
      BY <1>3, <2>1
    <2>3. f[i + 1] = Movement(t, m)
      BY <1>1, <2>2
    <2>4. QED BY <2>3 DEF Movement
  <1> HIDE DEF T
  <1>4. k \in T
    BY <1>2, <1>3, Induction
  <1>5. QED BY <1>4 DEF T

\* What Moved says is where as many movements as there are nodes bring it.
LEMMA MovedIsRun ==
  ASSUME NEW t, NEW m
  PROVE  \E f : IsRun(f, "movement", t, m, MaxNode) /\ Moved(t, m) = f[MaxNode]
  <1> DEFINE Is(f) == f = [i \in 0 .. MaxNode |-> IF i = 0 THEN m ELSE Movement(t, f[i - 1])]
             it == CHOOSE f : Is(f)
  <1>1. Moved(t, m) = IF AtRest(t, m) THEN m ELSE it[MaxNode]
    BY DEF Moved
  <1>2. \A f : Is(f) <=> IsRun(f, "movement", t, m, MaxNode)
    BY DEF IsRun, Went
  <1> HIDE DEF Is
  <1>3. \E f : Is(f)
    BY <1>2, RunExists
  <1>4. Is(it)
    BY <1>3
  <1> HIDE DEF it
  <1>5. IsRun(it, "movement", t, m, MaxNode)
    BY <1>2, <1>4
  <1>6. AtRest(t, m) => it[MaxNode] = m
    BY <1>5, RestRun
  <1>7. QED BY <1>1, <1>5, <1>6

\* Where a machine stands that still runs.
Stands(t, m) == IsVm(m) /\ (m.status = "run" => Live(t, m.n))

\* A movement brings it on in the list.
LEMMA MovementGoesOn ==
  ASSUME NEW t \in Tree, NEW r, Places(t, r), NEW m, Stands(t, m), ~AtRest(t, m)
  PROVE  LET c == Movement(t, m) IN
         Stands(t, c) /\ (c.status = "run" => r[c.n] = r[m.n] + 1)
  <1> DEFINE c == Movement(t, m)
             y == t.next[m.n]
  <1>1. IsVm(m) /\ Live(t, m.n) /\ m.n \in NodeId
    BY DEF Stands, AtRest, Live
  <1>2. c = Placed(m, y, t.node[m.n].count) /\ t.node[m.n].count \in Int
    BY <1>1, MovementPlaces
  <1> HIDE DEF c, y
  <1>3. IsVm(c) /\ c.n = y /\ c.status = IF y = Null THEN "done" ELSE "run"
    BY <1>1, <1>2, PlacedParts
  <1>4. y # Null => Live(t, y) /\ r[y] = r[m.n] + 1
    BY <1>1 DEF y, Places
  <1>5. QED BY <1>3, <1>4 DEF Stands, c

\* There are not more movements in a row than nodes: the machine comes to rest.
LEMMA ComesToRest ==
  ASSUME NEW t \in Tree, NEW r, Places(t, r), NEW m, Stands(t, m),
         NEW f, IsRun(f, "movement", t, m, MaxNode)
  PROVE  AtRest(t, f[MaxNode]) /\ Stands(t, f[MaxNode])
  <1> DEFINE T == {i \in Nat : i <= MaxNode =>
                     /\ Stands(t, f[i])
                     /\ ~AtRest(t, f[i]) => i + 1 <= r[f[i].n]}
  <1>1. \A i \in 0 .. MaxNode : f[i] = IF i = 0 THEN m ELSE Movement(t, f[i - 1])
    BY DEF IsRun, Went
  <1>2. \A c : Stands(t, c) /\ ~AtRest(t, c) => r[c.n] \in 1 .. MaxNode
    BY DEF Stands, AtRest, Places, Live
  <1>3. 0 \in T
    <2>1. f[0] = m
      BY <1>1
    <2>2. QED BY <1>2, <2>1
  <1>4. ASSUME NEW i \in Nat, i \in T PROVE i + 1 \in T
    <2>1. SUFFICES ASSUME i + 1 <= MaxNode
                   PROVE  /\ Stands(t, f[i + 1])
                          /\ ~AtRest(t, f[i + 1]) => (i + 1) + 1 <= r[f[i + 1].n]
      OBVIOUS
    <2>2. i + 1 \in 0 .. MaxNode /\ i + 1 # 0 /\ (i + 1) - 1 = i
      BY <2>1
    <2>3. f[i + 1] = Movement(t, f[i])
      BY <1>1, <2>2
    <2>4. Stands(t, f[i]) /\ (~AtRest(t, f[i]) => i + 1 <= r[f[i].n])
      BY <1>4, <2>1
    <2>5. CASE AtRest(t, f[i])
      BY <2>3, <2>4, <2>5 DEF Movement
    <2>6. CASE ~AtRest(t, f[i])
      <3>1. /\ Stands(t, f[i + 1])
            /\ f[i + 1].status = "run" => r[f[i + 1].n] = r[f[i].n] + 1
        BY <2>3, <2>4, <2>6, MovementGoesOn
      <3>2. ~AtRest(t, f[i + 1]) => f[i + 1].status = "run"
        BY DEF AtRest
      <3>3. r[f[i].n] \in Int
        BY <1>2, <2>4, <2>6
      <3>4. QED BY <2>4, <2>6, <3>1, <3>2, <3>3
    <2>7. QED BY <2>5, <2>6
  <1> HIDE DEF T
  <1>5. MaxNode \in T
    BY <1>3, <1>4, Induction
  <1>6. /\ Stands(t, f[MaxNode])
        /\ ~AtRest(t, f[MaxNode]) => MaxNode + 1 <= r[f[MaxNode].n]
    BY <1>5 DEF T
  <1>7. QED BY <1>2, <1>6

\* The first movement is one of them.
LEMMA MovedGoesOn ==
  ASSUME NEW t \in Tree, NEW r, Places(t, r), NEW m, Stands(t, m), ~AtRest(t, m)
  PROVE  Moved(t, m) = Moved(t, Movement(t, m))
  <1> DEFINE c == Movement(t, m)
  <1>1. PICK f : IsRun(f, "movement", t, m, MaxNode) /\ Moved(t, m) = f[MaxNode]
    BY MovedIsRun
  <1>2. PICK g : IsRun(g, "movement", t, c, MaxNode) /\ Moved(t, c) = g[MaxNode]
    BY MovedIsRun
  <1>3. AtRest(t, f[MaxNode])
    BY <1>1, ComesToRest
  <1>4. /\ \A i \in 0 .. MaxNode : f[i] = IF i = 0 THEN m ELSE Movement(t, f[i - 1])
        /\ \A i \in 0 .. MaxNode : g[i] = IF i = 0 THEN c ELSE Movement(t, g[i - 1])
    BY <1>1, <1>2 DEF IsRun, Went
  <1> DEFINE T == {i \in Nat : i + 1 <= MaxNode => g[i] = f[i + 1]}
  <1>5. 0 \in T
    <2>1. 1 \in 0 .. MaxNode /\ 1 - 1 = 0 /\ 0 \in 0 .. MaxNode
      OBVIOUS
    <2>2. f[1] = Movement(t, f[0]) /\ f[0] = m /\ g[0] = c
      BY <1>4, <2>1
    <2>3. QED BY <2>2
  <1> HIDE DEF c
  <1>6. ASSUME NEW i \in Nat, i \in T PROVE i + 1 \in T
    <2>1. SUFFICES ASSUME (i + 1) + 1 <= MaxNode PROVE g[i + 1] = f[(i + 1) + 1]
      OBVIOUS
    <2>2. /\ i + 1 \in 0 .. MaxNode /\ i + 1 # 0 /\ (i + 1) - 1 = i
          /\ (i + 1) + 1 \in 0 .. MaxNode /\ (i + 1) + 1 # 0 /\ ((i + 1) + 1) - 1 = i + 1
      BY <2>1
    <2>3. g[i + 1] = Movement(t, g[i]) /\ f[(i + 1) + 1] = Movement(t, f[i + 1])
      BY <1>4, <2>2
    <2>4. g[i] = f[i + 1]
      BY <1>6, <2>2
    <2>5. QED BY <2>3, <2>4
  <1> HIDE DEF T
  <1>7. MaxNode - 1 \in T
    <2>1. MaxNode - 1 \in Nat
      OBVIOUS
    <2>2. QED BY <1>5, <1>6, <2>1, Induction
  <1>8. g[MaxNode - 1] = f[MaxNode]
    BY <1>7 DEF T
  <1>9. g[MaxNode] = Movement(t, g[MaxNode - 1])
    BY <1>4
  <1>10. g[MaxNode] = f[MaxNode]
    BY <1>3, <1>8, <1>9 DEF Movement
  <1>11. QED BY <1>1, <1>2, <1>10 DEF c

\* What Commands says is where such a run comes to.
LEMMA CommandsAreRun ==
  ASSUME NEW t, NEW m, NEW k \in Nat
  PROVE  \E f : IsRun(f, "command", t, Moved(t, m), k) /\ Commands(t, m, k) = f[k]
  <1> DEFINE Is(f) == f = [i \in 0 .. k |-> IF i = 0 THEN Moved(t, m)
                                            ELSE Moved(t, Turn(t, f[i - 1]))]
             it == CHOOSE f : Is(f)
  <1>1. Commands(t, m, k) = it[k]
    BY DEF Commands
  <1>2. \A f : Is(f) <=> IsRun(f, "command", t, Moved(t, m), k)
    BY DEF IsRun, Went
  <1> HIDE DEF Is
  <1>3. \E f : Is(f)
    BY <1>2, RunExists
  <1>4. Is(it)
    BY <1>3
  <1> HIDE DEF it
  <1>5. QED BY <1>1, <1>2, <1>4

\* At first only movements are behind the machine, and then one command more.
LEMMA CommandsGoOn ==
  ASSUME NEW t, NEW m, NEW k \in Nat
  PROVE  /\ Commands(t, m, 0) = Moved(t, m)
         /\ Commands(t, m, k + 1) = Moved(t, Turn(t, Commands(t, m, k)))
  <1>1. PICK f0 : IsRun(f0, "command", t, Moved(t, m), 0) /\ Commands(t, m, 0) = f0[0]
    BY CommandsAreRun
  <1>2. PICK f : IsRun(f, "command", t, Moved(t, m), k) /\ Commands(t, m, k) = f[k]
    BY CommandsAreRun
  <1>3. k + 1 \in Nat /\ k <= k + 1
    OBVIOUS
  <1>4. PICK g : IsRun(g, "command", t, Moved(t, m), k + 1) /\ Commands(t, m, k + 1) = g[k + 1]
    BY <1>3, CommandsAreRun
  <1>5. f[k] = g[k]
    BY <1>2, <1>3, <1>4, RunsAgree
  <1>6. g[k + 1] = Moved(t, Turn(t, g[k]))
    BY <1>4 DEF IsRun, Went
  <1>7. f0[0] = Moved(t, m)
    BY <1>1 DEF IsRun
  <1>8. QED BY <1>1, <1>2, <1>4, <1>5, <1>6, <1>7

\* A program that is over stays over.
LEMMA StaysOver ==
  ASSUME NEW t, NEW m, NEW k \in Nat, NEW l \in Nat, k <= l,
         Commands(t, m, k).status # "run"
  PROVE  Commands(t, m, l) = Commands(t, m, k)
  <1> DEFINE T == {i \in Nat : k <= i => Commands(t, m, i) = Commands(t, m, k)}
  <1>1. 0 \in T
    <2>1. k <= 0 => k = 0
      OBVIOUS
    <2>2. QED BY <2>1
  <1>2. ASSUME NEW i \in Nat, i \in T PROVE i + 1 \in T
    <2>1. CASE k <= i
      <3>1. Commands(t, m, i) = Commands(t, m, k)
        BY <1>2, <2>1
      <3>2. Commands(t, m, i + 1) = Moved(t, Turn(t, Commands(t, m, i)))
        BY CommandsGoOn
      <3>3. Turn(t, Commands(t, m, k)) = Commands(t, m, k)
        BY DEF Turn
      <3>4. Moved(t, Commands(t, m, k)) = Commands(t, m, k)
        BY DEF Moved, AtRest
      <3>5. Commands(t, m, i + 1) = Commands(t, m, k)
        BY <3>1, <3>2, <3>3, <3>4
      <3>6. QED BY <3>5
    <2>2. CASE ~(k <= i)
      <3>1. k <= i + 1 => k = i + 1
        BY <2>2
      <3>2. QED BY <3>1
    <2>3. QED BY <2>1, <2>2
  <1> HIDE DEF T
  <1>3. l \in T
    BY <1>1, <1>2, Induction
  <1>4. QED BY <1>3 DEF T

(***************************************************************************)
(* Where movements lead.                                                   *)
(***************************************************************************)

\* From x movements lead to y, and move the pointer by s.
Leads(t, x, y, s) ==
  \A m, k : IsVm(m) /\ k \in Int => Moved(t, Placed(m, x, k)) = Moved(t, Placed(m, y, k + s))

\* Where nothing is done nothing is moved.
LEMMA LeadsNowhere ==
  ASSUME NEW t, NEW x
  PROVE  Leads(t, x, x, 0)
  <1>1. \A k \in Int : k + 0 = k
    OBVIOUS
  <1>2. QED BY <1>1 DEF Leads

\* A movement leads behind it,
LEMMA LeadsBehind ==
  ASSUME NEW t \in Tree, NEW r, Places(t, r), NEW x, Live(t, x), t.node[x].type = "MOV"
  PROVE  Leads(t, x, t.next[x], t.node[x].count)
  <1> DEFINE y == t.next[x]
             c == t.node[x].count
  <1>1. SUFFICES ASSUME NEW m, IsVm(m), NEW k \in Int
                 PROVE  Moved(t, Placed(m, x, k)) = Moved(t, Placed(m, y, k + c))
    BY DEF Leads
  <1> DEFINE m2 == Placed(m, x, k)
  <1>2. IsVm(m2) /\ m2.n = x /\ m2.status = "run" /\ x \in NodeId
    BY <1>1, PlacedParts, Ids DEF Live
  <1> HIDE DEF m2
  <1>3. ~AtRest(t, m2) /\ Stands(t, m2)
    BY <1>2 DEF AtRest, NodeOf, Stands
  <1>4. Moved(t, m2) = Moved(t, Movement(t, m2))
    BY <1>3, MovedGoesOn
  <1>5. Movement(t, m2) = Placed(m2, y, c) /\ c \in Int
    BY <1>2, <1>3, MovementPlaces
  <1>6. Placed(m2, y, c) = Placed(m, y, k + c)
    BY <1>1, <1>5, PlacedTwice DEF m2
  <1>7. QED BY <1>4, <1>5, <1>6 DEF m2

\* and movements behind each other lead behind them all.
LEMMA LeadsOn ==
  ASSUME NEW t, NEW x, NEW y, NEW z, NEW s1 \in Int, NEW s2 \in Int,
         Leads(t, x, y, s1), Leads(t, y, z, s2)
  PROVE  Leads(t, x, z, s1 + s2)
  <1>1. SUFFICES ASSUME NEW m, IsVm(m), NEW k \in Int
                 PROVE  Moved(t, Placed(m, x, k)) = Moved(t, Placed(m, z, k + (s1 + s2)))
    BY DEF Leads
  <1>2. Moved(t, Placed(m, x, k)) = Moved(t, Placed(m, y, k + s1))
    BY <1>1 DEF Leads
  <1>3. k + s1 \in Int /\ (k + s1) + s2 = k + (s1 + s2)
    BY <1>1
  <1>4. Moved(t, Placed(m, y, k + s1)) = Moved(t, Placed(m, z, (k + s1) + s2))
    BY <1>1, <1>3 DEF Leads
  <1>5. QED BY <1>2, <1>3, <1>4

(***************************************************************************)
(* Two trees that do the same command by command.  S are the nodes both    *)
(* have in common, sh says by how much the pointer of the second is ahead  *)
(* at each of them, and at the end; other nodes are movements only.  The   *)
(* second tree may lack additions at the end of the program, when there    *)
(* is no more than one of them.                                            *)
(***************************************************************************)

\* The nodes in common do the same, and loops go back to such a node.
Matched(t, u, S, sh) ==
  \A x \in S :
    /\ Live(t, x)
    /\ Twins(t.node[x], u.node[x], sh[x])
    /\ t.node[x].type = "MOV" => u.node[x].count = t.node[x].count
    /\ t.node[x].type \in Bracket => t.node[x].jmp \in S /\ sh[t.node[x].jmp] = sh[x]

\* A last addition, which u does without.
LastAdd(t, S, z) ==
  Live(t, z) /\ z \notin S /\ t.node[z].type = "ADD" /\ t.next[z] = Null

\* Behind x, which is left with the pointer of u ahead by d, both come to the
\* same node, or to the end.
GoAlike(t, u, r, S, sh, x, d) ==
  \E s1, s2 \in Int :
    \/ \E y \in S \cup {Null} :
         /\ Leads(t, t.next[x], y, s1) /\ Leads(u, u.next[x], y, s2)
         /\ sh[y] = d + s2 - s1
         /\ x # Null /\ y # Null => r[x] < r[y]
    \/ \E z : LastAdd(t, S, z) /\ Leads(t, t.next[x], z, s1) /\ Leads(u, u.next[x], Null, s2)

Alike(t, u, r, S, sh) ==
  /\ S \subseteq NodeId /\ sh \in [Link -> Int]
  /\ Matched(t, u, S, sh)
  /\ GoAlike(t, u, r, S, sh, Null, 0)
  /\ \A x \in S : GoAlike(t, u, r, S, sh, x, sh[x])

\* The machines stand before the same node, have ended, or both stopped.
Together(a, b, S, sh) ==
  \E d : /\ Beside(a, b, d)
         /\ a.status = "run" => a.n \in S /\ d = sh[a.n]
         /\ a.status = "done" => d = sh[Null]

\* a has the last addition before it, b has not.
Early(t, S, a, b) ==
  /\ IsVm(a) /\ IsVm(b)
  /\ a.status = "run" /\ LastAdd(t, S, a.n)
  /\ b.status = "done" /\ b.io = a.io

\* Nothing is left to do for either.
BothOver(a, b) ==
  a.status = "done" /\ b.status = "done" /\ b.io = a.io

\* What is behind a node is the same.
LEMMA GoesAlike ==
  ASSUME NEW t, NEW u, NEW r, NEW S, NEW sh, Alike(t, u, r, S, sh),
         NEW x, NEW d, GoAlike(t, u, r, S, sh, x, d),
         NEW a, NEW b, Beside(a, b, d), NEW k \in Int
  PROVE  \E a2, b2 :
           /\ Moved(t, Placed(a, t.next[x], k)) = Moved(t, a2)
           /\ Moved(u, Placed(b, u.next[x], k)) = Moved(u, b2)
           /\ \/ Early(t, S, a2, b2)
              \/ /\ Together(a2, b2, S, sh)
                 /\ a2.status = "run" /\ x # Null => r[x] < r[a2.n]
  <1>1. PICK s1 \in Int, s2 \in Int :
          \/ \E y \in S \cup {Null} :
               /\ Leads(t, t.next[x], y, s1) /\ Leads(u, u.next[x], y, s2)
               /\ sh[y] = d + s2 - s1
               /\ x # Null /\ y # Null => r[x] < r[y]
          \/ \E z : LastAdd(t, S, z) /\ Leads(t, t.next[x], z, s1) /\ Leads(u, u.next[x], Null, s2)
    BY DEF GoAlike
  <1>2. IsVm(a) /\ IsVm(b) /\ d \in Int /\ k + s1 \in Int /\ k + s2 \in Int
        /\ b.io = a.io
    BY DEF Beside
  <1>3. ASSUME NEW y \in S \cup {Null},
               Leads(t, t.next[x], y, s1), Leads(u, u.next[x], y, s2),
               sh[y] = d + s2 - s1, x # Null /\ y # Null => r[x] < r[y]
        PROVE  \E a2, b2 :
                 /\ Moved(t, Placed(a, t.next[x], k)) = Moved(t, a2)
                 /\ Moved(u, Placed(b, u.next[x], k)) = Moved(u, b2)
                 /\ Together(a2, b2, S, sh)
                 /\ a2.status = "run" /\ x # Null => r[x] < r[a2.n]
    <2> DEFINE a2 == Placed(a, y, k + s1)
               b2 == Placed(b, y, k + s2)
    <2>1. /\ Moved(t, Placed(a, t.next[x], k)) = Moved(t, a2)
          /\ Moved(u, Placed(b, u.next[x], k)) = Moved(u, b2)
      BY <1>2, <1>3 DEF Leads
    <2>2. Beside(a2, b2, d + (k + s2) - (k + s1))
      BY <1>2, PlacedBeside
    <2>3. d + (k + s2) - (k + s1) = d + s2 - s1
      BY <1>2
    <2>4. a2.n = y /\ a2.status = IF y = Null THEN "done" ELSE "run"
      BY <1>2, PlacedParts
    <2> HIDE DEF a2, b2
    <2>5. Together(a2, b2, S, sh)
      BY <1>3, <2>2, <2>3, <2>4 DEF Together
    <2>6. QED BY <1>3, <2>1, <2>4, <2>5
  <1>4. ASSUME NEW z, LastAdd(t, S, z), Leads(t, t.next[x], z, s1), Leads(u, u.next[x], Null, s2)
        PROVE  \E a2, b2 :
                 /\ Moved(t, Placed(a, t.next[x], k)) = Moved(t, a2)
                 /\ Moved(u, Placed(b, u.next[x], k)) = Moved(u, b2)
                 /\ Early(t, S, a2, b2)
    <2> DEFINE a2 == Placed(a, z, k + s1)
               b2 == Placed(b, Null, k + s2)
    <2>1. /\ Moved(t, Placed(a, t.next[x], k)) = Moved(t, a2)
          /\ Moved(u, Placed(b, u.next[x], k)) = Moved(u, b2)
      BY <1>2, <1>4 DEF Leads
    <2>2. IsVm(a2) /\ a2.n = z /\ a2.status = (IF z = Null THEN "done" ELSE "run") /\ a2.io = a.io
      BY <1>2, PlacedParts
    <2>3. IsVm(b2) /\ b2.status = "done" /\ b2.io = b.io
      BY <1>2, PlacedParts
    <2>4. z # Null
      BY <1>4, Ids DEF LastAdd, Live
    <2> HIDE DEF a2, b2
    <2>5. Early(t, S, a2, b2)
      BY <1>2, <1>4, <2>2, <2>3, <2>4 DEF Early
    <2>6. QED BY <2>1, <2>5
  <1>5. QED BY <1>1, <1>3, <1>4

\* Both do the same kind of thing.
LEMMA TogetherParts ==
  ASSUME NEW t, NEW u, NEW r, NEW S, NEW sh, Alike(t, u, r, S, sh),
         NEW a, NEW b, Together(a, b, S, sh)
  PROVE  /\ IsVm(a) /\ IsVm(b) /\ b.n = a.n /\ b.status = a.status /\ b.io = a.io
         /\ a.status = "run" =>
              /\ Beside(a, b, sh[a.n]) /\ a.n \in S /\ a.n \in NodeId /\ Live(t, a.n)
              /\ Twins(t.node[a.n], u.node[a.n], sh[a.n])
              /\ u.node[a.n].type = t.node[a.n].type
         /\ AtRest(u, b) <=> AtRest(t, a)
  <1>1. PICK d : /\ Beside(a, b, d)
                 /\ a.status = "run" => a.n \in S /\ d = sh[a.n]
    BY DEF Together
  <1>2. IsVm(a) /\ IsVm(b) /\ b.n = a.n /\ b.status = a.status /\ b.io = a.io
    BY <1>1 DEF Beside
  <1>3. ASSUME a.status = "run"
        PROVE  /\ Beside(a, b, sh[a.n]) /\ a.n \in S /\ a.n \in NodeId /\ Live(t, a.n)
               /\ Twins(t.node[a.n], u.node[a.n], sh[a.n])
               /\ u.node[a.n].type = t.node[a.n].type
    <2>1. Twins(t.node[a.n], u.node[a.n], sh[a.n]) /\ a.n \in S /\ a.n \in NodeId /\ Live(t, a.n)
      BY <1>1, <1>3 DEF Alike, Matched
    <2>2. QED BY <1>1, <1>3, <2>1 DEF Twins, Same
  <1>4. AtRest(u, b) <=> AtRest(t, a)
    BY <1>2, <1>3 DEF AtRest, NodeOf
  <1>5. QED BY <1>2, <1>3, <1>4

\* What the movements in front of the next command come to.
Outcome(t, S, sh, a, b) == (Together(a, b, S, sh) /\ AtRest(t, a)) \/ Early(t, S, a, b)

\* They bring both machines to the same command.
LEMMA MovedAlike ==
  ASSUME NEW t \in Tree, NEW u \in Tree, NEW r, Places(t, r), NEW q, Places(u, q),
         NEW S, NEW sh, Alike(t, u, r, S, sh), S \subseteq {x \in NodeId : Live(u, x)},
         NEW a0, NEW b0, Together(a0, b0, S, sh)
  PROVE  Outcome(t, S, sh, Moved(t, a0), Moved(u, b0))
  <1> DEFINE Near(a, j) == a.status = "run" => MaxNode - r[a.n] < j
             T == {j \in Nat : \A a, b : Together(a, b, S, sh) /\ Near(a, j) =>
                                 Outcome(t, S, sh, Moved(t, a), Moved(u, b))}
  <1>1. \A a, b : Together(a, b, S, sh) /\ a.status = "run" => r[a.n] \in 1 .. MaxNode
    <2> SUFFICES ASSUME NEW a, NEW b, Together(a, b, S, sh), a.status = "run"
                 PROVE  r[a.n] \in 1 .. MaxNode
      OBVIOUS
    <2>1. a.n \in NodeId /\ Live(t, a.n)
      BY TogetherParts
    <2>2. QED BY <2>1 DEF Places
  <1>2. ASSUME NEW a, NEW b, Together(a, b, S, sh), AtRest(t, a)
        PROVE  Outcome(t, S, sh, Moved(t, a), Moved(u, b))
    <2>1. AtRest(u, b)
      BY <1>2, TogetherParts
    <2>2. Moved(t, a) = a /\ Moved(u, b) = b
      BY <1>2, <2>1 DEF Moved
    <2>3. QED BY <1>2, <2>2 DEF Outcome
  <1>3. 0 \in T
    <2> SUFFICES ASSUME NEW a, NEW b, Together(a, b, S, sh), Near(a, 0)
                 PROVE  Outcome(t, S, sh, Moved(t, a), Moved(u, b))
      OBVIOUS
    <2>1. a.status # "run"
      BY <1>1
    <2>2. AtRest(t, a)
      BY <2>1 DEF AtRest
    <2>3. QED BY <2>2, <1>2
  <1>4. ASSUME NEW j \in Nat, j \in T PROVE j + 1 \in T
    <2> SUFFICES ASSUME NEW a, NEW b, Together(a, b, S, sh), Near(a, j + 1)
                 PROVE  Outcome(t, S, sh, Moved(t, a), Moved(u, b))
      OBVIOUS
    <2>1. CASE AtRest(t, a)
      BY <1>2, <2>1
    <2>2. CASE ~AtRest(t, a)
      <3> DEFINE x == a.n
                 c == t.node[x].count
      <3>1. a.status = "run" /\ t.node[x].type = "MOV"
        BY <2>2 DEF AtRest, NodeOf
      <3>2. /\ IsVm(a) /\ IsVm(b) /\ b.n = x /\ Beside(a, b, sh[x]) /\ x \in S /\ x \in NodeId
            /\ Live(t, x) /\ ~AtRest(u, b) /\ b.status = "run"
        BY <2>2, <3>1, TogetherParts
      <3>3. Stands(t, a) /\ Stands(u, b)
        BY <3>2 DEF Stands
      <3>4. Moved(t, a) = Moved(t, Movement(t, a)) /\ Moved(u, b) = Moved(u, Movement(u, b))
        BY <2>2, <3>2, <3>3, MovedGoesOn
      <3>5. u.node[x].count = c
        BY <3>1, <3>2 DEF Alike, Matched
      <3>6. /\ Movement(t, a) = Placed(a, t.next[x], c) /\ c \in Int
            /\ Movement(u, b) = Placed(b, u.next[x], c)
        BY <2>2, <3>2, <3>5, MovementPlaces
      <3>7. GoAlike(t, u, r, S, sh, x, sh[x]) /\ x # Null
        BY <3>2, Ids DEF Alike
      <3> HIDE DEF x, c
      <3>8. PICK a2, b2 :
              /\ Moved(t, Placed(a, t.next[x], c)) = Moved(t, a2)
              /\ Moved(u, Placed(b, u.next[x], c)) = Moved(u, b2)
              /\ \/ Early(t, S, a2, b2)
                 \/ /\ Together(a2, b2, S, sh)
                    /\ a2.status = "run" /\ x # Null => r[x] < r[a2.n]
        BY <3>2, <3>6, <3>7, GoesAlike
      <3>9. Moved(t, a) = Moved(t, a2) /\ Moved(u, b) = Moved(u, b2)
        BY <3>4, <3>6, <3>8
      <3>10. CASE Early(t, S, a2, b2)
        <4>1. AtRest(t, a2) /\ AtRest(u, b2)
          BY <3>10 DEF Early, AtRest, NodeOf, LastAdd
        <4>2. Moved(t, a2) = a2 /\ Moved(u, b2) = b2
          BY <4>1 DEF Moved
        <4>3. QED BY <3>9, <3>10, <4>2 DEF Outcome
      <3>11. CASE Together(a2, b2, S, sh) /\ (a2.status = "run" => r[x] < r[a2.n])
        <4>1. Near(a2, j)
          <5>1. SUFFICES ASSUME a2.status = "run" PROVE MaxNode - r[a2.n] < j
            OBVIOUS
          <5>2. r[a2.n] \in Int /\ r[x] \in Int /\ r[x] < r[a2.n] /\ MaxNode - r[x] < j + 1
            BY <1>1, <3>1, <3>11, <5>1 DEF x
          <5>3. QED BY <5>2
        <4>2. Outcome(t, S, sh, Moved(t, a2), Moved(u, b2))
          BY <1>4, <3>11, <4>1
        <4>3. QED BY <3>9, <4>2
      <3>12. QED BY <3>7, <3>8, <3>10, <3>11
    <2>3. QED BY <2>1, <2>2
  <1> HIDE DEF T
  <1>5. MaxNode \in T
    BY <1>3, <1>4, Induction
  <1>6. Near(a0, MaxNode)
    BY <1>1
  <1>7. QED BY <1>5, <1>6 DEF T

\* The last addition is all that is missing.
LEMMA EarlyEnds ==
  ASSUME NEW t, NEW u, NEW S, NEW a, NEW b, Early(t, S, a, b)
  PROVE  BothOver(Moved(t, Turn(t, a)), Moved(u, Turn(u, b)))
  <1> DEFINE x == a.n
             v == Fetch(a, t.node[x].offset) + t.node[x].count
             a1 == Put(a, t.node[x].offset, v)
  <1>1. /\ a.status = "run" /\ t.node[x].type = "ADD" /\ t.next[x] = Null
        /\ b.status = "done" /\ b.io = a.io /\ IsVm(a)
    BY DEF Early, LastAdd
  <1>2. Exec(t, a) = a1
    BY <1>1, ExecWrites
  <1>3. a1.status = "run" /\ a1.n = x /\ a1.io = a.io /\ DOMAIN a1 = Fields
    BY <1>1 DEF Put, IsVm, Fields
  <1> HIDE DEF a1, v
  <1>4. Turn(t, a) = Halted(a1, "done")
    BY <1>1, <1>2, <1>3 DEF Turn, Step, Onward
  <1>5. Halted(a1, "done").status = "done" /\ Halted(a1, "done").io = a.io
    BY <1>3 DEF Halted, Fields
  <1>6. Turn(u, b) = b
    BY <1>1 DEF Turn
  <1>7. Moved(t, Turn(t, a)) = Halted(a1, "done") /\ Moved(u, Turn(u, b)) = b
    BY <1>1, <1>4, <1>5, <1>6 DEF Moved, AtRest
  <1>8. QED BY <1>1, <1>5, <1>7 DEF BothOver

\* Before each command it is as before the first.
LEMMA CommandAlike ==
  ASSUME NEW t \in Tree, NEW u \in Tree, NEW r, Places(t, r), NEW q, Places(u, q),
         NEW S, NEW sh, Alike(t, u, r, S, sh), S \subseteq {x \in NodeId : Live(u, x)},
         NEW a, NEW b, Together(a, b, S, sh), AtRest(t, a)
  PROVE  Outcome(t, S, sh, Moved(t, Turn(t, a)), Moved(u, Turn(u, b)))
  <1>1. CASE a.status # "run"
    <2>1. b.status # "run"
      BY <1>1, TogetherParts
    <2>2. Turn(t, a) = a /\ Turn(u, b) = b
      BY <1>1, <2>1 DEF Turn
    <2>3. QED BY <2>2, MovedAlike
  <1>2. CASE a.status = "run"
    <2> DEFINE x == a.n
               na == t.node[x]
               nb == u.node[x]
               a1 == Exec(t, a)
               b1 == Exec(u, b)
    <2>1. /\ IsVm(a) /\ b.n = x /\ b.status = "run" /\ Beside(a, b, sh[x]) /\ x \in S
          /\ x \in NodeId /\ Twins(na, nb, sh[x])
      BY <1>2, TogetherParts
    <2>2. na.type # "MOV"
      BY <1>2 DEF AtRest, NodeOf
    <2> HIDE DEF na, nb
    <2>3. Beside(a1, b1, sh[x]) /\ Proceeds(a, a1, na)
      <3>1. na = t.node[a.n] /\ nb = u.node[b.n]
        BY <2>1 DEF na, nb
      <3>2. Beside(a1, b1, ShiftAfter(na, nb, sh[x])) /\ Proceeds(a, a1, na)
        BY <2>1, <3>1, ExecBeside
      <3>3. QED BY <2>2, <3>2 DEF ShiftAfter
    <2>4. Turn(t, a) = Onward(t, a1) /\ Turn(u, b) = Onward(u, b1)
      BY <1>2, <2>1 DEF Turn, Step
    <2> HIDE DEF a1, b1
    <2>5. IsVm(a1) /\ IsVm(b1) /\ b1.n = a1.n /\ b1.status = a1.status
      BY <2>3 DEF Beside
    <2>6. CASE a1.status = "run"
      <3> DEFINE y == a1.n
      <3>1. y \in S /\ sh[y] = sh[x] /\ y # Null
        <4>1. y = x \/ (na.type \in Bracket /\ y = na.jmp)
          BY <2>3, <2>6 DEF Proceeds, Goes, InPlace
        <4>2. na.type \in Bracket => na.jmp \in S /\ sh[na.jmp] = sh[x]
          BY <2>1 DEF Alike, Matched, na
        <4>3. S \subseteq NodeId
          BY DEF Alike
        <4>4. QED BY <2>1, <4>1, <4>2, <4>3, Ids
      <3>2. GoAlike(t, u, r, S, sh, y, sh[y])
        BY <3>1 DEF Alike
      <3>3. /\ Onward(t, a1) = Placed(a1, t.next[y], 0)
            /\ Onward(u, b1) = Placed(b1, u.next[y], 0)
        BY <2>5, <2>6, OnwardPlaces
      <3>4. Beside(a1, b1, sh[y])
        BY <2>3, <3>1
      <3> HIDE DEF y
      <3>5. PICK a2, b2 :
              /\ Moved(t, Placed(a1, t.next[y], 0)) = Moved(t, a2)
              /\ Moved(u, Placed(b1, u.next[y], 0)) = Moved(u, b2)
              /\ Early(t, S, a2, b2) \/ Together(a2, b2, S, sh)
        BY <3>2, <3>4, GoesAlike
      <3>6. CASE Early(t, S, a2, b2)
        <4>1. Moved(t, a2) = a2 /\ Moved(u, b2) = b2
          BY <3>6 DEF Early, AtRest, NodeOf, LastAdd, Moved
        <4>2. QED BY <2>4, <3>3, <3>5, <3>6, <4>1 DEF Outcome
      <3>7. CASE Together(a2, b2, S, sh)
        <4>1. Outcome(t, S, sh, Moved(t, a2), Moved(u, b2))
          BY <3>7, MovedAlike
        <4>2. QED BY <2>4, <3>3, <3>5, <4>1
      <3>8. QED BY <3>5, <3>6, <3>7
    <2>7. CASE a1.status # "run"
      <3>1. a1.status # "done"
        BY <1>2, <2>3, <2>7 DEF Proceeds, Goes, InPlace
      <3>2. Onward(t, a1) = a1 /\ Onward(u, b1) = b1
        BY <2>5, <2>7 DEF Onward
      <3>3. Together(a1, b1, S, sh)
        BY <2>3, <2>7, <3>1 DEF Together
      <3>4. QED BY <2>4, <3>2, <3>3, MovedAlike
    <2>8. QED BY <2>6, <2>7
  <1>3. QED BY <1>1, <1>2

\* The machines that trees start differ in the first node only.
LEMMA StartPlaces ==
  ASSUME NEW t, NEW u, NEW tape, NEW string, NEW stdin
  PROVE  Machine(u, tape, string, stdin) =
           Placed(Machine(t, tape, string, stdin), u.next[Null], 0)
  <1> DEFINE x  == u.next[Null]
             st == IF x = Null THEN "done" ELSE "run"
             x0 == t.next[Null]
             s0 == IF x0 = Null THEN "done" ELSE "run"
             Begun(y, s) == [ n |-> y, p |-> 0, tape |-> tape, string |-> string,
                              stdin |-> stdin, io |-> <<>>, status |-> s ]
  <1>1. Machine(u, tape, string, stdin) = Begun(x, st) /\ Machine(t, tape, string, stdin) = Begun(x0, s0)
    BY DEF Machine
  <1>2. Placed(Begun(x0, s0), x, 0) =
          [Begun(x0, s0) EXCEPT !.n = x, !.p = Begun(x0, s0).p + 0, !.status = st]
    BY DEF Placed
  <1> HIDE DEF x, st, x0, s0
  <1>3. Begun(x0, s0).p + 0 = 0
    OBVIOUS
  <1> DEFINE m == [Begun(x0, s0) EXCEPT !.n = x, !.p = 0, !.status = st]
  <1>4. m = Begun(x, st)
    <2> DEFINE c == Begun(x, st)
    <2>1. /\ m = [f \in Fields |-> m[f]]
          /\ c = [f \in Fields |-> c[f]]
      BY DEF Fields
    <2>2. /\ m.n = c.n /\ m.p = c.p /\ m.tape = c.tape /\ m.string = c.string
          /\ m.stdin = c.stdin /\ m.io = c.io /\ m.status = c.status
      OBVIOUS
    <2> HIDE DEF m, c
    <2>3. ASSUME NEW f \in Fields PROVE m[f] = c[f]
      BY <2>2 DEF Fields
    <2>4. QED BY <2>1, <2>3 DEF c
  <1>5. QED BY <1>1, <1>2, <1>3, <1>4 DEF x

\* Before the first command, the machines are as Outcome says.
LEMMA StartAlike ==
  ASSUME NEW t \in Tree, NEW u \in Tree, NEW r, Places(t, r), NEW q, Places(u, q),
         NEW S, NEW sh, Alike(t, u, r, S, sh), S \subseteq {x \in NodeId : Live(u, x)},
         NEW tape, IsTape(tape), NEW stdin \in Seq(Int)
  PROVE  Outcome(t, S, sh, Moved(t, Machine(t, tape, NoString, stdin)),
                           Moved(u, Machine(u, tape, NoString, stdin)))
  <1> DEFINE m == Machine(t, tape, NoString, stdin)
             m2 == Machine(u, tape, NoString, stdin)
  <1>1. NoString \in [on : BOOLEAN, left : Seq(Int)]
    BY DEF NoString
  <1>2. /\ DOMAIN m = Fields /\ m.p = 0 /\ m.tape = tape /\ m.stdin = stdin
        /\ m.string = NoString
    BY DEF Machine, Fields
  <1>3. m = Placed(m, t.next[Null], 0) /\ m2 = Placed(m, u.next[Null], 0)
    BY StartPlaces
  <1> HIDE DEF m, m2
  <1>4. IsVm(m)
    BY <1>1, <1>2 DEF IsVm
  <1>5. Beside(m, m, 0)
    <2>1. m.p = m.p + 0
      BY <1>2
    <2>2. QED BY <1>4, <2>1 DEF Beside
  <1>6. GoAlike(t, u, r, S, sh, Null, 0)
    BY DEF Alike
  <1>7. PICK a2, b2 :
          /\ Moved(t, Placed(m, t.next[Null], 0)) = Moved(t, a2)
          /\ Moved(u, Placed(m, u.next[Null], 0)) = Moved(u, b2)
          /\ Early(t, S, a2, b2) \/ Together(a2, b2, S, sh)
    BY <1>5, <1>6, GoesAlike
  <1>8. CASE Early(t, S, a2, b2)
    <2>1. Moved(t, a2) = a2 /\ Moved(u, b2) = b2
      BY <1>8 DEF Early, AtRest, NodeOf, LastAdd, Moved
    <2>2. QED BY <1>3, <1>7, <1>8, <2>1 DEF Outcome, m, m2
  <1>9. CASE Together(a2, b2, S, sh)
    <2>1. Outcome(t, S, sh, Moved(t, a2), Moved(u, b2))
      BY <1>9, MovedAlike
    <2>2. QED BY <1>3, <1>7, <2>1 DEF m, m2
  <1>10. QED BY <1>7, <1>8, <1>9

\* Command by command the second run is like the first, or it is over and the
\* first is after one command more.
Matches(a, b, e) ==
  /\ b.status = a.status /\ b.io = a.io /\ b.tape = a.tape /\ b.stdin = a.stdin
  /\ a.status = "done" => a.p \in Int /\ b.p = a.p + e

Sooner(t, S, a, a2, b) ==
  /\ \E z : LastAdd(t, S, z)
  /\ b.status = "done" /\ a2.status = "done" /\ b.io = a.io /\ a2.io = a.io

\* Runs of trees that are Alike match, except that the second may be over one
\* command sooner, where the first still has an addition to do that it lacks.
LEMMA RunsAlike ==
  ASSUME NEW t \in Tree, NEW u \in Tree, NEW r, Places(t, r), NEW q, Places(u, q),
         NEW S, NEW sh, Alike(t, u, r, S, sh), S \subseteq {x \in NodeId : Live(u, x)},
         NEW tape, IsTape(tape), NEW stdin \in Seq(Int), NEW k \in Nat
  PROVE  LET a(i) == Commands(t, Machine(t, tape, NoString, stdin), i)
             b(i) == Commands(u, Machine(u, tape, NoString, stdin), i)
         IN  Matches(a(k), b(k), sh[Null]) \/ Sooner(t, S, a(k), a(k + 1), b(k))
  <1> DEFINE m == Machine(t, tape, NoString, stdin)
             m2 == Machine(u, tape, NoString, stdin)
             a(i) == Commands(t, m, i)
             b(i) == Commands(u, m2, i)
             Left(i) == BothOver(a(i), b(i)) /\ \E z : LastAdd(t, S, z)
             T == {i \in Nat : Outcome(t, S, sh, a(i), b(i)) \/ Left(i)}
  <1> HIDE DEF m, m2
  <1>1. \A i \in Nat : /\ a(i + 1) = Moved(t, Turn(t, a(i)))
                       /\ b(i + 1) = Moved(u, Turn(u, b(i)))
    BY CommandsGoOn
  <1>2. a(0) = Moved(t, m) /\ b(0) = Moved(u, m2)
    BY CommandsGoOn
  <1>3. 0 \in T
    <2>1. Outcome(t, S, sh, Moved(t, m), Moved(u, m2))
      BY StartAlike DEF m, m2
    <2>2. QED BY <1>2, <2>1
  <1> HIDE DEF a, b
  <1>4. ASSUME NEW i \in Nat, BothOver(a(i), b(i)) PROVE a(i + 1) = a(i) /\ b(i + 1) = b(i)
    <2>1. Turn(t, a(i)) = a(i) /\ Turn(u, b(i)) = b(i)
      BY <1>4 DEF Turn, BothOver
    <2>2. Moved(t, a(i)) = a(i) /\ Moved(u, b(i)) = b(i)
      BY <1>4 DEF Moved, AtRest, BothOver
    <2>3. QED BY <1>1, <2>1, <2>2
  <1>5. ASSUME NEW i \in Nat, Early(t, S, a(i), b(i)) PROVE Left(i + 1)
    <2>1. BothOver(Moved(t, Turn(t, a(i))), Moved(u, Turn(u, b(i))))
      BY <1>5, EarlyEnds
    <2>2. \E z : LastAdd(t, S, z)
      BY <1>5 DEF Early
    <2>3. QED BY <1>1, <2>1, <2>2
  <1>6. ASSUME NEW i \in Nat, i \in T PROVE i + 1 \in T
    <2>1. CASE Together(a(i), b(i), S, sh) /\ AtRest(t, a(i))
      <3>1. Outcome(t, S, sh, Moved(t, Turn(t, a(i))), Moved(u, Turn(u, b(i))))
        BY <2>1, CommandAlike
      <3>2. QED BY <1>1, <3>1
    <2>2. CASE Early(t, S, a(i), b(i))
      BY <1>5, <2>2
    <2>3. CASE Left(i)
      BY <1>4, <2>3
    <2>4. QED BY <1>6, <2>1, <2>2, <2>3 DEF Outcome
  <1>7. k \in T
    <2> HIDE DEF T
    <2>1. QED BY <1>3, <1>6, Induction
  <1>8. CASE Together(a(k), b(k), S, sh)
    <2>1. Matches(a(k), b(k), sh[Null])
      BY <1>8 DEF Together, Beside, IsVm, Matches
    <2>2. QED BY <2>1 DEF a, b, m, m2
  <1>9. CASE Early(t, S, a(k), b(k))
    <2>1. Left(k + 1)
      BY <1>5, <1>9
    <2>2. Sooner(t, S, a(k), a(k + 1), b(k))
      <3>1. b(k + 1) = b(k)
        <4>1. b(k).status = "done"
          BY <1>9 DEF Early
        <4>2. Turn(u, b(k)) = b(k) /\ Moved(u, b(k)) = b(k)
          BY <4>1 DEF Turn, Moved, AtRest
        <4>3. QED BY <1>1, <4>2
      <3>2. b(k).io = a(k).io
        BY <1>9 DEF Early
      <3>3. QED BY <2>1, <3>1, <3>2 DEF BothOver, Sooner
    <2>3. QED BY <2>2 DEF a, b, m, m2
  <1>10. CASE Left(k)
    <2>1. a(k + 1) = a(k)
      BY <1>4, <1>10
    <2>2. Sooner(t, S, a(k), a(k + 1), b(k))
      BY <1>10, <2>1 DEF BothOver, Sooner
    <2>3. QED BY <2>2 DEF a, b, m, m2
  <1>11. QED BY <1>7, <1>8, <1>9, <1>10 DEF Outcome
=============================================================================
