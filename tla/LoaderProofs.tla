---------------------------- MODULE LoaderProofs ----------------------------
(***************************************************************************)
(* The loader, for every file: the lines read are the lines of the text,   *)
(* each character lands in its row and column, and a file is rejected      *)
(* exactly when it does not fit.                                           *)
(***************************************************************************)
EXTENDS Loader, BlockProofs, FiniteSetTheorems

-----------------------------------------------------------------------------
(* The invariant. *)

(***************************************************************************)
(* Line l of the file lies between two marks: it is what stands after e[l-1] *)
(* and before e[l], which is a newline or the end of the file.             *)
(***************************************************************************)
Line(l, a, b) ==
  /\ a < b /\ a < Len(text)
  /\ ins[l] = SubSeq(text, a + 1, b - 1)
  /\ \A k \in a+1..b-1 : text[k] # Newline
  /\ b = Len(text) + 1 \/ text[b] = Newline

Marks(e) ==
  /\ e[0] = 0
  /\ \A l \in 1..Len(ins) : Line(l, e[l-1], e[l])
  /\ rest = SubSeq(text, e[Len(ins)] + 1, Len(text))

MarksOf(n) == [0..n -> 0..Len(text)+1]

\* What getline has taken from the stream is what is in ins.
ReadInv == \E e \in MarksOf(Len(ins)) : Marks(e)

\* The cells the two loops have come by.
Copied(c) == c.y < i \/ (phase = "copy" /\ c.y = i /\ c.x < j)

Loaded ==
  [c \in Coord |-> IF Copied(c) /\ c.x < Len(ins[c.y + 1]) THEN ins[c.y + 1][c.x + 1] ELSE 0]

TooLarge == Len(ins) > N_ROWS \/ \E l \in 1..Len(ins) : Len(ins[l]) > N_COLS

CopyInv ==
  /\ mem = Loaded
  /\ i \in 0..Len(ins) /\ j \in Nat
  /\ phase \in {"start", "read"} => i = 0
  /\ \A l \in 1..i : Len(ins[l]) <= N_COLS
  /\ phase \in {"line", "copy", "run"} => rest = << >> /\ Len(ins) <= N_ROWS
  /\ phase = "copy" => i < Len(ins) /\ Len(s) <= N_COLS /\ j <= Len(s)
  /\ phase = "run" => i = Len(ins)
  /\ phase = "rejected" => argc < 2 \/ (rest = << >> /\ TooLarge)

LoaderType ==
  /\ argc \in {1, 2}
  /\ text \in Seq(Byte) /\ rest \in Seq(Byte) /\ ins \in Seq(Seq(Byte))
  /\ phase \in {"start", "read", "line", "copy", "run", "rejected"}
  /\ phase = "start" => ins = << >>

LoaderInv == LoaderType /\ ReadInv /\ CopyInv

-----------------------------------------------------------------------------
(* std::getline. *)

\* A line ends at a newline or with the text.
LEMMA LineEndType ==
  ASSUME NEW t \in Seq(Byte)
  PROVE  /\ LineEnd(t) \in 0..Len(t)
         /\ LineEnd(t) = Len(t) \/ t[LineEnd(t) + 1] = Newline
         /\ \A l \in 1..LineEnd(t) : t[l] # Newline
<1> DEFINE E == {k \in 0..Len(t) : k = Len(t) \/ t[k + 1] = Newline}
<1>1. Len(t) \in E /\ E \in SUBSET Nat
  BY LenProperties
<1>2. PICK k \in E : \A l \in E : k <= l
  BY <1>1, LeastElement
<1>3. ASSUME NEW l \in 1..k PROVE t[l] # Newline
  <2>1. l - 1 \in 0..Len(t) /\ l - 1 < k /\ l = (l - 1) + 1
    BY <1>1
  <2>2. l - 1 \notin E
    <3> HIDE DEF E
    <3> QED BY <1>1, <1>2, <2>1
  <2> QED BY <2>1, <2>2
<1>4. \E n \in 0..Len(t) : /\ n = Len(t) \/ t[n + 1] = Newline
                           /\ \A l \in 1..n : t[l] # Newline
  BY <1>3
<1> QED BY <1>4 DEF LineEnd

\* getline moves on by one line: a new mark.
LEMMA GetLineMarks ==
  ASSUME LoaderType, ReadInv, GetLine
  PROVE  ReadInv'
<1>m. PICK m, n, k : m = Len(text) /\ n = Len(ins) /\ k = LineEnd(rest)
  OBVIOUS
<1>1. PICK e \in MarksOf(n) : Marks(e)
  BY <1>m DEF ReadInv
<1>a. PICK a, b : a = e[n] /\ b = a + k + 1
  OBVIOUS
<1> DEFINE f == [l \in 0..n+1 |-> IF l = n + 1 THEN b ELSE e[l]]
<1>2. /\ m \in Nat /\ n \in Nat /\ rest # << >>
      /\ ins' = Append(ins, SubSeq(rest, 1, k))
      /\ rest' = SubSeq(rest, k + 2, Len(rest))
      /\ text' = text
      /\ text \in Seq(Byte) /\ rest \in Seq(Byte) /\ ins \in Seq(Seq(Byte))
  BY <1>m, LenProperties DEF LoaderType, GetLine
<1>3. a \in 0..m+1 /\ b = a + k + 1 /\ rest = SubSeq(text, a + 1, m)
  <2>1. e \in [0..n -> 0..m+1] /\ n \in 0..n
    BY <1>m, <1>2 DEF MarksOf
  <2>2. a \in 0..m+1 /\ b = a + k + 1
    BY <1>a, <2>1
  <2> QED BY <2>2, <1>m, <1>a, <1>1 DEF Marks
<1>4. /\ a < m /\ Len(rest) = m - a
      /\ \A l \in 1..Len(rest) : rest[l] = text[a + l]
  <2>1. a + 1 \in Int /\ m \in Int /\ \A q \in a + 1 .. m : text[q] \in Byte
    BY <1>2, <1>3, ElementOfSeq
  <2>2. Len(rest) = IF a + 1 <= m THEN m - (a + 1) + 1 ELSE 0
    BY <2>1, <1>3, SubSeqProperties
  <2>3. Len(rest) # 0
    BY <1>2, EmptySeq
  <2>4. a < m /\ Len(rest) = m - a
    BY <2>2, <2>3, <1>3, <1>2
  <2> QED BY <1>2, <1>3, <2>4
<1>5. /\ k \in 0..m-a
      /\ k = m - a \/ text[a + k + 1] = Newline
      /\ \A l \in 1..k : text[a + l] # Newline
  <2>1. /\ k \in 0..Len(rest) /\ (k = Len(rest) \/ rest[k + 1] = Newline)
        /\ \A l \in 1..k : rest[l] # Newline
    BY <1>m, <1>2, LineEndType
  <2>2. k \in 0..m-a /\ (k = m - a \/ text[a + k + 1] = Newline)
    <3>1. k + 1 \in 1..Len(rest) \/ k = m - a
      BY <1>2, <1>3, <1>4, <2>1
    <3>2. k + 1 \in 1..Len(rest) => rest[k + 1] = text[a + (k + 1)]
      BY <1>4
    <3> QED BY <1>2, <1>3, <1>4, <2>1, <3>1, <3>2
  <2>3. ASSUME NEW l \in 1..k PROVE text[a + l] # Newline
    <3>1. l \in 1..Len(rest)
      BY <1>2, <1>4, <2>2
    <3> QED BY <3>1, <2>1, <1>4
  <2> QED BY <2>2, <2>3
<1>6. b \in 0..m+1 /\ a < b
  BY <1>2, <1>3, <1>5
<1>7. /\ Len(ins') = n + 1
      /\ ins'[n + 1] = SubSeq(rest, 1, k)
      /\ \A l \in 1..n : ins'[l] = ins[l]
  <2>1. SubSeq(rest, 1, k) \in Seq(Byte)
    <3>1. ASSUME NEW q \in 1..k PROVE rest[q] \in Byte
      <4>1. q \in 1..Len(rest)
        BY <1>2, <1>3, <1>4, <1>5
      <4> QED BY <4>1, <1>2, ElementOfSeq
    <3>2. 1 \in Int /\ k \in Int
      BY <1>5
    <3> QED BY <3>1, <3>2, SubSeqProperties
  <2> QED BY <1>m, <1>2, <2>1, AppendProperties
<1>8. SubSeq(rest, 1, k) = SubSeq(text, a + 1, b - 1)
  BY <1>2, <1>3, <1>4, <1>5, SMTT(30)
<1>9. rest' = SubSeq(text, b + 1, m)
  BY <1>2, <1>3, <1>4, <1>5, SMTT(30)
<1>10. Line(n + 1, a, b)'
  <2>1. \A q \in a+1..b-1 : text[q] # Newline
    <3> SUFFICES ASSUME NEW q \in a+1..b-1 PROVE text[q] # Newline
      OBVIOUS
    <3>1. q - a \in 1..k /\ q = a + (q - a)
      BY <1>3, <1>5, <1>2
    <3> QED BY <3>1, <1>5
  <2>2. b = m + 1 \/ text[b] = Newline
    BY <1>2, <1>3, <1>5
  <2> QED BY <1>m, <1>2, <1>4, <1>6, <1>7, <1>8, <2>1, <2>2 DEF Line
<1>11. ASSUME NEW l \in 1..n PROVE Line(l, e[l-1], e[l])'
  BY <1>m, <1>1, <1>2, <1>7 DEF Marks, Line
<1>12. f \in MarksOf(n + 1)' /\ f[0] = 0 /\ f[n + 1] = b /\ \A l \in 0..n : f[l] = e[l]
  <2>1. e \in [0..n -> 0..m+1] /\ e[0] = 0
    BY <1>m, <1>1 DEF MarksOf, Marks
  <2>2. n + 1 \in 0..n+1 /\ n + 1 \notin 0..n /\ 0 \in 0..n /\ \A l \in 0..n : l \in 0..n+1 /\ l # n + 1
    BY <1>2
  <2>3. f \in [0..n+1 -> 0..m+1]
    <3>1. ASSUME NEW l \in 0..n+1, l # n + 1 PROVE l \in 0..n
      BY <1>2, <3>1
    <3> QED BY <2>1, <3>1, <1>6
  <2> QED BY <2>1, <2>2, <2>3, <1>m, <1>2 DEF MarksOf
<1> HIDE DEF f
<1>13. ASSUME NEW l \in 1..n+1 PROVE Line(l, f[l-1], f[l])'
  <2>1. CASE l = n + 1
    <3>1. f[l-1] = a /\ f[l] = b
      BY <1>a, <2>1, <1>12, <1>2
    <3> QED BY <3>1, <2>1, <1>10
  <2>2. CASE l \in 1..n
    <3>1. f[l-1] = e[l-1] /\ f[l] = e[l]
      BY <2>2, <1>12, <1>2
    <3> QED BY <3>1, <2>2, <1>11
  <2> QED BY <2>1, <2>2, <1>2
<1>14. Marks(f)'
  BY <1>m, <1>7, <1>9, <1>12, <1>2, <1>13 DEF Marks
<1> QED BY <1>7, <1>12, <1>14 DEF ReadInv

-----------------------------------------------------------------------------
(* The two loops. *)

\* Before the loops nothing has been copied.
LEMMA LoadedNothing ==
  ASSUME i = 0, phase # "copy"
  PROVE  Loaded = [c \in Coord |-> 0]
<1>1. ASSUME NEW c \in Coord PROVE ~Copied(c)
  BY GridAssumption DEF Copied, Coord
<1> QED BY <1>1 DEF Loaded

\* What is copied stays in the playfield.
LEMMA LoadedType ==
  ASSUME LoaderType, CopyInv
  PROVE  mem \in Memory
<1>1. ASSUME NEW c \in Coord, Copied(c), c.x < Len(ins[c.y + 1])
      PROVE  ins[c.y + 1][c.x + 1] \in Byte
  <2>1. c.x \in Nat /\ c.y \in Nat
    BY GridAssumption DEF Coord
  <2>2. c.y + 1 \in 1..Len(ins)
    <3>1. Len(ins) \in Nat /\ i \in 0..Len(ins) /\ (phase = "copy" => i < Len(ins))
      BY LenProperties DEF LoaderType, CopyInv
    <3>2. c.y < i \/ (c.y = i /\ i < Len(ins))
      BY <1>1, <3>1 DEF Copied
    <3> QED BY <2>1, <3>1, <3>2
  <2>3. ins[c.y + 1] \in Seq(Byte)
    BY <2>2, ElementOfSeq DEF LoaderType
  <2>4. c.x + 1 \in 1..Len(ins[c.y + 1])
    BY <1>1, <2>1, <2>3, LenProperties
  <2> QED BY <2>3, <2>4, ElementOfSeq
<1>2. 0 \in Byte
  BY DEF Byte
<1> QED BY <1>1, <1>2 DEF CopyInv, Loaded, Memory

\* The first line, or the next one.
LEMMA NextLineCopies ==
  ASSUME LoaderType, CopyInv, NextLine
  PROVE  CopyInv'
<1>1. /\ phase = "line" /\ i < Len(ins) /\ i \in 0..Len(ins) /\ Len(ins) \in Nat
      /\ s = ins[i + 1] /\ j' = 0 /\ Len(s) \in Nat
      /\ i' = i /\ ins' = ins /\ rest' = rest /\ mem' = mem /\ argc' = argc /\ s' = s
      /\ rest = << >> /\ Len(ins) <= N_ROWS
      /\ phase' \in {"rejected", "copy"}
      /\ phase' = "rejected" => Len(s) > N_COLS
      /\ phase' = "copy" => Len(s) <= N_COLS
  <2>1. phase = "line" /\ i < Len(ins) /\ i \in 0..Len(ins) /\ Len(ins) \in Nat
    BY LenProperties DEF LoaderType, CopyInv, NextLine
  <2>2. ins[i + 1] \in Seq(Byte)
    BY <2>1, ElementOfSeq DEF LoaderType
  <2>3. Len(s) \in Nat
    BY <2>2, LenProperties DEF s
  <2>4. N_COLS \in Nat
    BY GridAssumption
  <2> QED BY <2>1, <2>3, <2>4 DEF NextLine, CopyInv, s
<1>2. Loaded' = Loaded
  <2>1. ASSUME NEW c \in Coord PROVE Copied(c)' <=> Copied(c)
    BY <1>1, GridAssumption DEF Copied, Coord
  <2> QED BY <1>1, <2>1 DEF Loaded
<1>3. phase' = "rejected" => TooLarge'
  BY <1>1 DEF TooLarge
<1>4. \A l \in 1..i' : Len(ins'[l]) <= N_COLS
  BY <1>1 DEF CopyInv
<1>5. mem' = Loaded'
  BY <1>1, <1>2 DEF CopyInv
<1> QED BY <1>1, <1>3, <1>4, <1>5 DEF CopyInv

\* One character.
LEMMA CopyCharCopies ==
  ASSUME LoaderType, CopyInv, CopyChar
  PROVE  CopyInv'
<1>1. /\ phase = "copy" /\ phase' = "copy" /\ j' = j + 1 /\ j \in Nat /\ j < Len(s)
      /\ i < Len(ins) /\ i \in 0..Len(ins) /\ Len(ins) \in Nat /\ Len(ins) <= N_ROWS
      /\ Len(s) \in Nat /\ Len(s) <= N_COLS /\ rest = << >>
      /\ i' = i /\ ins' = ins /\ rest' = rest /\ s' = s /\ argc' = argc /\ s = ins[i + 1]
  <2>1. phase = "copy" /\ i < Len(ins) /\ i \in 0..Len(ins) /\ Len(ins) \in Nat
    BY LenProperties DEF LoaderType, CopyInv, CopyChar
  <2>2. ins[i + 1] \in Seq(Byte)
    BY <2>1, ElementOfSeq DEF LoaderType
  <2>3. Len(s) \in Nat
    BY <2>2, LenProperties DEF s
  <2> QED BY <2>1, <2>3 DEF CopyChar, CopyInv, s
<1> DEFINE d == [x |-> j, y |-> i]
<1>2. d \in Coord
  BY <1>1, GridAssumption DEF Coord
<1>3. mem' = [c \in Coord |-> IF c = d THEN s[j + 1] ELSE mem[c]]
  <2>1. DOMAIN mem \cup {d} = Coord
    BY <1>2 DEF CopyInv, Loaded
  <2> QED BY <2>1 DEF CopyChar
<1>4. ASSUME NEW c \in Coord PROVE mem'[c] = Loaded'[c]
  <2>0. /\ c.x \in Nat /\ c.y \in Nat
        /\ c = [x |-> c.x, y |-> c.y]
        /\ mem[c] = IF Copied(c) /\ c.x < Len(ins[c.y + 1]) THEN ins[c.y + 1][c.x + 1] ELSE 0
        /\ Loaded'[c] = IF Copied(c)' /\ c.x < Len(ins[c.y + 1]) THEN ins[c.y + 1][c.x + 1] ELSE 0
    BY <1>1, GridAssumption DEF Coord, CopyInv, Loaded
  <2>1. CASE c = d
    <3>1. c.x = j /\ c.y = i
      BY <2>1
    <3>2. Copied(c)'
      BY <1>1, <3>1 DEF Copied
    <3> QED BY <1>1, <1>3, <2>0, <2>1, <3>1, <3>2
  <2>2. CASE c # d
    <3>1. ~(c.x = j /\ c.y = i)
      BY <2>0, <2>2
    <3>2. Copied(c)' <=> Copied(c)
      BY <1>1, <2>0, <3>1 DEF Copied
    <3> QED BY <1>3, <2>0, <2>2, <3>2
  <2> QED BY <2>1, <2>2
<1>5. mem' = Loaded'
  BY <1>3, <1>4 DEF Loaded
<1>6. \A l \in 1..i' : Len(ins'[l]) <= N_COLS
  BY <1>1 DEF CopyInv
<1>7. j' \in Nat /\ j' <= Len(s)
  BY <1>1
<1> QED BY <1>1, <1>5, <1>6, <1>7 DEF CopyInv

\* The end of a line.
LEMMA EndLineCopies ==
  ASSUME LoaderType, CopyInv, EndLine
  PROVE  CopyInv'
<1>1. /\ phase = "copy" /\ phase' = "line" /\ j' = j /\ j \in Nat /\ j = Len(s)
      /\ i < Len(ins) /\ i \in 0..Len(ins) /\ Len(ins) \in Nat /\ Len(ins) <= N_ROWS
      /\ Len(s) <= N_COLS /\ rest = << >>
      /\ i' = i + 1 /\ ins' = ins /\ rest' = rest /\ mem' = mem /\ argc' = argc /\ s = ins[i + 1]
  BY LenProperties DEF LoaderType, CopyInv, EndLine, s
<1>2. ASSUME NEW c \in Coord
      PROVE  (Copied(c)' /\ c.x < Len(ins[c.y + 1])) <=> (Copied(c) /\ c.x < Len(ins[c.y + 1]))
  <2>1. c.x \in Nat /\ c.y \in Nat
    BY GridAssumption DEF Coord
  <2>2. CASE c.y = i
    BY <1>1, <2>1, <2>2 DEF Copied
  <2>3. CASE c.y # i
    BY <1>1, <2>1, <2>3 DEF Copied
  <2> QED BY <2>2, <2>3
<1>3. mem' = Loaded'
  BY <1>1, <1>2 DEF CopyInv, Loaded
<1>4. ASSUME NEW l \in 1..i' PROVE Len(ins'[l]) <= N_COLS
  <2>1. l \in 1..i \/ l = i + 1
    BY <1>1
  <2> QED BY <1>1, <2>1 DEF CopyInv
<1>5. i' \in 0..Len(ins)
  BY <1>1
<1> QED BY <1>1, <1>3, <1>4, <1>5 DEF CopyInv

-----------------------------------------------------------------------------
(* The invariant is inductive. *)

\* The invariant holds at first.
LEMMA LoaderInit == Init => LoaderInv
<1> SUFFICES ASSUME Init PROVE LoaderInv
  OBVIOUS
<1>1. LoaderType
  BY TextsAssumption, EmptySeq DEF Init, LoaderType
<1>2. ReadInv
  <2> DEFINE e == [l \in 0..0 |-> 0]
  <2>1. Len(ins) = 0 /\ Len(text) \in Nat /\ e[0] = 0
    BY <1>1, LenProperties DEF LoaderType, Init
  <2>2. e \in MarksOf(Len(ins))
    BY <2>1 DEF MarksOf
  <2>3. rest = SubSeq(text, e[Len(ins)] + 1, Len(text))
    BY <1>1, <2>1, SubSeqFull DEF LoaderType, Init
  <2>4. Marks(e)
    BY <2>1, <2>3 DEF Marks
  <2> QED BY <2>2, <2>4 DEF ReadInv
<1>3. CopyInv
  BY LoadedNothing DEF Init, CopyInv
<1> QED BY <1>1, <1>2, <1>3 DEF LoaderInv

\* The lines read are not looked at again: a step that reads none keeps them.
LEMMA ReadInvKept ==
  ASSUME ReadInv, UNCHANGED <<text, rest, ins>>
  PROVE  ReadInv'
<1>1. PICK e \in MarksOf(Len(ins)) : Marks(e)
  BY DEF ReadInv
<1>2. Marks(e)' /\ e \in MarksOf(Len(ins))'
  BY <1>1 DEF Marks, MarksOf, Line
<1> QED BY <1>2 DEF ReadInv

\* A line that is read is a sequence of bytes.
LEMMA GetLineType ==
  ASSUME LoaderType, GetLine
  PROVE  LoaderType'
<1>1. LineEnd(rest) \in 0..Len(rest) /\ Len(rest) \in Nat /\ rest \in Seq(Byte) /\ ins \in Seq(Seq(Byte))
  BY LineEndType, LenProperties DEF LoaderType
<1>2. \A q \in 1..LineEnd(rest) : rest[q] \in Byte
  BY <1>1, ElementOfSeq
<1>3. \A q \in LineEnd(rest)+2..Len(rest) : rest[q] \in Byte
  BY <1>1, ElementOfSeq
<1>4. SubSeq(rest, 1, LineEnd(rest)) \in Seq(Byte)
  <2>1. 1 \in Int /\ LineEnd(rest) \in Int
    BY <1>1
  <2> QED BY <1>2, <2>1, SubSeqProperties
<1>5. SubSeq(rest, LineEnd(rest) + 2, Len(rest)) \in Seq(Byte)
  <2>1. LineEnd(rest) + 2 \in Int /\ Len(rest) \in Int
    BY <1>1
  <2> QED BY <1>3, <2>1, SubSeqProperties
<1>6. ins' \in Seq(Seq(Byte))
  BY <1>1, <1>4, AppendProperties DEF GetLine
<1>7. phase' = "read" /\ rest' \in Seq(Byte) /\ text' = text /\ argc' = argc
  BY <1>5 DEF GetLine
<1> QED BY <1>6, <1>7 DEF LoaderType

\* Every step keeps the invariant.
LEMMA LoaderStep == LoaderInv /\ [Next]_vars => LoaderInv'
<1> SUFFICES ASSUME LoaderInv, [Next]_vars PROVE LoaderInv'
  OBVIOUS
<1> USE DEF LoaderInv
<1>0. /\ N_ROWS \in Nat /\ N_COLS \in Nat /\ Len(ins) \in Nat
  BY GridAssumption, LenProperties DEF LoaderType
<1>1. CASE NoFilename
  <2>1. UNCHANGED <<argc, text, rest, ins, i, j, mem>> /\ phase' = "rejected" /\ argc < 2
        /\ phase = "start" /\ i = 0
    BY <1>1 DEF NoFilename, CopyInv
  <2>2. LoaderType' /\ ReadInv'
    BY <2>1, ReadInvKept DEF LoaderType
  <2>3. Loaded' = Loaded
    BY <2>1, LoadedNothing DEF Loaded, Copied
  <2>4. CopyInv'
    BY <2>1, <2>3 DEF CopyInv
  <2> QED BY <2>2, <2>4
<1>2. CASE Open
  <2>1. UNCHANGED <<argc, text, rest, ins, i, j, mem>> /\ phase' = "read"
        /\ phase = "start" /\ i = 0
    BY <1>2 DEF Open, CopyInv
  <2>2. LoaderType' /\ ReadInv'
    BY <2>1, ReadInvKept DEF LoaderType
  <2>3. Loaded' = Loaded
    BY <2>1, LoadedNothing DEF Loaded, Copied
  <2>4. CopyInv'
    BY <2>1, <2>3 DEF CopyInv
  <2> QED BY <2>2, <2>4
<1>3. CASE GetLine
  <2>1. phase = "read" /\ UNCHANGED <<argc, text, i, j, mem, phase>> /\ i = 0
        /\ mem = Loaded
    BY <1>3 DEF GetLine, CopyInv
  <2>2. LoaderType' /\ ReadInv'
    BY <1>3, GetLineType, GetLineMarks
  <2>3. Loaded = [c \in Coord |-> 0]
    BY <2>1, LoadedNothing
  <2>4. Loaded' = [c \in Coord |-> 0]
    <3>1. ASSUME NEW c \in Coord PROVE ~Copied(c)'
      BY <2>1, GridAssumption DEF Copied, Coord
    <3> QED BY <3>1 DEF Loaded
  <2>5. Len(ins') \in Nat
    BY <2>2, LenProperties DEF LoaderType
  <2>6. CopyInv'
    <3>1. mem' = Loaded'
      BY <2>1, <2>3, <2>4
    <3>2. i' \in 0..Len(ins') /\ j' \in Nat /\ i' = 0 /\ phase' = "read"
      BY <2>1, <2>5 DEF CopyInv
    <3>3. \A l \in 1..i' : Len(ins'[l]) <= N_COLS
      BY <3>2
    <3> QED BY <3>1, <3>2, <3>3 DEF CopyInv
  <2> QED BY <2>2, <2>6
<1>4. CASE CountLines
  <2>1. UNCHANGED <<argc, text, rest, ins, i, j, mem>> /\ phase = "read" /\ i = 0 /\ rest = << >>
        /\ phase' \in {"rejected", "line"}
        /\ (phase' = "rejected" => Len(ins) > N_ROWS)
        /\ (phase' = "line" => Len(ins) <= N_ROWS)
    BY <1>0, <1>4 DEF CountLines, CopyInv
  <2>2. LoaderType' /\ ReadInv'
    BY <2>1, ReadInvKept DEF LoaderType
  <2>3. Loaded' = Loaded
    <3>1. ASSUME NEW c \in Coord PROVE Copied(c)' <=> Copied(c)
      BY <2>1 DEF Copied
    <3> QED BY <2>1, <3>1 DEF Loaded
  <2>4. phase' = "rejected" => TooLarge'
    BY <2>1 DEF TooLarge
  <2>5. CopyInv'
    BY <2>1, <2>3, <2>4 DEF CopyInv
  <2> QED BY <2>2, <2>5
<1>5. CASE NextLine
  <2>1. UNCHANGED <<argc, text, rest, ins>> /\ phase' \in {"rejected", "copy"}
    BY <1>5 DEF NextLine
  <2>2. LoaderType' /\ ReadInv'
    BY <2>1, ReadInvKept DEF LoaderType
  <2> QED BY <1>5, <2>2, NextLineCopies
<1>6. CASE CopyChar
  <2>1. UNCHANGED <<argc, text, rest, ins>> /\ phase' = "copy"
    BY <1>6 DEF CopyChar
  <2>2. LoaderType' /\ ReadInv'
    BY <2>1, ReadInvKept DEF LoaderType
  <2> QED BY <1>6, <2>2, CopyCharCopies
<1>7. CASE EndLine
  <2>1. UNCHANGED <<argc, text, rest, ins>> /\ phase' = "line"
    BY <1>7 DEF EndLine
  <2>2. LoaderType' /\ ReadInv'
    BY <2>1, ReadInvKept DEF LoaderType
  <2> QED BY <1>7, <2>2, EndLineCopies
<1>8. CASE Run
  <2>1. UNCHANGED <<argc, text, rest, ins, i, j, mem>> /\ phase = "line" /\ phase' = "run"
        /\ i = Len(ins)
    BY <1>8 DEF Run
  <2>2. LoaderType' /\ ReadInv'
    BY <2>1, ReadInvKept DEF LoaderType
  <2>3. Loaded' = Loaded
    <3>1. ASSUME NEW c \in Coord PROVE Copied(c)' <=> Copied(c)
      BY <2>1 DEF Copied
    <3> QED BY <2>1, <3>1 DEF Loaded
  <2>4. CopyInv'
    BY <2>1, <2>3 DEF CopyInv
  <2> QED BY <2>2, <2>4
<1>9. CASE UNCHANGED vars
  <2>1. UNCHANGED <<argc, text, rest, ins, i, j, mem, phase>>
    BY <1>9 DEF vars
  <2>2. LoaderType' /\ ReadInv'
    BY <2>1, ReadInvKept DEF LoaderType
  <2>3. CopyInv'
    BY <2>1 DEF CopyInv, Loaded, Copied, TooLarge, s
  <2> QED BY <2>2, <2>3
<1> QED BY <1>1, <1>2, <1>3, <1>4, <1>5, <1>6, <1>7, <1>8, <1>9 DEF Next, Over

(***************************************************************************)
(* However far the file is read and copied, the lines read and the cells   *)
(* stored are the ones between its marks.                                  *)
(***************************************************************************)
THEOREM LoaderInvariance == Spec => []LoaderInv
BY LoaderInit, LoaderStep, PTL DEF Spec

-----------------------------------------------------------------------------
(* Where the characters of the file are. *)

\* The marks stand in order.
LEMMA MarksIncrease ==
  ASSUME NEW n \in Nat, NEW e \in [0..n -> Nat],
         \A l \in 1..n : e[l-1] < e[l]
  PROVE  \A p, q \in 0..n : p < q => e[p] < e[q]
<1> SUFFICES ASSUME NEW p \in 0..n, NEW q \in 0..n, p < q, ~(e[p] < e[q])
             PROVE  FALSE
  OBVIOUS
<1> DEFINE T == {t \in 0..n : p < t /\ ~(e[p] < e[t])}
<1>1. T \in SUBSET Nat /\ q \in T
  OBVIOUS
<1>2. PICK t \in T : \A u \in T : t <= u
  BY <1>1, LeastElement
<1>3. t - 1 \in 0..n /\ t \in 1..n /\ t - 1 < t
  OBVIOUS
<1>4. t - 1 \notin T
  <2> HIDE DEF T
  <2> QED BY <1>1, <1>2, <1>3
<1>5. e[t-1] < e[t] /\ e[t-1] \in Nat /\ e[t] \in Nat /\ e[p] \in Nat
  BY <1>3
<1>6. e[p] <= e[t-1]
  <2>1. CASE t - 1 = p
    BY <2>1, <1>5
  <2>2. CASE p < t - 1
    BY <2>2, <1>3, <1>4, <1>5
  <2> QED BY <2>1, <2>2, <1>3
<1> QED BY <1>5, <1>6

\* Every position before the last mark belongs to a line.
LEMMA LineOf ==
  ASSUME NEW n \in Nat, NEW e \in [0..n -> Nat], e[0] = 0,
         NEW k \in Nat \ {0}, k <= e[n]
  PROVE  \E l \in 1..n : e[l-1] < k /\ k <= e[l]
<1> DEFINE T == {t \in 0..n : k <= e[t]}
<1>1. T \in SUBSET Nat /\ n \in T
  <2>1. n \in 0..n
    OBVIOUS
  <2> QED BY <2>1
<1>2. PICK t \in T : \A u \in T : t <= u
  BY <1>1, LeastElement
<1>3. t \in 1..n
  OBVIOUS
<1>4. t - 1 \notin T
  <2>1. t - 1 \in Nat /\ t \in Nat /\ t - 1 < t
    BY <1>3
  <2> HIDE DEF T
  <2> QED BY <1>1, <1>2, <2>1
<1>5. t - 1 \in 0..n /\ e[t-1] \in Nat
  BY <1>3
<1>6. e[t-1] < k
  BY <1>4, <1>5
<1> QED BY <1>3, <1>6

\* The facts about marks that the rest uses.
LEMMA MarksFacts ==
  ASSUME LoaderType, NEW e \in MarksOf(Len(ins)), Marks(e)
  PROVE  /\ Len(ins) \in Nat /\ Len(text) \in Nat
         /\ e \in [0..Len(ins) -> Nat] /\ e[0] = 0
         /\ \A l \in 1..Len(ins) : Line(l, e[l-1], e[l]) /\ e[l-1] \in Nat /\ e[l] \in Nat
         /\ \A l \in 1..Len(ins) : e[l-1] < e[l]
         /\ \A p, q \in 0..Len(ins) : p < q => e[p] < e[q]
<1>1. Len(ins) \in Nat /\ Len(text) \in Nat
  BY LenProperties DEF LoaderType
<1>2. e \in [0..Len(ins) -> Nat] /\ e[0] = 0
  BY <1>1 DEF MarksOf, Marks
<1>3. \A l \in 1..Len(ins) : Line(l, e[l-1], e[l]) /\ e[l-1] < e[l]
  BY DEF Marks, Line
<1>4. \A l \in 1..Len(ins) : e[l-1] \in Nat /\ e[l] \in Nat
  BY <1>1, <1>2
<1>5. \A p, q \in 0..Len(ins) : p < q => e[p] < e[q]
  BY <1>1, <1>2, <1>3, MarksIncrease
<1> QED BY <1>1, <1>2, <1>3, <1>4, <1>5

\* The newlines before a character of line l are the marks before that line.
LEMMA NewlinesBefore ==
  ASSUME LoaderType, NEW e \in MarksOf(Len(ins)), Marks(e),
         NEW l \in 1..Len(ins), NEW k \in Nat, e[l-1] < k, k <= e[l], k <= Len(text)
  PROVE  Before(k) = {e[q] : q \in 1..l-1}
<1>0. /\ Len(ins) \in Nat /\ Len(text) \in Nat
      /\ e \in [0..Len(ins) -> Nat] /\ e[0] = 0
      /\ \A q \in 1..Len(ins) : Line(q, e[q-1], e[q])
      /\ \A p, q \in 0..Len(ins) : p < q => e[p] < e[q]
  BY MarksFacts
<1>1. ASSUME NEW q \in 1..l-1 PROVE e[q] \in Before(k)
  <2>1. q \in 0..Len(ins) /\ q \in 1..Len(ins) /\ l - 1 \in 0..Len(ins) /\ 0 \in 0..Len(ins)
    BY <1>0
  <2>2. e[q] \in Nat /\ e[l-1] \in Nat /\ 0 < e[q]
    <3>1. e[q] \in Nat /\ e[l-1] \in Nat
      BY <1>0, <2>1
    <3>2. 0 < q
      OBVIOUS
    <3>3. e[0] < e[q]
      BY <1>0, <2>1, <3>2
    <3> QED BY <1>0, <3>1, <3>3
  <2>3. e[q] <= e[l-1]
    <3>1. q = l - 1 \/ q < l - 1
      BY <1>0
    <3>2. q < l - 1 => e[q] < e[l-1]
      BY <1>0, <2>1
    <3> QED BY <2>2, <3>1, <3>2
  <2>4. e[q] < k /\ e[q] # Len(text) + 1
    BY <1>0, <2>2, <2>3
  <2>5. text[e[q]] = Newline
    BY <1>0, <2>1, <2>4 DEF Line
  <2> QED BY <2>2, <2>4, <2>5 DEF Before
<1>2. ASSUME NEW x \in Before(k) PROVE \E q \in 1..l-1 : x = e[q]
  <2>1. x \in Nat \ {0} /\ x < k /\ text[x] = Newline
    BY DEF Before
  <2>2. l \in 0..Len(ins) /\ e[l] \in Nat /\ e[Len(ins)] \in Nat /\ Len(ins) \in 0..Len(ins)
    BY <1>0
  <2>3. e[l] <= e[Len(ins)]
    BY <1>0, <2>2
  <2>4. x <= e[Len(ins)]
    BY <2>1, <2>2, <2>3
  <2>5. PICK q \in 1..Len(ins) : e[q-1] < x /\ x <= e[q]
    BY <1>0, <2>1, <2>4, LineOf
  <2>6. q \in 0..Len(ins) /\ q - 1 \in 0..Len(ins) /\ e[q] \in Nat /\ e[q-1] \in Nat
    <3>1. q \in 0..Len(ins) /\ q - 1 \in 0..Len(ins)
      BY <1>0
    <3> QED BY <3>1, MarksFacts
  <2>7. x = e[q]
    <3>1. x \notin e[q-1]+1..e[q]-1
      BY <1>0, <2>1 DEF Line
    <3> QED BY <3>1, <2>1, <2>5, <2>6
  <2>8. q < l
    <3> SUFFICES ASSUME l <= q PROVE FALSE
      BY <1>0
    <3>1. e[l] <= e[q]
      BY <1>0, <2>2, <2>6
    <3> QED BY <3>1, <2>1, <2>2, <2>6, <2>7
  <2> QED BY <1>0, <2>7, <2>8
<1> QED BY <1>1, <1>2

\* So a character's row and column are its line and its place in that line.
LEMMA PlaceOf ==
  ASSUME LoaderType, NEW e \in MarksOf(Len(ins)), Marks(e),
         NEW l \in 1..Len(ins), NEW k \in Nat, e[l-1] < k, k <= e[l], k <= Len(text)
  PROVE  RowOf(k) = l - 1 /\ ColumnOf(k) = k - 1 - e[l-1]
<1>0. /\ Len(ins) \in Nat /\ e \in [0..Len(ins) -> Nat] /\ e[0] = 0
      /\ \A p, q \in 0..Len(ins) : p < q => e[p] < e[q]
      /\ Before(k) = {e[q] : q \in 1..l-1}
  BY MarksFacts, NewlinesBefore
<1>1. RowOf(k) = l - 1
  <2> DEFINE f == [q \in 1..l-1 |-> e[q]]
             B == Before(k)
  <2>1. f \in [1..l-1 -> B]
    BY <1>0
  <2>2. \A p, q \in 1..l-1 : f[p] = f[q] => p = q
    <3> SUFFICES ASSUME NEW p \in 1..l-1, NEW q \in 1..l-1, e[p] = e[q], p # q
                 PROVE  FALSE
      OBVIOUS
    <3>1. p \in 0..Len(ins) /\ q \in 0..Len(ins)
      BY <1>0
    <3>3. e[p] \in Nat /\ e[q] \in Nat
      BY <1>0, <3>1
    <3>2. p < q \/ q < p
      BY <3>1
    <3> QED BY <1>0, <3>1, <3>2, <3>3
  <2>3. \A x \in B : \E q \in 1..l-1 : f[q] = x
    BY <1>0
  <2>4. f \in Bijection(1..l-1, B)
    BY <2>1, <2>2, <2>3 DEF Bijection, Injection, Surjection, IsInjective
  <2> HIDE DEF B, f
  <2>5. l - 1 \in Nat /\ ExistsBijection(1..l-1, B)
    BY <1>0, <2>4 DEF ExistsBijection
  <2>6. Cardinality(B) = l - 1
    BY <2>5, FS_CountingElements
  <2> QED BY <2>6 DEF RowOf, B
<1>2. CASE l = 1
  <2>1. Before(k) = {}
    BY <1>0, <1>2
  <2>2. e[l-1] = 0
    BY <1>0, <1>2
  <2> QED BY <1>1, <2>1, <2>2 DEF ColumnOf
<1>3. CASE l # 1
  <2>1. l - 1 \in 1..l-1 /\ l - 1 \in 0..Len(ins) /\ e[l-1] \in Nat
    BY <1>0, <1>3
  <2>2. e[l-1] \in Before(k)
    BY <1>0, <2>1
  <2>3. ASSUME NEW y \in Before(k) PROVE y \in Nat /\ e[l-1] >= y
    <3>1. PICK q \in 1..l-1 : y = e[q]
      BY <1>0
    <3>2. q \in 0..Len(ins) /\ (q = l - 1 \/ q < l - 1)
      BY <1>0
    <3>3. e[q] \in Nat
      BY <1>0, <3>2
    <3> QED BY <1>0, <2>1, <3>1, <3>2, <3>3
  <2>4. Max(Before(k)) \in Before(k) /\ \A y \in Before(k) : Max(Before(k)) >= y
    BY <2>2, <2>3 DEF Max
  <2>5. Max(Before(k)) = e[l-1]
    BY <2>1, <2>2, <2>3, <2>4
  <2> QED BY <1>1, <2>2, <2>5 DEF ColumnOf
<1> QED BY <1>2, <1>3

-----------------------------------------------------------------------------
(* When the file has been read. *)

\* Every character belongs to a line, and stands in it where it stands in the file.
LEMMA CharacterPlace ==
  ASSUME LoaderInv, rest = << >>, NEW k \in 1..Len(text)
  PROVE  \E l \in 1..Len(ins) :
           /\ RowOf(k) = l - 1
           /\ ColumnOf(k) \in 0..Len(ins[l])
           /\ text[k] # Newline => ColumnOf(k) < Len(ins[l]) /\ ins[l][ColumnOf(k) + 1] = text[k]
<1> USE DEF LoaderInv
<1>1. PICK e \in MarksOf(Len(ins)) : Marks(e)
  BY DEF ReadInv
<1>2. PICK m, n : m = Len(text) /\ n = Len(ins)
  OBVIOUS
<1>3. /\ n \in Nat /\ m \in Nat /\ text \in Seq(Byte)
      /\ e \in [0..n -> Nat] /\ e[0] = 0
      /\ \A l \in 1..n : Line(l, e[l-1], e[l])
  BY <1>1, <1>2, MarksFacts DEF LoaderType
<1>4. k <= e[n]
  <2>0. PICK a : a = e[n]
    OBVIOUS
  <2>1. a \in Nat /\ rest = SubSeq(text, a + 1, m)
    BY <1>1, <1>2, <1>3, <2>0 DEF Marks
  <2>2. \A q \in a+1..m : text[q] \in Byte
    BY <1>2, <1>3, <2>1, ElementOfSeq
  <2>3. a + 1 \in Int /\ m \in Int
    BY <1>3, <2>1
  <2>4. Len(rest) = IF a + 1 <= m THEN m - (a + 1) + 1 ELSE 0
    BY <2>1, <2>2, <2>3, SubSeqProperties
  <2>5. Len(rest) = 0
    BY EmptySeq
  <2>6. k <= m /\ k \in Nat
    BY <1>2, <1>3
  <2> QED BY <1>3, <2>0, <2>1, <2>4, <2>5, <2>6
<1>5. PICK l \in 1..n : e[l-1] < k /\ k <= e[l]
  <2>1. k \in Nat \ {0}
    BY <1>2, <1>3
  <2> QED BY <1>3, <1>4, <2>1, LineOf
<1>6. RowOf(k) = l - 1 /\ ColumnOf(k) = k - 1 - e[l-1]
  <2>1. k \in Nat /\ k <= Len(text)
    BY <1>2, <1>3
  <2> QED BY <1>1, <1>2, <1>5, <2>1, PlaceOf
<1>7. PICK a, b : a = e[l-1] /\ b = e[l]
  OBVIOUS
<1>8. a \in Nat /\ b \in Nat /\ a < k /\ k <= b /\ k \in Nat /\ k <= m
  BY <1>2, <1>3, <1>5, <1>7
<1>9. /\ ins[l] = SubSeq(text, a + 1, b - 1)
      /\ b = m + 1 \/ text[b] = Newline
      /\ b <= m + 1
  <2>1. e \in [0..n -> 0..m+1] /\ l \in 0..n
    BY <1>2, <1>3 DEF MarksOf
  <2>2. b \in 0..m+1
    BY <1>7, <2>1
  <2> QED BY <1>2, <1>3, <1>7, <1>8, <2>2 DEF Line
<1>10. /\ Len(ins[l]) = b - 1 - a
       /\ \A q \in 1..b-1-a : ins[l][q] = text[a + q]
  <2>1. a + 1 \in Int /\ b - 1 \in Int
    BY <1>8
  <2>2. \A q \in a+1..b-1 : text[q] \in Byte
    BY <1>2, <1>3, <1>8, <1>9, ElementOfSeq
  <2>3. Len(ins[l]) = IF a + 1 <= b - 1 THEN (b - 1) - (a + 1) + 1 ELSE 0
    BY <1>9, <2>1, <2>2, SubSeqProperties
  <2>4. Len(ins[l]) = b - 1 - a
    BY <1>8, <2>3
  <2> QED BY <1>8, <1>9, <2>4
<1>11. ColumnOf(k) = k - 1 - a /\ ColumnOf(k) \in 0..Len(ins[l])
  <2>1. ColumnOf(k) = k - 1 - a
    BY <1>6, <1>7
  <2>2. k - 1 - a \in 0..b-1-a
    BY <1>8
  <2> QED BY <1>10, <2>1, <2>2
<1>12. ASSUME text[k] # Newline
       PROVE  ColumnOf(k) < Len(ins[l]) /\ ins[l][ColumnOf(k) + 1] = text[k]
  <2>1. k < b
    <3>1. k = b => b = m + 1
      BY <1>9, <1>12
    <3> QED BY <1>3, <1>8, <3>1
  <2>2. k - a \in 1..b-1-a /\ a + (k - a) = k /\ ColumnOf(k) + 1 = k - a /\ ColumnOf(k) < Len(ins[l])
    BY <1>8, <1>10, <1>11, <2>1
  <2> QED BY <1>10, <2>2
<1> QED BY <1>2, <1>6, <1>11, <1>12

\* Every character of a line is a character of the file, in its row and column.
LEMMA PlaceCharacter ==
  ASSUME LoaderInv, NEW l \in 1..Len(ins), NEW c \in Nat, c < Len(ins[l])
  PROVE  \E k \in Characters : RowOf(k) = l - 1 /\ ColumnOf(k) = c
<1> USE DEF LoaderInv
<1>1. PICK e \in MarksOf(Len(ins)) : Marks(e)
  BY DEF ReadInv
<1>2. PICK m, a, b : m = Len(text) /\ a = e[l-1] /\ b = e[l]
  OBVIOUS
<1>3. /\ m \in Nat /\ text \in Seq(Byte) /\ a \in Nat /\ b \in Nat /\ b <= m + 1
      /\ Line(l, a, b)
  <2>1. Len(ins) \in Nat /\ l \in 0..Len(ins)
    BY <1>1, MarksFacts
  <2>2. b \in 0..m+1
    BY <1>2, <2>1 DEF MarksOf
  <2> QED BY <1>1, <1>2, <2>2, MarksFacts DEF LoaderType
<1>4. Len(ins[l]) = b - 1 - a
  <2>1. a + 1 \in Int /\ b - 1 \in Int
    BY <1>3
  <2>2. \A q \in a+1..b-1 : text[q] \in Byte
    BY <1>2, <1>3, ElementOfSeq
  <2>3. Len(ins[l]) = IF a + 1 <= b - 1 THEN (b - 1) - (a + 1) + 1 ELSE 0
    BY <1>3, <2>1, <2>2, SubSeqProperties DEF Line
  <2>4. a < b
    BY <1>3 DEF Line
  <2> QED BY <1>3, <2>3, <2>4
<1>5. PICK k : k = a + 1 + c
  OBVIOUS
<1>6. k \in Nat /\ a < k /\ k <= b /\ k <= m /\ k \in a+1..b-1 /\ c = k - 1 - a
  BY <1>3, <1>4, <1>5
<1>7. RowOf(k) = l - 1 /\ ColumnOf(k) = c
  BY <1>1, <1>2, <1>6, PlaceOf
<1>8. k \in Characters
  <2>1. text[k] # Newline
    BY <1>3, <1>6 DEF Line
  <2>2. k \in 1..Len(text)
    BY <1>2, <1>3, <1>6
  <2> QED BY <2>1, <2>2 DEF Characters
<1> QED BY <1>7, <1>8

\* The first character, or the newline, of a line is in its row.
LEMMA EveryRow ==
  ASSUME LoaderInv, NEW l \in 1..Len(ins)
  PROVE  l - 1 \in Rows
<1> USE DEF LoaderInv
<1>1. PICK e \in MarksOf(Len(ins)) : Marks(e)
  BY DEF ReadInv
<1>2. e[l-1] \in Nat /\ e[l] \in Nat /\ Line(l, e[l-1], e[l]) /\ Len(text) \in Nat
  BY <1>1, MarksFacts
<1>3. PICK m, a, b, k : m = Len(text) /\ a = e[l-1] /\ b = e[l] /\ k = a + 1
  OBVIOUS
<1>4. a < b /\ a < m /\ a \in Nat /\ b \in Nat /\ m \in Nat
  BY <1>2, <1>3 DEF Line
<1>5. k \in Nat /\ a < k /\ k <= b /\ k <= m /\ k \in 1..m
  BY <1>3, <1>4
<1>6. RowOf(k) = l - 1
  BY <1>1, <1>3, <1>5, PlaceOf
<1> QED BY <1>3, <1>5, <1>6 DEF Rows

-----------------------------------------------------------------------------
(* The theorems. *)

(***************************************************************************)
(* The program that starts is the one in the file, whatever the file is:   *)
(* the copy loops of main put each character in its row and column, and    *)
(* never store outside the playfield.                                      *)
(***************************************************************************)
THEOREM LoadsTheFile == Spec => []LoadsFile
<1>1. LoaderInv => LoadsFile
  <2> SUFFICES ASSUME LoaderInv PROVE LoadsFile
    OBVIOUS
  <2> USE DEF LoaderInv
  <2>1. mem \in Memory
    BY LoadedType
  <2>2. ASSUME phase = "run", NEW k \in Characters
        PROVE  mem[[x |-> ColumnOf(k), y |-> RowOf(k)]] = text[k]
    <3>1. /\ rest = << >> /\ i = Len(ins) /\ Len(ins) <= N_ROWS /\ Len(ins) \in Nat
          /\ mem = Loaded /\ \A l \in 1..Len(ins) : Len(ins[l]) <= N_COLS
      BY <2>2, LenProperties DEF CopyInv, LoaderType
    <3>2. k \in 1..Len(text) /\ text[k] # Newline
      BY DEF Characters
    <3>3. PICK l \in 1..Len(ins) :
            /\ RowOf(k) = l - 1
            /\ ColumnOf(k) \in 0..Len(ins[l])
            /\ ColumnOf(k) < Len(ins[l]) /\ ins[l][ColumnOf(k) + 1] = text[k]
      BY <3>1, <3>2, CharacterPlace
    <3>4. PICK c : c = [x |-> ColumnOf(k), y |-> RowOf(k)]
      OBVIOUS
    <3>5. Len(ins[l]) \in Nat
      BY ElementOfSeq, LenProperties DEF LoaderType
    <3>6. /\ c.x = ColumnOf(k) /\ c.y = l - 1 /\ c.y + 1 = l
          /\ c.x \in 0..N_COLS-1 /\ c.y \in 0..N_ROWS-1
      BY <3>1, <3>3, <3>4, <3>5, GridAssumption
    <3>7. c \in Coord
      BY <3>4, <3>6 DEF Coord
    <3>8. Copied(c)
      BY <3>1, <3>6 DEF Copied
    <3>9. mem[c] = ins[l][ColumnOf(k) + 1]
      BY <3>1, <3>3, <3>6, <3>7, <3>8 DEF Loaded
    <3> QED BY <3>3, <3>4, <3>9
  <2>3. ASSUME phase = "run", NEW c \in Coord, mem[c] # 0
        PROVE  \E k \in Characters : c = [x |-> ColumnOf(k), y |-> RowOf(k)]
    <3>1. i = Len(ins) /\ Len(ins) \in Nat /\ mem = Loaded
      BY <2>3, LenProperties DEF CopyInv, LoaderType
    <3>2. c.x \in Nat /\ c.y \in Nat /\ c = [x |-> c.x, y |-> c.y]
      BY GridAssumption DEF Coord
    <3>3. Copied(c) /\ c.x < Len(ins[c.y + 1])
      BY <2>3, <3>1 DEF Loaded
    <3>4. c.y + 1 \in 1..Len(ins) /\ (c.y + 1) - 1 = c.y
      BY <2>3, <3>1, <3>2, <3>3 DEF Copied
    <3>5. PICK k \in Characters : RowOf(k) = (c.y + 1) - 1 /\ ColumnOf(k) = c.x
      BY <3>2, <3>3, <3>4, PlaceCharacter
    <3> QED BY <3>2, <3>4, <3>5
  <2> QED BY <2>1, <2>2, <2>3 DEF LoadsFile
<1> QED BY <1>1, LoaderInvariance, PTL

(***************************************************************************)
(* main returns -1 for no file that fits, and starts none that does not:   *)
(* the two comparisons with N_ROWS and N_COLS are at the exact boundary.   *)
(***************************************************************************)
THEOREM RejectsExactly == Spec => []RejectsTooLarge
<1>1. LoaderInv => RejectsTooLarge
  <2> SUFFICES ASSUME LoaderInv PROVE RejectsTooLarge
    OBVIOUS
  <2> USE DEF LoaderInv
  <2>0. Len(ins) \in Nat /\ N_ROWS \in Nat /\ N_COLS \in Nat
    BY GridAssumption, LenProperties DEF LoaderType
  <2>1. ASSUME phase = "run" PROVE FitsPlayfield
    <3>1. /\ rest = << >> /\ Len(ins) <= N_ROWS
          /\ \A l \in 1..Len(ins) : Len(ins[l]) <= N_COLS
      BY <2>1 DEF CopyInv
    <3>2. ASSUME NEW k \in 1..Len(text) PROVE RowOf(k) \in 0..N_ROWS-1
      <4>1. PICK l \in 1..Len(ins) : RowOf(k) = l - 1
        BY <3>1, CharacterPlace
      <4> QED BY <2>0, <3>1, <4>1
    <3>3. ASSUME NEW k \in Characters PROVE ColumnOf(k) < N_COLS
      <4>1. k \in 1..Len(text) /\ text[k] # Newline
        BY DEF Characters
      <4>2. PICK l \in 1..Len(ins) : ColumnOf(k) \in 0..Len(ins[l]) /\ ColumnOf(k) < Len(ins[l])
        BY <3>1, <4>1, CharacterPlace
      <4>3. Len(ins[l]) \in Nat /\ Len(ins[l]) <= N_COLS
        BY <3>1, ElementOfSeq, LenProperties DEF LoaderType
      <4> QED BY <2>0, <4>2, <4>3
    <3> QED BY <3>2, <3>3 DEF FitsPlayfield, Rows
  <2>2. ASSUME phase = "rejected", ~(argc < 2) PROVE ~FitsPlayfield
    <3>1. Len(ins) > N_ROWS \/ \E l \in 1..Len(ins) : Len(ins[l]) > N_COLS
      BY <2>2 DEF CopyInv, TooLarge
    <3>2. CASE Len(ins) > N_ROWS
      <4>1. N_ROWS + 1 \in 1..Len(ins) /\ (N_ROWS + 1) - 1 = N_ROWS /\ N_ROWS \notin 0..N_ROWS-1
        BY <2>0, <3>2
      <4>2. N_ROWS \in Rows
        BY <4>1, EveryRow
      <4> QED BY <4>1, <4>2 DEF FitsPlayfield
    <3>3. CASE \E l \in 1..Len(ins) : Len(ins[l]) > N_COLS
      <4>1. PICK l \in 1..Len(ins) : Len(ins[l]) > N_COLS
        BY <3>3
      <4>2. Len(ins[l]) \in Nat /\ N_COLS < Len(ins[l])
        BY <2>0, <4>1, ElementOfSeq, LenProperties DEF LoaderType
      <4>3. PICK k \in Characters : ColumnOf(k) = N_COLS
        BY <2>0, <4>2, PlaceCharacter
      <4> QED BY <2>0, <4>3 DEF FitsPlayfield
    <3> QED BY <3>1, <3>2, <3>3
  <2> QED BY <2>1, <2>2 DEF RejectsTooLarge
<1> QED BY <1>1, LoaderInvariance, PTL
=============================================================================
