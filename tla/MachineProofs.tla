---------------------------- MODULE MachineProofs ----------------------------
(***************************************************************************)
(* The machine with its stack, input and output, for every program, every  *)
(* input and every size of the stack: the types of what it keeps; how the  *)
(* running block differs from the playfield; and that it runs Befunge,     *)
(* cell by cell, but for the exceptions AgreesWithCells names.             *)
(***************************************************************************)
EXTENDS Machine, JitProofs

-----------------------------------------------------------------------------
(* Words and text. *)

\* Bytes, digits and booleans are words.
LEMMA WordFacts ==
  /\ Modulus \in Nat /\ Modulus >= 256
  /\ \A n \in Nat : n < Modulus => n \in Word
  /\ \A w \in Word : w \in Nat /\ w < Modulus
  /\ Byte \subseteq Word
BY SignBitAssumption, WidthAssumption DEF Modulus, Word, Byte

\* Division makes no word larger.
LEMMA Quotient ==
  ASSUME NEW a \in Nat, NEW b \in Nat \ {0}
  PROVE  a \div b \in 0..a /\ a % b \in 0..b-1
<1> DEFINE q == a \div b
<1>1. q \in Nat /\ a % b \in 0..b-1 /\ q * b <= a
  BY Z3
<1> HIDE DEF q
<1>2. q <= q * b
  BY <1>1, Z3
<1>3. q <= a
  BY <1>1, <1>2, Z3
<1>4. a \div b = q
  BY DEF q
<1> QED BY <1>1, <1>3, <1>4

\* The end of a run of characters is where the first other one is.
LEMMA EndOfType ==
  ASSUME NEW text \in Seq(Byte), NEW i \in 1..Len(text)+1, NEW S
  PROVE  EndOf(text, i, S) \in i..Len(text)+1
<1> DEFINE n == Len(text)
           T == {k \in i..n+1 : k = n + 1 \/ text[k] \notin S}
<1>1. n \in Nat
  OBVIOUS
<1> HIDE DEF n
<1>2. T \in SUBSET Nat /\ n + 1 \in T
  BY <1>1 DEF n
<1> HIDE DEF T
<1>3. PICK k \in T : \A l \in T : k <= l
  BY <1>2, LeastElement
<1>4. k \in i..n+1 /\ (k = n + 1 \/ text[k] \notin S)
  BY DEF T
<1>5. ASSUME NEW l \in i..k-1 PROVE text[l] \in S
  <2>1. l \in i..n+1 /\ ~(k <= l) /\ l # n + 1
    BY <1>1, <1>4 DEF n
  <2>2. l \notin T
    BY <1>3, <2>1
  <2> QED BY <2>1, <2>2 DEF T
<1> QED BY <1>4, <1>5 DEF EndOf, n

\* What is left of a text is a text.
LEMMA SkipBlanksType ==
  ASSUME NEW text \in Seq(Byte)
  PROVE  SkipBlanks(text) \in Seq(Byte)
<1>1. EndOf(text, 1, Blanks) \in 1..Len(text)+1
  BY EndOfType
<1> QED BY <1>1 DEF SkipBlanks

\* What an extraction gives.
Extraction == [val : Word, cin : Stream]

\* '~' gives a word and leaves a stream.
LEMMA GetCharType ==
  ASSUME NEW c \in Stream
  PROVE  extern_getchar(c) \subseteq Extraction
<1>1. c.rest \in Seq(Byte) /\ c.failed \in BOOLEAN
  BY DEF Stream
<1> DEFINE text == SkipBlanks(c.rest)
<1>2. text \in Seq(Byte)
  BY <1>1, SkipBlanksType
<1>3. \A b \in Byte : Extended(b) \in Word
  BY WordFacts DEF Byte, Extended
<1>4. \A w \in Word, t \in Seq(Byte), f \in BOOLEAN : Read(w, t, f) \in Extraction
  BY DEF Read, Extraction, Stream
<1>5. {Extended(w % 256) : w \in Garbage} \subseteq Word
  <2>1. \A w \in Garbage : w % 256 \in Byte
    BY WordFacts, GarbageAssumption DEF Byte
  <2> QED BY <1>3, <2>1
<1>6. \A V \in SUBSET Word : NothingRead(V, c) \subseteq Extraction
  <2>1. << >> \in Seq(Byte)
    OBVIOUS
  <2> QED BY <1>1, <1>4, <2>1 DEF NothingRead
<1>7. ASSUME text # << >> PROVE Head(text) \in Byte /\ Tail(text) \in Seq(Byte)
  BY <1>2, <1>7
<1> HIDE DEF text
<1> QED BY <1>3, <1>4, <1>5, <1>6, <1>7 DEF extern_getchar, text

\* '&' gives a word and leaves a stream.
LEMMA GetIntType ==
  ASSUME NEW c \in Stream
  PROVE  extern_getint(c) \subseteq Extraction
<1> DEFINE text == SkipBlanks(c.rest)
           from == IF text # << >> /\ Head(text) \in {Minus, Plus} THEN 2 ELSE 1
           end  == EndOf(text, from, Digits)
           n    == Number(text, from, end - 1)
           rest == SubSeq(text, end, Len(text))
<1>1. c.rest \in Seq(Byte) /\ c.failed \in BOOLEAN /\ text \in Seq(Byte)
  BY SkipBlanksType DEF Stream
<1>2. \A w \in Word, t \in Seq(Byte), f \in BOOLEAN : Read(w, t, f) \in Extraction
  BY DEF Read, Extraction, Stream
<1>3. NothingRead(Garbage, c) \subseteq Extraction
  <2>1. << >> \in Seq(Byte)
    OBVIOUS
  <2> QED BY <1>1, <1>2, <2>1, GarbageAssumption DEF NothingRead
<1> HIDE DEF text
<1>4. from \in 1..Len(text)+1
  BY <1>1
<1>5. rest \in Seq(Byte)
  <2>1. end \in from..Len(text)+1
    BY <1>1, <1>4, EndOfType
  <2> HIDE DEF from, end
  <2>2. end \in 1..Len(text)+1
    BY <1>1, <1>4, <2>1
  <2> QED BY <1>1, <2>2
<1>6. 0 \in Word /\ Modulus - 1 \in Word
  BY WordFacts
<1>7. n \in Word => (-n) % Modulus \in Word
  <2> HIDE DEF n
  <2> QED BY WordFacts
<1> HIDE DEF from, end, n, rest
<1>8. CASE c.failed \/ text = << >>
  <2>1. extern_getint(c) = NothingRead(Garbage, c)
    BY <1>8 DEF extern_getint, text
  <2> QED BY <1>3, <2>1
<1>9. CASE ~(c.failed \/ text = << >>)
  <2>1. extern_getint(c) =
          IF end = from THEN {Read(0, rest, TRUE)}
          ELSE IF n \notin Word THEN {Read(Modulus - 1, rest, TRUE)}
          ELSE {Read(IF Head(text) = Minus THEN (-n) % Modulus ELSE n, rest, FALSE)}
    BY <1>9 DEF extern_getint, text, from, end, n, rest
  <2>2. \E w \in Word, f \in BOOLEAN : extern_getint(c) = {Read(w, rest, f)}
    <3>1. CASE end = from
      BY <1>6, <2>1, <3>1
    <3>2. CASE end # from /\ n \notin Word
      BY <1>6, <2>1, <3>2
    <3>3. CASE end # from /\ n \in Word /\ Head(text) = Minus
      BY <1>7, <2>1, <3>3
    <3>4. CASE end # from /\ n \in Word /\ Head(text) # Minus
      BY <2>1, <3>4
    <3> QED BY <3>1, <3>2, <3>3, <3>4
  <2> QED BY <1>2, <1>5, <2>2
<1> QED BY <1>8, <1>9

-----------------------------------------------------------------------------
(* The stack. *)

\* The kinds that make the stack grow.
Grows == {":", "0", "&", "~"}

\* What an instruction puts on the stack are words, and seldom more than it takes.
LEMMA PushesType ==
  ASSUME NEW k, NEW s \in Seq(Word), NEW lit, NEW r,
         k = "0" => lit \in Word,
         k \in {"&", "~", "g"} => r \in Word,
         Len(s) >= Pops(k), ~Traps(k, s)
  PROVE  /\ Pops(k) \in 0..3
         /\ Pushes(k, s, lit, r) \in Seq(Word)
         /\ Len(Pushes(k, s, lit, r)) <= Pops(k) + (IF k \in Grows THEN 1 ELSE 0)
<1>1. \A i \in 1..Len(s) : s[i] \in Word
  BY ElementOfSeq
<1>2. /\ 0 \in Word /\ 1 \in Word /\ Modulus \in Nat /\ Modulus > 0
      /\ \A w \in Word : w \in Nat
  BY WordFacts
<1>3. \A n \in Int : n % Modulus \in Word
  BY <1>2 DEF Word
<1>4. /\ \A v \in Word : << v >> \in Seq(Word) /\ Len(<< v >>) = 1
      /\ \A v, w \in Word : << v, w >> \in Seq(Word) /\ Len(<< v, w >>) = 2
      /\ << >> \in Seq(Word) /\ Len(<< >>) = 0
  OBVIOUS
<1>5. Len(s) \in Nat
  OBVIOUS
<1>6. Pops(k) \in 0..3
  <2>1. Pops(k) \in {0, 1, 2, 3}
    BY DEF Pops
  <2> QED BY <2>1
<1> DEFINE p == Pushes(k, s, lit, r)
<1>7. ASSUME p = << >> PROVE p \in Seq(Word) /\ Len(p) = 0
  BY <1>4, <1>7
<1>8. ASSUME NEW v \in Word, p = << v >> PROVE p \in Seq(Word) /\ Len(p) = 1
  BY <1>4, <1>8
<1>9. ASSUME NEW v \in Word, NEW w \in Word, p = << v, w >> PROVE p \in Seq(Word) /\ Len(p) = 2
  BY <1>4, <1>9
<1>10. CASE k \in {"+", "-", "*"}
  <2>1. Pops(k) = 2
    BY <1>10 DEF Pops
  <2>2. s[1] \in Int /\ s[2] \in Int
    BY <1>1, <1>2, <1>5, <2>1
  <2> DEFINE a == s[2] + s[1]
             b == s[2] - s[1]
             c == s[2] * s[1]
  <2>3. a \in Int /\ b \in Int /\ c \in Int
    BY <2>2
  <2>4. p = << a % Modulus >> \/ p = << b % Modulus >> \/ p = << c % Modulus >>
    BY <1>10 DEF Pushes
  <2> HIDE DEF a, b, c, p
  <2>5. p \in Seq(Word) /\ Len(p) = 1
    BY <1>3, <1>8, <2>3, <2>4
  <2> QED BY <2>1, <2>5 DEF p
<1>11. CASE k \in {"/", "%"}
  <2>1. Pops(k) = 2 /\ s[1] # 0
    BY <1>11 DEF Pops, Traps
  <2>2. s[1] \in Word /\ s[2] \in Word
    BY <1>1, <1>5, <2>1
  <2> DEFINE a == s[2] \div s[1]
             b == s[2] % s[1]
  <2>3. s[1] \in Nat \ {0} /\ s[2] \in Nat /\ s[1] < Modulus /\ s[2] < Modulus
    BY WordFacts, <2>1, <2>2
  <2>4. a \in 0..s[2] /\ b \in 0..s[1]-1
    BY <2>3, Quotient
  <2>5. p = << a >> \/ p = << b >>
    BY <1>11 DEF Pushes
  <2> HIDE DEF a, b, p
  <2>6. a \in Word /\ b \in Word
    BY <2>3, <2>4, WordFacts
  <2>7. p \in Seq(Word) /\ Len(p) = 1
    BY <1>8, <2>5, <2>6
  <2> QED BY <2>1, <2>7 DEF p
<1>12. CASE k \in {"gt", "!"}
  <2>1. Pops(k) = 2 \/ Pops(k) = 1
    BY <1>12 DEF Pops
  <2>2. p = << 0 >> \/ p = << 1 >>
    BY <1>12 DEF Pushes
  <2> HIDE DEF p
  <2>3. p \in Seq(Word) /\ Len(p) = 1
    BY <1>2, <1>8, <2>2
  <2> QED BY <2>1, <2>3 DEF p
<1>13. CASE k = ":"
  <2>1. Pops(k) = 1 /\ k \in Grows /\ p = << s[1], s[1] >>
    BY <1>13 DEF Pops, Grows, Pushes
  <2> HIDE DEF p
  <2>2. p \in Seq(Word) /\ Len(p) = 2
    BY <1>1, <1>5, <1>9, <2>1
  <2> QED BY <2>1, <2>2 DEF p
<1>14. CASE k = "\\"
  <2>1. Pops(k) = 2 /\ p = << s[2], s[1] >>
    BY <1>14 DEF Pops, Pushes
  <2> HIDE DEF p
  <2>2. p \in Seq(Word) /\ Len(p) = 2
    BY <1>1, <1>5, <1>9, <2>1
  <2> QED BY <2>1, <2>2 DEF p
<1>15. CASE k = "0"
  <2>1. Pops(k) = 0 /\ k \in Grows /\ p = << lit >>
    BY <1>15 DEF Pops, Grows, Pushes
  <2> HIDE DEF p
  <2>2. p \in Seq(Word) /\ Len(p) = 1
    BY <1>8, <1>15, <2>1
  <2> QED BY <2>1, <2>2 DEF p
<1>16. CASE k \in {"&", "~", "g"}
  <2>1. (k \in Grows /\ Pops(k) = 0) \/ Pops(k) = 2
    BY <1>16 DEF Pops, Grows
  <2>2. p = << r >>
    BY <1>16 DEF Pushes
  <2> HIDE DEF p
  <2>3. p \in Seq(Word) /\ Len(p) = 1
    BY <1>8, <1>16, <2>2
  <2> QED BY <2>1, <2>3 DEF p
<1>17. CASE k \notin {"+", "-", "*", "/", "%", "gt", "!", ":", "\\", "0", "&", "~", "g"}
  <2>1. p = << >>
    BY <1>17 DEF Pushes
  <2> HIDE DEF p
  <2>2. p \in Seq(Word) /\ Len(p) = 0
    BY <1>7, <2>1
  <2> QED BY <1>6, <2>2 DEF p
<1> QED BY <1>10, <1>11, <1>12, <1>13, <1>14, <1>15, <1>16, <1>17

\* So the stack stays one of words, and grows by at most one.
LEMMA AfterType ==
  ASSUME NEW k, NEW s \in Seq(Word), NEW lit, NEW r,
         k = "0" => lit \in Word,
         k \in {"&", "~", "g"} => r \in Word,
         Len(s) >= Pops(k), ~Traps(k, s)
  PROVE  /\ After(k, s, lit, r) \in Seq(Word)
         /\ Len(After(k, s, lit, r)) <= Len(s) + (IF k \in Grows THEN 1 ELSE 0)
<1> DEFINE n == Pops(k)
           p == Pushes(k, s, lit, r)
           t == SubSeq(s, n + 1, Len(s))
<1>1. n \in 0..3 /\ p \in Seq(Word) /\ Len(p) <= n + (IF k \in Grows THEN 1 ELSE 0)
  BY PushesType
<1>2. Len(s) \in Nat /\ Len(s) >= n /\ After(k, s, lit, r) = p \o t
  BY DEF After
<1> HIDE DEF n, p
<1>3. t \in Seq(Word) /\ Len(t) = Len(s) - n
  BY <1>1, <1>2
<1> HIDE DEF t
<1>4. p \o t \in Seq(Word) /\ Len(p \o t) = Len(p) + Len(t)
  BY <1>1, <1>3
<1>5. Len(p) \in Nat /\ Len(t) \in Nat
  BY <1>1, <1>3
<1> QED BY <1>1, <1>2, <1>3, <1>4, <1>5

-----------------------------------------------------------------------------
(***************************************************************************)
(* The inductive invariant: Jit's, and the types of what Machine adds.     *)
(***************************************************************************)
StackOK ==
  /\ stk \in Seq(Word) /\ Len(stk) <= StackLimit
  /\ str \in Nat
  /\ cin \in Stream
  /\ fault \in {"none", "SIGFPE", "SIGSEGV"}

MInv == IInv /\ StackOK

\* The reserve and the frame above it are words, and there is room for them.
LEMMA InitMInv == MachineInit => MInv
<1> SUFFICES ASSUME MachineInit PROVE MInv
  OBVIOUS
<1>1. IInv
  BY InitIInv DEF MachineInit
<1>2. PICK f \in [1..FrameLen -> FrameWords] : stk = Buf \o f
  BY DEF MachineInit
<1>3. Reserve \in Nat /\ FrameLen \in Nat /\ StackLimit \in Nat /\ StackLimit >= Reserve + FrameLen
  BY StackAssumption
<1>4. f \in Seq(Word) /\ Len(f) = FrameLen
  BY <1>3, StackAssumption
<1>5. Buf \in Seq(Word) /\ Len(Buf) = Reserve
  BY <1>3, WordFacts DEF Buf
<1>6. stk \in Seq(Word) /\ Len(stk) = Reserve + FrameLen
  <2> DEFINE b == Buf
  <2>1. b \in Seq(Word) /\ Len(b) = Reserve /\ stk = b \o f
    BY <1>2, <1>5
  <2> HIDE DEF b
  <2>2. b \o f \in Seq(Word) /\ Len(b \o f) = Len(b) + Len(f)
    BY <1>4, <2>1, ConcatProperties
  <2> QED BY <1>4, <2>1, <2>2
<1>7. cin \in Stream
  <2>1. PICK t \in Inputs : cin = [rest |-> t, failed |-> FALSE]
    BY DEF MachineInit
  <2>2. t \in Seq(Byte)
    BY InputsAssumption
  <2> QED BY <2>1, <2>2 DEF Stream
<1>8. str = 0 /\ fault = "none"
  BY DEF MachineInit
<1> QED BY <1>1, <1>3, <1>6, <1>7, <1>8 DEF MInv, StackOK

\* What a call may return.
LEMMA ReturnsType ==
  ASSUME NEW k, NEW s \in Seq(Word), NEW m \in Memory, NEW c \in Stream, Len(s) >= Pops(k)
  PROVE  /\ Returns(k, s, m, c) \subseteq Extraction
         /\ k = "?" => \A r \in Returns(k, s, m, c) : r.val \in Dirs
<1>1. /\ 0 \in Word /\ Dirs \subseteq Word /\ Byte \subseteq Word
  BY WordFacts DEF Dirs, UP, DOWN, LEFT, RIGHT
<1>2. \A v \in Word : [val |-> v, cin |-> c] \in Extraction
  BY DEF Extraction
<1>3. CASE k \in {"&", "~"}
  BY <1>3, GetIntType, GetCharType DEF Returns
<1>4. CASE k = "g"
  <2>1. Len(s) >= 2 /\ Len(s) \in Nat
    BY <1>4 DEF Pops
  <2>2. s[1] \in Word /\ s[2] \in Word
    BY <2>1, ElementOfSeq
  <2>3. s[1] \in Nat /\ s[2] \in Nat
    BY <2>2, WordFacts
  <2>4. Inside(s[2], s[1]) => [x |-> s[2], y |-> s[1]] \in Coord
    BY <2>3, GridAssumption DEF Inside, Coord
  <2>5. extern_read_val(m, s[1], s[2]) \in Word
    BY <1>1, <2>4 DEF extern_read_val, Memory
  <2>6. Returns(k, s, m, c) = {[val |-> extern_read_val(m, s[1], s[2]), cin |-> c]}
    BY <1>4 DEF Returns
  <2> QED BY <1>2, <1>4, <2>5, <2>6
<1>5. CASE k = "?"
  <2>1. Returns(k, s, m, c) = {[val |-> d, cin |-> c] : d \in Dirs}
    BY <1>5 DEF Returns, extern_rand
  <2> QED BY <1>1, <1>2, <2>1
<1>6. CASE k \notin {"&", "~", "g", "?"}
  <2>1. Returns(k, s, m, c) = {[val |-> 0, cin |-> c]}
    BY <1>6 DEF Returns
  <2> QED BY <1>1, <1>2, <1>6, <2>1
<1> QED BY <1>3, <1>4, <1>5, <1>6

\* A digit pushes a word.
LEMMA DigitType ==
  ASSUME NEW c, Kind(c) = "0"
  PROVE  Digit(c) \in Word
<1>1. c \in 48..57
  BY DEF Kind
<1>2. c - 48 \in Nat /\ c - 48 < 256
  BY <1>1
<1> QED BY <1>2, WordFacts DEF Digit

\* An instruction that does not fault keeps the types.
LEMMA ExecuteType ==
  ASSUME StackOK, TypeOK, Len(stk) >= Pops(kind), ~Traps(kind, stk),
         kind \in Grows => Len(stk) < StackLimit,
         NEW r \in Results, Execute(r)
  PROVE  StackOK'
<1>1. stk \in Seq(Word) /\ mem \in Memory /\ cin \in Stream
  BY DEF StackOK, TypeOK
<1>2. r.val \in Word /\ r.cin \in Stream
  BY <1>1, ReturnsType DEF Results, Extraction
<1>3. /\ stk' = After(kind, stk, Digit(char), r.val) /\ cin' = r.cin
      /\ str' = str /\ fault' = fault
  BY DEF Execute
<1>4. kind = "0" => Digit(char) \in Word
  BY DigitType DEF kind
<1>5. /\ stk' \in Seq(Word)
      /\ Len(stk') <= Len(stk) + (IF kind \in Grows THEN 1 ELSE 0)
  BY <1>1, <1>2, <1>3, <1>4, AfterType
<1>6. Len(stk) \in Nat /\ Len(stk') \in Nat /\ StackLimit \in Nat
  BY <1>1, <1>5, StackAssumption
<1>7. Len(stk') <= StackLimit
  BY <1>5, <1>6 DEF StackOK
<1> QED BY <1>2, <1>3, <1>5, <1>7 DEF StackOK

\* What AtChar and Possible say together.
LEMMA PossibleIs ==
  Possible <=> /\ Len(stk) >= Pops(kind) /\ ~Traps(kind, stk)
               /\ kind \in Grows => Len(stk) < StackLimit
BY DEF Possible, Grows

\* The ways out of a block.
LEMMA WayType ==
  ASSUME NEW c \in EndsBlock \ {Quote, Halt}, NEW s, NEW r,
         Kind(c) = "?" => r \in Dirs
  PROVE  Way(Kind(c), s, r) \in 1..4
<1>1. Kind(c) \in {"_", "|", "?", ">"}
  BY DEF Kind, EndsBlock, Quote, Bridge, GoLeft, GoRight, Random, Halt, GoUp, IfHoriz, GoDown, IfVert
<1>2. CASE Kind(c) = "?"
  <2>1. r \in 0..3
    BY <1>2 DEF Dirs, UP, DOWN, LEFT, RIGHT
  <2>2. (r % 4) + 1 \in 1..4
    BY <2>1
  <2> QED BY <1>2, <2>2 DEF Way
<1>3. CASE Kind(c) # "?"
  <2>1. Way(Kind(c), s, r) \in {1, 2}
    BY <1>1, <1>3 DEF Way
  <2> QED BY <2>1
<1> QED BY <1>2, <1>3

(***************************************************************************)
(* Every step is one of Jit's, or none.                                    *)
(***************************************************************************)
LEMMA StepIsJit == MInv /\ [MachineNext]_allvars => [Next]_vars
<1> SUFFICES ASSUME MInv, [MachineNext]_allvars PROVE [Next]_vars
  OBVIOUS
<1>0. StackOK /\ TypeOK /\ stk \in Seq(Word) /\ mem \in Memory /\ cin \in Stream
  BY DEF MInv, IInv, StackOK, TypeOK
<1>1. CASE \E a \in Addr : Resolve(a)
  BY <1>1 DEF Resolve, Next
<1>2. CASE OutOfMemory \/ Enter \/ Compute \/ Exit
  BY <1>2 DEF OutOfMemory, Enter, Compute, Exit, Next
<1>3. CASE PutWord
  <2>1. CASE StoreOutside
    BY <2>1 DEF Next
  <2>2. CASE /\ Inside(stk[2], stk[1])
             /\ Store([x |-> stk[2], y |-> stk[1]], Truncated(stk[3]))
    <3>1. Len(stk) >= 3
      <4>1. char = Put
        BY <1>3 DEF PutWord, AtChar, AtInstr, char
      <4>2. kind = "p"
        BY <4>1 DEF kind, Kind, Put
      <4>3. Pops(kind) = 3
        BY <4>2 DEF Pops
      <4> QED BY <1>3, <4>3 DEF PutWord, Possible
    <3>2. stk[1] \in Word /\ stk[2] \in Word /\ stk[3] \in Word
      BY <1>0, <3>1, ElementOfSeq
    <3>3. stk[1] \in Nat /\ stk[2] \in Nat /\ stk[3] \in Nat
      BY <3>2, WordFacts
    <3>4. [x |-> stk[2], y |-> stk[1]] \in Coord
      BY <2>2, <3>3, GridAssumption DEF Inside, Coord
    <3>5. Truncated(stk[3]) \in StoreVals
      BY <3>3, StoresAssumption DEF Truncated, Byte
    <3> QED BY <2>2, <3>4, <3>5 DEF Next
  <2> QED BY <1>3, <2>1, <2>2 DEF PutWord
<1>4. CASE Turn
  <2>1. char \in EndsBlock \ {Quote, Halt} /\ Len(stk) >= Pops(kind)
    BY <1>4 DEF Turn, AtChar, AtInstr, char, Possible
  <2>2. PICK r \in Results : Leave(Way(kind, stk, r.val))
    BY <1>4 DEF Turn
  <2>3. kind = "?" => r.val \in Dirs
    BY <1>0, <2>1, ReturnsType DEF Results
  <2>4. Way(kind, stk, r.val) \in 1..4
    BY <2>1, <2>3, WayType DEF kind
  <2> QED BY <2>2, <2>4 DEF Next
<1>5. CASE GoRound \/ CloseString
  <2>1. Leave(1) /\ 1 \in 1..4
    BY <1>5 DEF GoRound, CloseString
  <2> QED BY <2>1 DEF Next
<1>6. CASE OpenString \/ PushChar \/ FloatingPointException \/ SegmentationFault \/ Gone
           \/ UNCHANGED allvars
  BY <1>6 DEF OpenString, PushChar, FloatingPointException, SegmentationFault, Gone, allvars
<1> QED BY <1>1, <1>2, <1>3, <1>4, <1>5, <1>6 DEF MachineNext

-----------------------------------------------------------------------------
\* The characters of a block's string are bytes.
LEMMA BlockType ==
  ASSUME IInv, ctl = "code"
  PROVE  code.ins \in Seq(Byte) /\ code.str \in Seq(Byte) /\ code.exits \in Seq(CodePos)
BY DEF IInv, Running_OK, code, Blocks

\* The stack keeps its type and its room.
LEMMA StepStackOK == MInv /\ [MachineNext]_allvars => StackOK'
<1> SUFFICES ASSUME MInv, [MachineNext]_allvars PROVE StackOK'
  OBVIOUS
<1>0. StackOK /\ TypeOK /\ IInv
  BY DEF MInv, IInv
<1>1. CASE (\E a \in Addr : Resolve(a)) \/ OutOfMemory \/ Enter \/ GoRound \/ Exit \/ Gone
           \/ UNCHANGED allvars
  BY <1>0, <1>1 DEF Resolve, OutOfMemory, Enter, GoRound, Exit, Gone, outside, allvars, StackOK
<1>2. CASE Compute \/ PutWord \/ Turn
  <2>1. Possible /\ \E r \in Results : Execute(r)
    BY <1>2 DEF Compute, PutWord, Turn
  <2> QED BY <1>0, <2>1, PossibleIs, ExecuteType
<1>3. CASE OpenString \/ CloseString
  BY <1>0, <1>3 DEF OpenString, CloseString, StackOK
<1>4. CASE PushChar
  <2>1. /\ ctl = "code" /\ str # 0 /\ str <= Len(code.str) /\ Len(stk) < StackLimit
        /\ stk' = << code.str[str] >> \o stk /\ str' = str + 1
        /\ UNCHANGED <<cin, fault>>
    BY <1>4 DEF PushChar, InString
  <2>2. code.str[str] \in Word
    <3>1. code.str \in Seq(Byte) /\ str \in Nat
      BY <1>0, <2>1, BlockType DEF StackOK
    <3>2. str \in 1..Len(code.str)
      BY <2>1, <3>1
    <3> QED BY <3>1, <3>2, ElementOfSeq, WordFacts
  <2> DEFINE w == code.str[str]
  <2>3. stk \in Seq(Word) /\ << w >> \in Seq(Word) /\ Len(<< w >>) = 1 /\ stk' = << w >> \o stk
    BY <1>0, <2>1, <2>2 DEF StackOK
  <2> HIDE DEF w
  <2>4. stk' \in Seq(Word)
    BY <2>3
  <2>5. Len(stk') = 1 + Len(stk) /\ Len(stk) \in Nat
    BY <2>3
  <2>6. Len(stk') <= StackLimit
    BY <2>1, <2>5, StackAssumption
  <2> QED BY <1>0, <2>1, <2>4, <2>6 DEF StackOK
<1>5. CASE FloatingPointException \/ SegmentationFault
  BY <1>0, <1>5 DEF FloatingPointException, SegmentationFault, StackOK
<1> QED BY <1>1, <1>2, <1>3, <1>4, <1>5 DEF MachineNext

\* The invariant holds in every reachable state.
LEMMA MachineInvariance == MachineSpec => []MInv
<1>1. MInv /\ [MachineNext]_allvars => MInv'
  BY StepIsJit, NextIInv, StepStackOK DEF MInv
<1> QED BY <1>1, InitMInv, PTL DEF MachineSpec

(***************************************************************************)
(* The stack holds words, however the program reads, computes and stores,  *)
(* and never more than there is room for; input and code cache keep their  *)
(* types.                                                                  *)
(***************************************************************************)
THEOREM MachineTypeCorrect == MachineSpec => []MachineTypeOK
<1>1. MInv => MachineTypeOK
  BY DEF MInv, IInv, StackOK, MachineTypeOK
<1> QED BY <1>1, MachineInvariance, PTL

(***************************************************************************)
(* The machine is the just-in-time compiler run with a stack: whatever     *)
(* holds of module Jit, holds of it.                                       *)
(***************************************************************************)
THEOREM MachineRunsJit == MachineSpec => Spec
<1>1. MachineInit => Init
  BY DEF MachineInit
<1> QED BY <1>1, StepIsJit, MachineInvariance, PTL DEF MachineSpec, Spec

-----------------------------------------------------------------------------
(* A compiled block against the cells it was compiled from.                *)

\* The instructions are the cells of the line, and only the last may end the block.
LEMMA LineOfBlock ==
  ASSUME NEW m \in Memory, NEW s \in CodePos,
         NEW B, B = Compile(m, s), NEW L, L = Len(B.ins)
  PROVE  /\ L \in 1..Span(s.dir) /\ Span(s.dir) \in Nat
         /\ At(s, L - 1) = Final(m, s)
         /\ \A k \in 1..L : B.ins[k] = Fetch(m, At(s, k - 1))
         /\ \A k \in 1..L-1 : B.ins[k] \notin EndsBlock
         /\ B.ins[L] \notin EndsBlock => L = Span(s.dir) /\ B.exits = << s >>
         /\ B.ins[L] \in EndsBlock \ {Quote} => B.exits = Targets(B.ins[L], At(s, L - 1), s, s)
         /\ B.ins[L] = Quote => IsString(m, s)
<1> DEFINE n == Length(m, s)
           q == Final(m, s)
<1>1. /\ n \in 1..Span(s.dir) /\ Span(s.dir) \in Nat /\ Span(s.dir) >= 2
      /\ StopAt(m, s) \in 0..Span(s.dir)
  BY LengthType, SpanType, DirOf, StopAtFirst
<1>2. /\ B.ins = [k \in 1..n |-> Fetch(m, At(s, k - 1))]
      /\ B.exits = Targets(Fetch(m, q), q, s, AfterString(m, s, q))
  BY DEF Compile
<1>3. L = n
  BY <1>1, <1>2
<1>4. q = At(s, n - 1)
  BY DEF Final
<1>5. \A k \in 1..n : B.ins[k] = Fetch(m, At(s, k - 1))
  BY <1>2
<1>6. ASSUME NEW k \in 1..n-1 PROVE B.ins[k] \notin EndsBlock
  <2>1. k - 1 \in 0..StopAt(m, s)-1 /\ k \in 1..n
    BY <1>1 DEF Length, Wraps
  <2>2. ~Stops(m, s, k - 1)
    BY <2>1, StopAtFirst
  <2> QED BY <1>5, <2>1, <2>2 DEF Stops
<1>7. B.ins[n] = Fetch(m, q)
  BY <1>1, <1>4, <1>5
<1>8. ASSUME B.ins[n] \notin EndsBlock PROVE n = Span(s.dir) /\ B.exits = << s >>
  <2>1. Wraps(m, s)
    <3> SUFFICES ASSUME ~Wraps(m, s) PROVE FALSE
      OBVIOUS
    <3>1. n = StopAt(m, s) + 1 /\ StopAt(m, s) # Span(s.dir)
      BY DEF Length, Wraps
    <3>2. q = At(s, StopAt(m, s))
      BY <1>1, <1>4, <3>1
    <3>3. Stops(m, s, StopAt(m, s))
      BY StopAtFirst
    <3> QED BY <1>7, <1>8, <3>1, <3>2, <3>3 DEF Stops
  <2>2. n = Span(s.dir)
    BY <2>1 DEF Length
  <2>3. Targets(Fetch(m, q), q, s, AfterString(m, s, q)) = << s >>
    BY <1>7, <1>8 DEF Targets, EndsBlock
  <2> QED BY <1>2, <2>2, <2>3
<1>9. ASSUME B.ins[n] \in EndsBlock \ {Quote} PROVE B.exits = Targets(B.ins[n], q, s, s)
  BY <1>2, <1>7, <1>9
     DEF Targets, EndsBlock, Quote, Bridge, GoLeft, GoRight, Random, Halt, GoUp, IfHoriz, GoDown, IfVert
<1>10. ASSUME B.ins[n] = Quote PROVE IsString(m, s)
  <2>1. ~Wraps(m, s)
    BY <1>7, <1>10, WrapsNoEnd DEF EndsBlock
  <2> QED BY <1>7, <1>10, <2>1 DEF IsString
<1> QED BY <1>1, <1>3, <1>4, <1>5, <1>6, <1>8, <1>9, <1>10

\* The pushed characters are the cells behind the quote, up to the closing
\* one or, in a string without one, to the cell before the start.
LEMMA StringOfBlock ==
  ASSUME NEW m \in Memory, NEW s \in CodePos, IsString(m, s),
         NEW B, B = Compile(m, s), NEW n, n = Len(B.str), NEW q, q = Final(m, s)
  PROVE  /\ q \in CodePos /\ Span(q.dir) = Span(s.dir)
         /\ n \in 0..Span(s.dir)-1
         /\ \A j \in 1..n : B.str[j] = Fetch(m, At(q, j)) /\ B.str[j] # Quote
         /\ DOMAIN B.exits = {1}
         /\ B.exits[1] # At(q, n + 1) =>
              /\ Fetch(m, At(q, n + 1)) = Quote
              /\ B.exits[1] = Step(At(q, n + 1))
<1> DEFINE e == ScanEnd(m, s, q)
<1>1. /\ q \in CodePos /\ q.dir = s.dir /\ Fetch(m, q) = Quote
      /\ e \in 1..Span(s.dir) /\ Span(s.dir) \in Nat /\ Span(q.dir) = Span(s.dir)
  BY StringScan, SpanType, DirOf
<1>2. /\ ScanStops(m, s, q, e)
      /\ \A j \in 1..e-1 : ~ScanStops(m, s, q, j)
  BY <1>1, ScanEndFirst
<1>3. /\ B.str = StringChars(m, s, q)
      /\ B.exits = << AfterString(m, s, q) >>
  <2>1. /\ B.str = StringChars(m, s, q)
        /\ B.exits = Targets(Fetch(m, q), q, s, AfterString(m, s, q))
    BY DEF Compile
  <2>2. \A a : Targets(Quote, q, s, a) = << a >>
    BY DEF Targets, Quote, Bridge, GoLeft, GoRight, Random, Halt, GoUp, IfHoriz, GoDown, IfVert
  <2> QED BY <1>1, <2>1, <2>2
<1> HIDE DEF e
<1>4. CASE Closed(m, s, q)
  <2>1. B.str = [j \in 1..e-1 |-> Fetch(m, At(q, j))]
    BY <1>3, <1>4 DEF StringChars, e
  <2>2. n = e - 1
    BY <1>1, <2>1
  <2>3. Fetch(m, At(q, e)) = Quote /\ B.exits = << Step(At(q, e)) >>
    BY <1>3, <1>4 DEF Closed, AfterString, e
  <2>4. \A j \in 1..e-1 : B.str[j] = Fetch(m, At(q, j)) /\ B.str[j] # Quote
    BY <1>2, <2>1 DEF ScanStops
  <2>5. n + 1 = e /\ n \in 0..Span(s.dir)-1
    BY <1>1, <2>2
  <2> QED BY <1>1, <2>2, <2>3, <2>4, <2>5
<1>5. CASE ~Closed(m, s, q)
  <2>1. B.str = [j \in 1..e |-> Fetch(m, At(q, j))]
    BY <1>3, <1>5 DEF StringChars, e
  <2>2. n = e
    BY <1>1, <2>1
  <2>3. Fetch(m, At(q, e)) # Quote /\ B.exits = << s >>
    BY <1>3, <1>5 DEF Closed, AfterString, e
  <2>4. e # Span(s.dir)
    <3>1. At(q, Span(q.dir)) = q
      BY <1>1, FullTurn
    <3> QED BY <1>1, <2>3, <3>1
  <2>5. Step(At(q, e)) = s
    BY <1>2, <2>3 DEF ScanStops
  <2>6. At(q, e + 1) = s
    <3>1. e \in 0..Span(q.dir)-1
      BY <1>1, <2>4
    <3> QED BY <1>1, <2>5, <3>1, StepAt
  <2>7. ASSUME NEW j \in 1..e PROVE B.str[j] = Fetch(m, At(q, j)) /\ B.str[j] # Quote
    <3>1. B.str[j] = Fetch(m, At(q, j))
      BY <2>1
    <3>2. j = e \/ j \in 1..e-1
      BY <1>1
    <3> QED BY <1>2, <2>3, <3>1, <3>2 DEF ScanStops
  <2>8. n \in 0..Span(s.dir)-1
    BY <1>1, <2>2, <2>4
  <2> QED BY <1>1, <2>2, <2>3, <2>6, <2>7, <2>8
<1> QED BY <1>4, <1>5

-----------------------------------------------------------------------------
(***************************************************************************)
(* Where control is in a block.  The block is what some playfield, not     *)
(* always the present one, compiles to at the position it was entered at;  *)
(* control is past its last instruction only if the line has closed, and   *)
(* in a string only at a block's last instruction.                         *)
(***************************************************************************)
InLine ==
  ctl = "code" =>
    /\ \E m \in Memory : code = Compile(m, pos)
    /\ ip \in 1..Len(code.ins)+1
    /\ ip = Len(code.ins) + 1 => code.ins[Len(code.ins)] \notin EndsBlock

InQuotes ==
  str # 0 =>
    /\ ctl = "code" /\ ip = Len(code.ins) /\ code.ins[ip] = Quote
    /\ str \in 1..Len(code.str)+1

LInv == MInv /\ InLine /\ InQuotes

\* The running block, as its instructions and positions are used below.
LEMMA RunningLine ==
  ASSUME LInv, ctl = "code"
  PROVE  /\ pos \in CodePos /\ ip \in Nat \ {0}
         /\ Len(code.ins) \in 1..Span(pos.dir) /\ Span(pos.dir) \in Nat
         /\ \A k \in 1..Len(code.ins)-1 : code.ins[k] \notin EndsBlock
         /\ code.ins[Len(code.ins)] \notin EndsBlock =>
              Len(code.ins) = Span(pos.dir) /\ code.exits = << pos >>
         /\ code.ins[Len(code.ins)] \in EndsBlock \ {Quote} =>
              code.exits = Targets(code.ins[Len(code.ins)], LastCell, pos, pos)
<1>1. PICK m \in Memory : code = Compile(m, pos)
  BY DEF LInv, InLine
<1>2. pos \in CodePos
  BY DEF LInv, MInv, IInv, TypeOK
<1> DEFINE B == code
           n == Len(B.ins)
<1>3. LastCell = At(pos, n - 1)
  BY DEF LastCell
<1>4. ip \in 1..n+1
  BY DEF LInv, InLine
<1>5. B = Compile(m, pos)
  BY <1>1
<1> HIDE DEF B
<1>6. /\ n \in 1..Span(pos.dir) /\ Span(pos.dir) \in Nat
      /\ \A k \in 1..n-1 : B.ins[k] \notin EndsBlock
      /\ B.ins[n] \notin EndsBlock => n = Span(pos.dir) /\ B.exits = << pos >>
      /\ B.ins[n] \in EndsBlock \ {Quote} => B.exits = Targets(B.ins[n], At(pos, n - 1), pos, pos)
  BY <1>2, <1>5, LineOfBlock
<1>7. ip \in Nat \ {0}
  BY <1>4, <1>6
<1> QED BY <1>2, <1>3, <1>6, <1>7 DEF B

\* Its string.
LEMMA RunningString ==
  ASSUME LInv, ctl = "code", code.ins[Len(code.ins)] = Quote
  PROVE  /\ LastCell \in CodePos /\ Span(LastCell.dir) \in Nat
         /\ Len(code.str) \in 0..Span(LastCell.dir)-1
         /\ \A j \in 1..Len(code.str) : code.str[j] # Quote
         /\ DOMAIN code.exits = {1}
         /\ IsClosed => code.exits[1] = Step(StringEnd)
<1>1. PICK m \in Memory : code = Compile(m, pos)
  BY DEF LInv, InLine
<1>2. pos \in CodePos
  BY DEF LInv, MInv, IInv, TypeOK
<1> DEFINE B == code
           n == Len(B.ins)
           l == Len(B.str)
<1>3. LastCell = At(pos, n - 1) /\ StringEnd = At(LastCell, l + 1)
  BY DEF LastCell, StringEnd
<1>4. IsClosed <=> B.exits[1] # StringEnd
  BY DEF IsClosed
<1>5. B = Compile(m, pos) /\ B.ins[n] = Quote
  BY <1>1
<1> HIDE DEF B
<1>6. IsString(m, pos) /\ LastCell = Final(m, pos) /\ Span(pos.dir) \in Nat
  BY <1>2, <1>3, <1>5, LineOfBlock
<1> DEFINE q == LastCell
<1> HIDE DEF q, l
<1>7. q = Final(m, pos) /\ l = Len(B.str)
  BY <1>6 DEF q, l
<1>8. /\ q \in CodePos /\ Span(q.dir) = Span(pos.dir)
      /\ l \in 0..Span(pos.dir)-1
      /\ \A j \in 1..l : B.str[j] = Fetch(m, At(q, j)) /\ B.str[j] # Quote
      /\ DOMAIN B.exits = {1}
      /\ B.exits[1] # At(q, l + 1) =>
           /\ Fetch(m, At(q, l + 1)) = Quote
           /\ B.exits[1] = Step(At(q, l + 1))
  BY <1>2, <1>5, <1>6, <1>7, StringOfBlock
<1> QED BY <1>3, <1>4, <1>6, <1>8 DEF B, q, l

\* A block that has just been entered is what the playfield compiles to now.
LEMMA EnteredBlock ==
  ASSUME LInv, Enter
  PROVE  /\ ctl' = "code" /\ pos' = pos /\ pos \in CodePos /\ mem' = mem /\ mem \in Memory
         /\ code' = Compile(mem, pos) /\ ip' = 1 /\ str = 0 /\ str' = 0
<1>1. /\ TypeOK /\ CodeIsFresh /\ EnterBlock /\ UNCHANGED outside
  BY DEF LInv, MInv, IInv, Enter
<1>2. /\ ctl = "thunk" /\ ctl' = "code" /\ pos' = pos /\ mem' = mem /\ ip' = 1
      /\ heap' = heap /\ blk' = st[pos].addr /\ is_resolved(pos) /\ str' = str
  BY <1>1 DEF EnterBlock, managed, outside
<1>3. pos \in CodePos /\ mem \in Memory
  BY <1>1 DEF TypeOK
<1>4. heap[st[pos].addr] = Compile(mem, pos)
  BY <1>1, <1>2, <1>3 DEF CodeIsFresh
<1>5. str = 0
  BY <1>2 DEF LInv, InQuotes
<1> QED BY <1>2, <1>3, <1>4, <1>5 DEF code

\* A step inside a block does not change it: the code is never freed.
LEMMA BlockStays ==
  ASSUME LInv, Compute \/ PutWord
  PROVE  /\ ctl = "code" /\ ctl' = "code" /\ pos' = pos /\ blk' = blk /\ code' = code
         /\ str = 0 /\ str' = 0 /\ fault = "none" /\ fault' = "none"
         /\ ip \in 1..Len(code.ins) /\ ip' = ip + 1
         /\ char \in Byte \ EndsBlock
<1>1. CASE Compute
  <2>1. AtInstr(Byte \ (EndsBlock \cup {Put})) /\ Continue /\ str = 0 /\ fault = "none"
    BY <1>1 DEF Compute, AtChar
  <2>2. UNCHANGED <<str, fault>>
    BY <1>1 DEF Compute, Execute
  <2> QED BY <2>1, <2>2, RunningLine DEF Continue, AtInstr, managed, code, char
<1>2. CASE PutWord
  <2>1. AtInstr({Put}) /\ str = 0 /\ fault = "none" /\ UNCHANGED <<str, fault>>
    BY <1>2 DEF PutWord, AtChar, Execute
  <2>2. /\ ctl' = ctl /\ pos' = pos /\ blk' = blk /\ heap' = heap /\ ip' = ip + 1
    BY <1>2 DEF PutWord, Store, StoreOutside, managed, InvalidateCoords, ReleaseCode
  <2>3. Put \in Byte \ EndsBlock
    BY DEF Put, Byte, EndsBlock, Quote, Bridge, GoLeft, GoRight, Random, Halt, GoUp, IfHoriz, GoDown, IfVert
  <2> QED BY <2>1, <2>2, <2>3, RunningLine DEF AtInstr, code, char
<1> QED BY <1>1, <1>2

\* In the middle of a string, or at its quote, the block stays too.
LEMMA QuoteStays ==
  ASSUME LInv, OpenString \/ PushChar
  PROVE  /\ UNCHANGED vars /\ code' = code /\ fault' = fault /\ ctl = "code"
         /\ ip = Len(code.ins) /\ code.ins[ip] = Quote
         /\ str' \in 1..Len(code.str)+1 /\ str \in Nat /\ str' = str + 1
<1>1. UNCHANGED vars /\ code' = code /\ fault' = fault
  BY DEF OpenString, PushChar, vars, managed, control, code
<1>2. str \in Nat
  BY DEF LInv, MInv, StackOK
<1>3. CASE OpenString
  <2>1. /\ ctl = "code" /\ ip <= Len(code.ins) /\ code.ins[ip] = Quote /\ str = 0 /\ str' = 1
    BY <1>3 DEF OpenString, AtChar, AtInstr
  <2>2. ip = Len(code.ins)
    <3>1. Quote \in EndsBlock
      BY DEF EndsBlock
    <3> DEFINE n == Len(code.ins)
    <3>2. n \in Nat /\ ip \in Nat /\ ip >= 1 /\ \A k \in 1..n-1 : code.ins[k] \notin EndsBlock
      BY <2>1, RunningLine
    <3> HIDE DEF n
    <3> QED BY <2>1, <3>1, <3>2 DEF n
  <2>3. Len(code.str) \in Nat
    BY <2>1, <2>2, RunningString
  <2> QED BY <1>1, <1>2, <2>1, <2>2, <2>3
<1>4. CASE PushChar
  <2>1. str # 0 /\ str <= Len(code.str) /\ str' = str + 1
    BY <1>4 DEF PushChar, InString
  <2>2. /\ ctl = "code" /\ ip = Len(code.ins) /\ code.ins[ip] = Quote
        /\ str \in 1..Len(code.str)+1
    BY <2>1 DEF LInv, InQuotes
  <2>3. Len(code.str) \in Nat
    BY <2>2, RunningString
  <2> QED BY <1>1, <1>2, <2>1, <2>2, <2>3
<1> QED BY <1>3, <1>4

\* Leaving a block, and the end of the program.
LEMMA BlockLeft ==
  ASSUME LInv, Turn \/ GoRound \/ CloseString \/ Exit
  PROVE  ctl = "code" /\ ctl' # "code" /\ str' = 0
<1>1. CASE Turn
  BY <1>1 DEF Turn, AtChar, Execute, Leave
<1>2. CASE GoRound
  BY <1>2 DEF GoRound, Leave, outside
<1>3. CASE CloseString
  BY <1>3 DEF CloseString, Leave
<1>4. CASE Exit
  BY <1>4 DEF Exit, AtChar, Stop, AtInstr, outside
<1> QED BY <1>1, <1>2, <1>3, <1>4

\* Steps after which control is where it was.
Stays == FloatingPointException \/ SegmentationFault \/ Gone \/ UNCHANGED allvars

\* Such a step does not move control.
LEMMA ControlStays ==
  ASSUME Stays
  PROVE  UNCHANGED vars /\ code' = code /\ str' = str
BY DEF Stays, FloatingPointException, SegmentationFault, Gone, allvars, outside, vars, managed, control, code

\* Steps with no block running.
LEMMA NoBlock ==
  ASSUME LInv, (\E a \in Addr : Resolve(a)) \/ OutOfMemory
  PROVE  ctl = "thunk" /\ ctl' # "code" /\ str = 0 /\ str' = 0 /\ pos' = pos /\ mem' = mem
<1>1. /\ ctl = "thunk" /\ ctl' # "code" /\ str' = str /\ pos' = pos /\ mem' = mem
  BY DEF Resolve, OutOfMemory, ResolveThunk, OutOfCodeMemory, outside, control
<1> QED BY <1>1 DEF LInv, InQuotes

\* Every step keeps control inside its block.
LEMMA StepLInv == LInv /\ [MachineNext]_allvars => LInv'
<1> SUFFICES ASSUME LInv, [MachineNext]_allvars PROVE LInv'
  OBVIOUS
<1>0. MInv'
  BY StepIsJit, NextIInv, StepStackOK DEF LInv, MInv
<1> SUFFICES InLine' /\ InQuotes'
  BY <1>0 DEF LInv
<1>1. CASE (\E a \in Addr : Resolve(a)) \/ OutOfMemory
  BY <1>1, NoBlock DEF InLine, InQuotes
<1>2. CASE Enter
  <2>1. /\ pos' = pos /\ pos \in CodePos /\ mem \in Memory
        /\ code' = Compile(mem, pos) /\ ip' = 1 /\ str' = 0
    BY <1>2, EnteredBlock
  <2> DEFINE B == code'
             n == Len(B.ins)
  <2>2. B = Compile(mem, pos')
    BY <2>1
  <2> HIDE DEF B
  <2>3. n \in 1..Span(pos.dir) /\ Span(pos.dir) \in Nat
    BY <2>1, <2>2, LineOfBlock
  <2>4. ip' \in 1..n+1 /\ ip' # n + 1
    BY <2>1, <2>3
  <2> QED BY <2>1, <2>2, <2>4 DEF InLine, InQuotes, B
<1>3. CASE Compute \/ PutWord
  <2>1. /\ ctl = "code" /\ pos' = pos /\ code' = code /\ str' = 0
        /\ ip \in 1..Len(code.ins) /\ ip' = ip + 1 /\ code.ins[ip] \notin EndsBlock
    BY <1>3, BlockStays DEF char
  <2>2. \E m \in Memory : code = Compile(m, pos)
    BY <2>1 DEF LInv, InLine
  <2> DEFINE n == Len(code.ins)
  <2>3. n \in Nat
    BY <2>1, RunningLine
  <2> HIDE DEF n
  <2>4. ip' \in 1..n+1 /\ (ip' = n + 1 => ip = n)
    BY <2>1, <2>3 DEF n
  <2> QED BY <2>1, <2>2, <2>4 DEF InLine, InQuotes, n
<1>4. CASE Turn \/ GoRound \/ CloseString \/ Exit
  BY <1>4, BlockLeft DEF InLine, InQuotes
<1>5. CASE OpenString \/ PushChar
  <2>1. /\ UNCHANGED vars /\ code' = code /\ ctl = "code"
        /\ ip = Len(code.ins) /\ code.ins[ip] = Quote /\ str' \in 1..Len(code.str)+1
    BY <1>5, QuoteStays
  <2>2. /\ \E m \in Memory : code = Compile(m, pos)
        /\ ip \in 1..Len(code.ins)+1
        /\ ip = Len(code.ins) + 1 => code.ins[Len(code.ins)] \notin EndsBlock
    BY <2>1 DEF LInv, InLine
  <2> QED BY <2>1, <2>2 DEF InLine, InQuotes, vars, control
<1>6. CASE Stays
  BY <1>6, ControlStays DEF LInv, InLine, InQuotes, vars, control
<1> QED BY <1>1, <1>2, <1>3, <1>4, <1>5, <1>6 DEF MachineNext, Stays

\* Control is always inside a block, between two, or gone.
LEMMA LineInvariance == MachineSpec => []LInv
<1>1. MachineInit => LInv
  BY InitMInv DEF MachineInit, Init, LInv, InLine, InQuotes
<1> QED BY <1>1, StepLInv, PTL DEF MachineSpec

-----------------------------------------------------------------------------
(* What is left of a block goes stale by its own stores only.              *)

\* With less of the block left and the playfield the same, nothing goes stale.
LEMMA StaysFresh ==
  ASSUME LInv, ctl = "code", ctl' = "code", pos' = pos, mem' = mem, code' = code,
         ip \in Nat, ip' \in Nat, ip' >= ip,
         str \in Nat, str' \in Nat, str' >= str, Overwritten'
  PROVE  Overwritten
<1> DEFINE B == code
<1>1. /\ LastCell' = LastCell /\ StringEnd' = StringEnd
      /\ HasString' = HasString /\ IsClosed' = IsClosed /\ B' = B
  BY DEF LastCell, StringEnd, HasString, IsClosed
<1>2. Len(B.ins) \in Nat /\ str \in Nat
  BY RunningLine
<1> HIDE DEF B
<1>3. CASE str' = 0 /\ \E i \in ip'..Len(B.ins) : B.ins[i] # Fetch(mem, At(pos, i - 1))
  <2>1. PICK i \in ip'..Len(B.ins) : B.ins[i] # Fetch(mem, At(pos, i - 1))
    BY <1>3
  <2>2. i \in ip..Len(B.ins) /\ str = 0
    BY <1>2, <1>3
  <2> QED BY <2>1, <2>2 DEF Overwritten, B
<1>4. CASE HasString /\ \E j \in 1..Len(B.str) : j >= str' /\ B.str[j] # Fetch(mem, At(LastCell, j))
  <2>1. PICK j \in 1..Len(B.str) : j >= str' /\ B.str[j] # Fetch(mem, At(LastCell, j))
    BY <1>4
  <2>2. j >= str
    BY <2>1
  <2> QED BY <1>4, <2>1, <2>2 DEF Overwritten, B
<1>5. CASE HasString /\ IsClosed /\ Fetch(mem, StringEnd) # Quote
  BY <1>5 DEF Overwritten
<1> QED BY <1>1, <1>3, <1>4, <1>5 DEF Overwritten, B

\* A block that has just been entered is fresh.
LEMMA EnteredFresh ==
  ASSUME LInv, Enter
  PROVE  ~Overwritten'
<1>1. /\ ctl' = "code" /\ pos' = pos /\ pos \in CodePos /\ mem' = mem /\ mem \in Memory
      /\ code' = Compile(mem, pos) /\ ip' = 1 /\ str' = 0
  BY EnteredBlock
<1> DEFINE B == code'
           n == Len(B.ins)
           l == Len(B.str)
           q == At(pos, n - 1)
<1>2. /\ LastCell' = q /\ StringEnd' = At(q, l + 1)
      /\ HasString' => B.ins[n] = Quote
      /\ IsClosed' <=> B.exits[1] # At(q, l + 1)
  BY <1>1 DEF LastCell, StringEnd, HasString, IsClosed
<1>3. B = Compile(mem, pos) /\ n = Len(B.ins) /\ l = Len(B.str) /\ q = At(pos, n - 1)
  BY <1>1
<1> HIDE DEF B, n, l, q
<1>4. /\ \A k \in 1..n : B.ins[k] = Fetch(mem, At(pos, k - 1))
      /\ q = Final(mem, pos)
      /\ B.ins[n] = Quote => IsString(mem, pos)
  BY <1>1, <1>3, LineOfBlock
<1>5. ASSUME B.ins[n] = Quote
      PROVE  /\ \A j \in 1..l : B.str[j] = Fetch(mem, At(q, j))
             /\ B.exits[1] # At(q, l + 1) => Fetch(mem, At(q, l + 1)) = Quote
  BY <1>1, <1>3, <1>4, <1>5, StringOfBlock
<1>6. ~\E i \in ip'..n : B.ins[i] # Fetch(mem, At(pos, i - 1))
  BY <1>1, <1>4
<1>7. HasString' => ~(\E j \in 1..l : j >= str' /\ B.str[j] # Fetch(mem, At(q, j)))
                    /\ ~(IsClosed' /\ Fetch(mem, At(q, l + 1)) # Quote)
  BY <1>2, <1>5
<1> QED BY <1>1, <1>2, <1>6, <1>7 DEF Overwritten, B, n, l

(***************************************************************************)
(* The running block is stale only when it has overwritten itself: control *)
(* never enters a stale one, and no other part of the program makes it so. *)
(***************************************************************************)
THEOREM OnlyByItself == MachineSpec => OverwrittenByItself
<1> DEFINE A == Overwritten' => Overwritten \/ (ctl = "code" /\ blk' = blk /\ mem' # mem)
<1>1. LInv /\ [MachineNext]_allvars => A
  <2> SUFFICES ASSUME LInv, [MachineNext]_allvars, Overwritten' PROVE Overwritten \/ (ctl = "code" /\ blk' = blk /\ mem' # mem)
    OBVIOUS
  <2>0. ctl' = "code" /\ str \in Nat
    BY DEF Overwritten, LInv, MInv, StackOK
  <2>1. CASE (\E a \in Addr : Resolve(a)) \/ OutOfMemory \/ Turn \/ GoRound \/ CloseString \/ Exit
    BY <2>0, <2>1, NoBlock, BlockLeft
  <2>2. CASE Enter
    BY <2>2, EnteredFresh
  <2>3. CASE Compute \/ PutWord
    <3>1. /\ ctl = "code" /\ pos' = pos /\ blk' = blk /\ code' = code
          /\ str = 0 /\ str' = 0 /\ ip' = ip + 1
      BY <2>3, BlockStays
    <3>2. ip \in Nat
      BY <3>1, RunningLine
    <3>3. CASE mem' = mem
      BY <2>0, <3>1, <3>2, <3>3, StaysFresh
    <3> QED BY <3>1, <3>3
  <2>4. CASE OpenString \/ PushChar
    <3>1. /\ UNCHANGED vars /\ code' = code /\ ctl = "code" /\ str' = str + 1
      BY <2>4, QuoteStays
    <3>2. ip \in Nat
      BY <3>1, RunningLine
    <3>3. ctl' = ctl /\ pos' = pos /\ mem' = mem /\ ip' = ip
      BY <3>1 DEF vars, control
    <3>4. str' \in Nat /\ str' >= str /\ ip' >= ip
      BY <2>0, <3>1, <3>2, <3>3
    <3> QED BY <2>0, <3>1, <3>2, <3>3, <3>4, StaysFresh
  <2>5. CASE Stays
    <3>1. UNCHANGED vars /\ code' = code /\ str' = str
      BY <2>5, ControlStays
    <3>2. ctl' = ctl /\ pos' = pos /\ mem' = mem /\ ip' = ip
      BY <3>1 DEF vars, control
    <3>3. ctl = "code" /\ ip \in Nat
      BY <2>0, <3>2, RunningLine
    <3>4. str' >= str /\ ip' >= ip
      BY <2>0, <3>1, <3>2, <3>3
    <3> QED BY <2>0, <3>1, <3>2, <3>3, <3>4, StaysFresh
  <2> QED BY <2>1, <2>2, <2>3, <2>4, <2>5 DEF MachineNext, Stays
<1>2. LInv /\ [MachineNext]_allvars => [A]_allvars
  BY <1>1
<1>3. MachineSpec => [][A]_allvars
  BY <1>2, LineInvariance, PTL DEF MachineSpec
<1> QED BY <1>3 DEF OverwrittenByItself

-----------------------------------------------------------------------------
(* What 'p' writes, 'g' reads.                                             *)

\* The operands of 'p' are three words.
LEMMA PutOperands ==
  ASSUME LInv, PutWord
  PROVE  /\ kind = "p" /\ Len(stk) >= 3
         /\ stk[1] \in Word /\ stk[2] \in Word /\ stk[3] \in Word
         /\ called' = << "write_val", << stk[1], stk[2], stk[3] >> >>
<1>1. char = Put
  BY DEF PutWord, AtChar, AtInstr, char
<1>2. kind = "p"
  BY <1>1 DEF kind, Kind, Put
<1>3. Pops(kind) = 3
  BY <1>2 DEF Pops
<1>4. Len(stk) >= 3 /\ stk \in Seq(Word)
  BY <1>3 DEF PutWord, Possible, LInv, MInv, StackOK
<1>5. stk[1] \in Word /\ stk[2] \in Word /\ stk[3] \in Word
  BY <1>4, ElementOfSeq
<1>6. called' = Asks(kind, stk, Digit(char))
  BY DEF PutWord, Execute
<1>7. Asks("p", stk, Digit(char)) = << "write_val", << stk[1], stk[2], stk[3] >> >>
  BY DEF Asks
<1> QED BY <1>2, <1>4, <1>5, <1>6, <1>7

\* A coordinate inside the playfield is one as a signed word, and no other is.
LEMMA SignedInside ==
  ASSUME NEW x \in Word, NEW n \in Nat, n <= SignBit
  PROVE  Signed(x) \in 0..n-1 <=> x < n
<1>1. x \in Nat /\ x < 2 * SignBit /\ SignBit \in Nat
  BY SignBitAssumption, WordFacts DEF Modulus
<1> QED BY <1>1 DEF Signed, Modulus

(***************************************************************************)
(* 'p' and 'g' agree on which words are coordinates, and on what a cell    *)
(* holds afterwards; nothing but a 'p' changes the playfield.              *)
(***************************************************************************)
THEOREM PutThenGetAgrees == MachineSpec => PutThenGet
<1> DEFINE Hit(x, y) == Signed(x) \in 0..N_COLS-1 /\ Signed(y) \in 0..N_ROWS-1
           Wrote == called' # << >> /\ called'[1] = "write_val"
           Found(y, x, v) ==
             /\ extern_read_val(mem', y, x) = IF Hit(x, y) THEN v % 256 ELSE 0
             /\ \A c \in Coord : (Hit(x, y) /\ c = [x |-> x, y |-> y]) \/ mem'[c] = mem[c]
           A == mem' # mem \/ called' # called =>
                  IF Wrote THEN Found(called'[2][1], called'[2][2], called'[2][3]) ELSE mem' = mem
<1>1. ASSUME LInv, PutWord PROVE A
  <2> DEFINE y == stk[1]
             x == stk[2]
             v == stk[3]
  <2>1. /\ y \in Word /\ x \in Word /\ v \in Word
        /\ called' = << "write_val", << y, x, v >> >>
    BY <1>1, PutOperands
  <2>2. mem \in [Coord -> Byte]
    BY <1>1 DEF LInv, MInv, IInv, TypeOK, Memory
  <2>3. \/ Inside(x, y) /\ mem' = [mem EXCEPT ![[x |-> x, y |-> y]] = v % 256]
        \/ ~Inside(x, y) /\ mem' = mem
    BY <1>1 DEF PutWord, Store, StoreOutside, Truncated
  <2> HIDE DEF y, x, v
  <2>4. Hit(x, y) <=> Inside(x, y)
    <3>1. N_COLS \in Nat /\ N_ROWS \in Nat /\ N_COLS <= SignBit /\ N_ROWS <= SignBit
      BY GridAssumption, WidthAssumption
    <3> QED BY <2>1, <3>1, SignedInside DEF Inside
  <2>5. Inside(x, y) => [x |-> x, y |-> y] \in Coord
    BY <2>1, WordFacts, GridAssumption DEF Inside, Coord
  <2> HIDE DEF Hit
  <2>6. Found(y, x, v)
    <3>1. CASE Inside(x, y)
      BY <2>2, <2>3, <2>4, <2>5, <3>1 DEF extern_read_val
    <3>2. CASE ~Inside(x, y)
      BY <2>3, <2>4, <3>2 DEF extern_read_val
    <3> QED BY <3>1, <3>2
  <2> HIDE DEF Found
  <2> QED BY <2>1, <2>6
<1>2. ASSUME LInv, Compute PROVE A
  <2>1. mem' = mem /\ char # Put
    BY <1>2 DEF Compute, Continue, AtChar, AtInstr, char
  <2>2. called' = Asks(kind, stk, Digit(char))
    BY <1>2 DEF Compute, Execute
  <2>3. kind # "p"
    BY <2>1 DEF kind, Kind, Put
  <2>4. ~Wrote
    BY <2>2, <2>3 DEF Asks
  <2> QED BY <2>1, <2>4
<1>3. ASSUME LInv, Turn PROVE A
  <2>1. mem' = mem /\ char \in EndsBlock
    BY <1>3 DEF Turn, Leave, AtChar, AtInstr, char
  <2>2. called' = Asks(kind, stk, Digit(char))
    BY <1>3 DEF Turn, Execute
  <2>3. kind # "p"
    BY <2>1 DEF kind, Kind, EndsBlock, Quote, Bridge, GoLeft, GoRight, Random, Halt, GoUp, IfHoriz, GoDown, IfVert
  <2>4. ~Wrote
    BY <2>2, <2>3 DEF Asks
  <2> QED BY <2>1, <2>4
<1>4. ASSUME OpenString \/ PushChar \/ CloseString PROVE A
  BY <1>4 DEF OpenString, PushChar, CloseString, Leave, vars
<1>5. ASSUME LInv, (\E a \in Addr : Resolve(a)) \/ OutOfMemory \/ Enter \/ GoRound \/ Exit PROVE A
  <2>1. mem' = mem
    BY <1>5, NoBlock, EnteredBlock DEF GoRound, Leave, Exit, Stop
  <2>2. called' = called
    BY <1>5 DEF Resolve, OutOfMemory, Enter, GoRound, Exit, outside
  <2> QED BY <2>1, <2>2
<1>6. ASSUME Stays PROVE A
  BY <1>6 DEF Stays, FloatingPointException, SegmentationFault, Gone, allvars, outside, vars
<1>7. LInv /\ [MachineNext]_allvars => [A]_allvars
  <2> HIDE DEF A
  <2> QED BY <1>1, <1>2, <1>3, <1>4, <1>5, <1>6 DEF MachineNext, Stays
<1>8. MachineSpec => [][A]_allvars
  <2> HIDE DEF A
  <2> QED BY <1>7, LineInvariance, PTL DEF MachineSpec
<1> QED BY <1>8 DEF PutThenGet

-----------------------------------------------------------------------------
(* The definitions module Befunge takes from Block, Words and Externs are  *)
(* the same under the refinement mapping: none mentions a variable.        *)

\* Positions, bytes and the characters with a meaning of their own.
LEMMA CellsSets ==
  /\ Cells!Coord = Coord /\ Cells!CodePos = CodePos /\ Cells!Byte = Byte
  /\ Cells!EndsBlock = EndsBlock /\ Cells!Quote = Quote /\ Cells!Put = Put /\ Cells!Halt = Halt
  /\ Cells!Start = Start
BY DEF Cells!Coord, Coord, Cells!CodePos, CodePos, Cells!Byte, Byte, Cells!EndsBlock, EndsBlock,
       Cells!Put, Put, Cells!Halt, Halt, Cells!Dirs, Dirs, Cells!Start, Start,
       Cells!UP, Cells!DOWN, Cells!LEFT, Cells!RIGHT, UP, DOWN, LEFT, RIGHT,
       Cells!Quote, Quote, Cells!Bridge, Bridge, Cells!GoLeft, GoLeft,
       Cells!GoRight, GoRight, Cells!Random, Random, Cells!GoUp, GoUp,
       Cells!GoDown, GoDown, Cells!IfHoriz, IfHoriz, Cells!IfVert, IfVert

\* Where a step of control leads.
LEMMA CellsMoves ==
  /\ \A p, d, i : Cells!advance_pos(p, d, i) = advance_pos(p, d, i)
  /\ \A p : Cells!Step(p) = Step(p)
  /\ \A m, p : Cells!Fetch(m, p) = Fetch(m, p)
<1> USE DEF Cells!UP, Cells!DOWN, Cells!LEFT, Cells!RIGHT, UP, DOWN, LEFT, RIGHT
<1>1. Cells!codepos_from_dir = codepos_from_dir
  BY DEF Cells!codepos_from_dir, codepos_from_dir, Cells!Dirs, Dirs
<1>2. \A p, d, i : Cells!advance_pos(p, d, i) = advance_pos(p, d, i)
  BY <1>1 DEF Cells!advance_pos, advance_pos, Cells!code_pos, code_pos,
              Cells!loop_clamp, loop_clamp
<1>3. \A p : Cells!Step(p) = Step(p)
  BY <1>2 DEF Cells!Step, Step
<1>4. \A m, p : Cells!Fetch(m, p) = Fetch(m, p)
  BY DEF Cells!Fetch, Fetch, Cells!to_coord, to_coord
<1> QED BY <1>2, <1>3, <1>4

\* Where a character sends control.
LEMMA CellsTargets ==
  \A c, q, s, a : Cells!Targets(c, q, s, a) = Targets(c, q, s, a)
BY CellsMoves
   DEF Cells!Targets, Targets, Cells!UP, Cells!DOWN, Cells!LEFT, Cells!RIGHT, UP, DOWN, LEFT, RIGHT,
       Cells!Quote, Quote, Cells!Bridge, Bridge, Cells!GoLeft, GoLeft, Cells!Halt, Halt,
       Cells!GoRight, GoRight, Cells!Random, Random, Cells!GoUp, GoUp,
       Cells!GoDown, GoDown, Cells!IfHoriz, IfHoriz, Cells!IfVert, IfVert

\* Words, and what a character pops.
LEMMA CellsWords ==
  /\ Cells!Modulus = Modulus /\ Cells!Word = Word
  /\ \A w : Cells!Signed(w) = Signed(w)
  /\ \A c : Cells!Kind(c) = Kind(c)
  /\ \A c : Cells!Digit(c) = Digit(c)
  /\ \A k : Cells!Pops(k) = Pops(k)
  /\ \A k, s : Cells!Traps(k, s) = Traps(k, s)
<1>1. Cells!Modulus = Modulus
  BY DEF Cells!Modulus, Modulus
<1>2. Cells!Word = Word /\ \A w : Cells!Signed(w) = Signed(w)
  BY <1>1 DEF Cells!Word, Word, Cells!Signed, Signed
<1>3. \A c : Cells!Kind(c) = Kind(c)
  BY DEF Cells!Kind, Kind
<1>4. /\ \A c : Cells!Digit(c) = Digit(c)
      /\ \A k : Cells!Pops(k) = Pops(k)
      /\ \A k, s : Cells!Traps(k, s) = Traps(k, s)
  BY DEF Cells!Digit, Digit, Cells!Pops, Pops, Cells!Traps, Traps
<1> QED BY <1>1, <1>2, <1>3, <1>4

\* What a character does to stack, playfield and direction.
LEMMA CellsEffects ==
  /\ \A k, s, l, r : Cells!Pushes(k, s, l, r) = Pushes(k, s, l, r)
  /\ \A k, s, l : Cells!Asks(k, s, l) = Asks(k, s, l)
  /\ \A k, s, r : Cells!Way(k, s, r) = Way(k, s, r)
<1>1. \A k, s, l, r : Cells!Pushes(k, s, l, r) = Pushes(k, s, l, r)
  BY CellsWords DEF Cells!Pushes, Pushes
<1>2. \A k, s, l : Cells!Asks(k, s, l) = Asks(k, s, l)
  BY DEF Cells!Asks, Asks
<1>3. \A k, s, r : Cells!Way(k, s, r) = Way(k, s, r)
  BY DEF Cells!Way, Way
<1> QED BY <1>1, <1>2, <1>3

\* What is read of the input.
LEMMA CellsText ==
  /\ \A t, i, S : Cells!EndOf(t, i, S) = EndOf(t, i, S)
  /\ \A t : Cells!SkipBlanks(t) = SkipBlanks(t)
  /\ \A t, i, k : Cells!Number(t, i, k) = Number(t, i, k)
  /\ \A b : Cells!Extended(b) = Extended(b)
  /\ \A w, t, b : Cells!Read(w, t, b) = Read(w, t, b)
  /\ \A v, c : Cells!NothingRead(v, c) = NothingRead(v, c)
<1>1. \A t, i, S : Cells!EndOf(t, i, S) = EndOf(t, i, S)
  BY DEF Cells!EndOf, EndOf
<1>2. \A t : Cells!SkipBlanks(t) = SkipBlanks(t)
  BY <1>1 DEF Cells!SkipBlanks, SkipBlanks, Cells!Blanks, Blanks
<1>3. \A t, i, k : Cells!Number(t, i, k) = Number(t, i, k)
  BY DEF Cells!Number, Number
<1>4. \A b : Cells!Extended(b) = Extended(b)
  BY CellsWords DEF Cells!Extended, Extended
<1>5. \A w, t, b : Cells!Read(w, t, b) = Read(w, t, b)
  BY DEF Cells!Read, Read
<1>6. \A v, c : Cells!NothingRead(v, c) = NothingRead(v, c)
  BY <1>5 DEF Cells!NothingRead, NothingRead
<1> QED BY <1>1, <1>2, <1>3, <1>4, <1>5, <1>6

\* What the calls return.
LEMMA CellsReturns ==
  \A k, s, m, c : Cells!Returns(k, s, m, c) = Returns(k, s, m, c)
<1>1. \A c : Cells!extern_getchar(c) = extern_getchar(c)
  BY CellsText DEF Cells!extern_getchar, extern_getchar
<1>2. ASSUME NEW c PROVE Cells!extern_getint(c) = extern_getint(c)
  <2> DEFINE text == SkipBlanks(c.rest)
             from == IF text # << >> /\ Head(text) \in {Minus, Plus} THEN 2 ELSE 1
             end  == EndOf(text, from, Digits)
             n    == Number(text, from, end - 1)
             rest == SubSeq(text, end, Len(text))
             none == NothingRead(Garbage, c)
             zero == Read(0, rest, TRUE)
             most == Read(Modulus - 1, rest, TRUE)
             word == Read(IF Head(text) = Minus THEN (-n) % Modulus ELSE n, rest, FALSE)
             G    == IF c.failed \/ text = << >> THEN none
                     ELSE IF end = from THEN {zero}
                     ELSE IF n \notin Word THEN {most}
                     ELSE {word}
  <2>1. extern_getint(c) = G
    BY DEF extern_getint
  <2>2. /\ Cells!SkipBlanks(c.rest) = text
        /\ Cells!Minus = Minus /\ Cells!Plus = Plus /\ Cells!Digits = Digits
    BY CellsText DEF Cells!Minus, Minus, Cells!Plus, Plus, Cells!Digits, Digits
  <2>3. Cells!extern_getint(c) = G
    BY <2>2, CellsText, CellsWords DEF Cells!extern_getint
  <2> QED BY <2>1, <2>3
<1>3. \A m, y, x : Cells!extern_read_val(m, y, x) = extern_read_val(m, y, x)
  BY DEF Cells!extern_read_val, extern_read_val, Cells!Inside, Inside
<1>4. Cells!extern_rand = extern_rand
  BY DEF Cells!extern_rand, extern_rand, Cells!Dirs, Dirs, Cells!UP, Cells!DOWN, Cells!LEFT, Cells!RIGHT,
         UP, DOWN, LEFT, RIGHT
<1> QED BY <1>1, <1>2, <1>3, <1>4 DEF Cells!Returns, Returns

\* What is stored, and where.
LEMMA CellsStores ==
  /\ \A x, y : Cells!Inside(x, y) = Inside(x, y)
  /\ \A v : Cells!Truncated(v) = Truncated(v)
BY DEF Cells!Inside, Inside, Cells!Truncated, Truncated

-----------------------------------------------------------------------------
(* The stack of the machine and the stack of the language.                 *)

\* What a character does depends on no word below its operands.
LEMMA OperandsOnly ==
  ASSUME NEW k, NEW s, NEW t, \A i \in 1..Pops(k) : s[i] = t[i]
  PROVE  /\ \A l, r : Pushes(k, s, l, r) = Pushes(k, t, l, r)
         /\ \A l : Asks(k, s, l) = Asks(k, t, l)
         /\ Traps(k, s) <=> Traps(k, t)
         /\ \A r : Way(k, s, r) = Way(k, t, r)
         /\ \A m, c : Returns(k, s, m, c) = Returns(k, t, m, c)
<1>1. CASE k = "p"
  <2>0. Pops(k) = 3
    BY <1>1 DEF Pops
  <2>1. s[1] = t[1] /\ s[2] = t[2] /\ s[3] = t[3]
    BY <2>0
  <2> QED BY <1>1, <2>1 DEF Pushes, Asks, Traps, Way, Returns
<1>2. CASE k \in {"+", "-", "*", "/", "%", "\\", "gt", "g"}
  <2>0. Pops(k) = 2
    BY <1>2 DEF Pops
  <2>1. s[1] = t[1] /\ s[2] = t[2]
    BY <2>0
  <2>2. \A l, r : Pushes(k, s, l, r) = Pushes(k, t, l, r)
    BY <1>2, <2>1 DEF Pushes
  <2>3. \A m, c : Returns(k, s, m, c) = Returns(k, t, m, c)
    BY <1>2, <2>1 DEF Returns
  <2> QED BY <1>2, <2>1, <2>2, <2>3 DEF Asks, Traps, Way
<1>3. CASE k \in {":", "$", "!", ".", ",", "_", "|"}
  <2>0. Pops(k) = 1
    BY <1>3 DEF Pops
  <2>1. s[1] = t[1]
    BY <2>0
  <2> QED BY <1>3, <2>1 DEF Pushes, Asks, Traps, Way, Returns
<1>4. CASE k \notin {"p", "+", "-", "*", "/", "%", "\\", "gt", "g", ":", "$", "!", ".", ",", "_", "|"}
  BY <1>4 DEF Pushes, Asks, Traps, Way, Returns
<1> QED BY <1>1, <1>2, <1>3, <1>4

\* A stack without its last f words, and without its first n.
Above(s, f) == SubSeq(s, 1, Len(s) - f)
Under(s, n) == SubSeq(s, n + 1, Len(s))

\* What is put on top of a stack is put on top of its upper part.
LEMMA OnTop ==
  ASSUME NEW s \in Seq(Word), NEW p \in Seq(Word), NEW n \in Nat, NEW f \in Nat, n + f <= Len(s)
  PROVE  Above(p \o Under(s, n), f) = p \o Under(Above(s, f), n)
<1>a. PICK t : t = p \o SubSeq(s, n + 1, Len(s))
  OBVIOUS
<1>b. PICK b : b = SubSeq(s, 1, Len(s) - f)
  OBVIOUS
<1> DEFINE L == Len(s)
           P == Len(p)
           r == SubSeq(s, n + 1, L)
           q == SubSeq(b, n + 1, L - f)
<1>1. L \in Nat /\ P \in Nat /\ n <= L - f /\ L - f >= 0
  OBVIOUS
<1>2. \A i \in 1..L : s[i] \in Word
  BY ElementOfSeq
<1>3. r \in Seq(Word) /\ Len(r) = L - n /\ \A i \in 1..L-n : r[i] = s[n + i]
  <2>1. \A i \in n+1..L : s[i] \in Word
    BY <1>1, <1>2
  <2> QED BY <1>1, <2>1, SubSeqProperties
<1>4. b \in Seq(Word) /\ Len(b) = L - f /\ \A i \in 1..L-f : b[i] = s[i]
  <2>1. \A i \in 1..L-f : s[i] \in Word
    BY <1>1, <1>2
  <2>2. 1 \in Int /\ L - f \in Int
    BY <1>1
  <2> QED BY <1>b, <1>1, <2>1, <2>2, SubSeqProperties
<1>5. q \in Seq(Word) /\ Len(q) = L - f - n /\ \A i \in 1..L-f-n : q[i] = s[n + i]
  <2>1. \A i \in n+1..L-f : b[i] \in Word
    BY <1>1, <1>2, <1>4
  <2>2. n + 1 \in Int /\ L - f \in Int
    BY <1>1
  <2> DEFINE N == L - f
  <2>3. N \in Nat /\ n <= N /\ q = SubSeq(b, n + 1, N) /\ \A i \in n+1..N : b[i] \in Word
    BY <1>1, <2>1
  <2> HIDE DEF q, N
  <2>4. q \in Seq(Word) /\ Len(q) = N - n /\ \A i \in 1..N-n : q[i] = b[n + i]
    BY <2>3, SubSeqProperties
  <2>5. \A i \in 1..N-n : n + i \in 1..N
    BY <1>1, <2>3
  <2>6. \A i \in 1..N : b[i] = s[i]
    BY <1>4 DEF N
  <2>7. \A i \in 1..N-n : q[i] = s[n + i]
    BY <2>4, <2>5, <2>6, Zenon
  <2> QED BY <2>4, <2>7, Zenon DEF N
<1> HIDE DEF L, r, q
<1>6. t = p \o r
  BY <1>a DEF L, r
<1>7. /\ t \in Seq(Word) /\ Len(t) = Len(p) + Len(r)
      /\ \A i \in 1..Len(p)+Len(r) : t[i] = IF i <= Len(p) THEN p[i] ELSE r[i - Len(p)]
  <2>1. r \in Seq(Word)
    BY <1>3
  <2>2. \A i \in 1..Len(p)+Len(r) : (p \o r)[i] = IF i <= Len(p) THEN p[i] ELSE r[i - Len(p)]
    BY <2>1, ConcatProperties, Zenon
  <2>3. p \o r \in Seq(Word) /\ Len(p \o r) = Len(p) + Len(r)
    BY <2>1, ConcatProperties
  <2> QED BY <1>6, <2>2, <2>3, Zenon
<1>8. /\ p \o q \in Seq(Word) /\ Len(p \o q) = Len(p) + Len(q)
      /\ \A i \in 1..Len(p)+Len(q) : (p \o q)[i] = IF i <= Len(p) THEN p[i] ELSE q[i - Len(p)]
  <2>1. q \in Seq(Word)
    BY <1>5
  <2>2. \A i \in 1..Len(p)+Len(q) : (p \o q)[i] = IF i <= Len(p) THEN p[i] ELSE q[i - Len(p)]
    BY <2>1, ConcatProperties, Zenon
  <2>3. p \o q \in Seq(Word) /\ Len(p \o q) = Len(p) + Len(q)
    BY <2>1, ConcatProperties
  <2> QED BY <2>2, <2>3, Zenon
<1> DEFINE M == P + Len(q)
           u == SubSeq(t, 1, M)
<1>9. /\ M \in Nat /\ Len(t) = M + f /\ Len(p \o q) = M
      /\ Len(p) + Len(q) = M /\ Len(p) + Len(r) = M + f
  BY <1>1, <1>3, <1>5, <1>7, <1>8
<1> HIDE DEF M
<1>10. u \in Seq(Word) /\ Len(u) = M /\ \A i \in 1..M : u[i] = t[i]
  <2>1. ASSUME NEW i \in 1..M PROVE t[i] \in Word
    <3> DEFINE T == Len(t)
    <3>1. T = M + f /\ M \in Nat
      BY <1>9
    <3> HIDE DEF T
    <3>2. i \in 1..T
      BY <3>1
    <3> QED BY <1>7, <3>2, ElementOfSeq DEF T
  <2> QED BY <1>9, <2>1, SubSeqProperties
<1>11. ASSUME NEW i \in 1..M PROVE u[i] = (p \o q)[i]
  <2>1. i \in 1..Len(p)+Len(r) /\ i \in 1..Len(p)+Len(q) /\ i \in Nat
    <3> DEFINE j == Len(p) + Len(q)
               k == Len(p) + Len(r)
    <3>1. j = M /\ k = M + f /\ M \in Nat
      BY <1>9
    <3> HIDE DEF j, k
    <3>2. i \in 1..j /\ i \in 1..k /\ i \in Nat
      BY <3>1
    <3> QED BY <3>2 DEF j, k
  <2>2. CASE i <= Len(p)
    BY <1>7, <1>8, <1>10, <2>1, <2>2
  <2>3. CASE ~(i <= Len(p))
    <3>1. i - P \in 1..L-f-n /\ i - P \in 1..L-n
      <4>1. P \in Nat /\ M = P + (L - f - n) /\ ~(i <= P)
        BY <1>1, <1>5, <2>3 DEF M
      <4> HIDE DEF P
      <4> QED BY <1>1, <1>9, <4>1
    <3>2. r[i - P] = q[i - P]
      BY <1>3, <1>5, <3>1
    <3>3. u[i] = r[i - P]
      BY <1>7, <1>10, <2>1, <2>3
    <3>4. (p \o q)[i] = q[i - P]
      BY <1>8, <2>1, <2>3
    <3> QED BY <3>2, <3>3, <3>4
  <2> QED BY <2>1, <2>2, <2>3
<1> HIDE DEF u
<1>12. u = p \o q
  BY <1>8, <1>9, <1>10, <1>11, SeqEqual
<1>13. Len(t) - f = M /\ Len(b) = L - f
  BY <1>1, <1>4, <1>9
<1>14. SubSeq(t, 1, Len(t) - f) = p \o SubSeq(b, n + 1, Len(b))
  BY <1>12, <1>13 DEF u, q
<1>15. /\ Above(p \o Under(s, n), f) = SubSeq(t, 1, Len(t) - f)
       /\ Under(Above(s, f), n) = SubSeq(b, n + 1, Len(b))
  BY <1>a, <1>b DEF Above, Under
<1> QED BY <1>14, <1>15

\* The operands are those of the language's stack, with zeros below it or not.
LEMMA Operands ==
  ASSUME LInv, NEW n \in 0..3, Len(stk) >= FrameLen + n
  PROVE  /\ BefungeStack \in Seq(Word) /\ Len(BefungeStack) = Len(stk) - FrameLen
         /\ \A i \in 1..n : stk[i] = Cells!deep[i]
<1> DEFINE b == BefungeStack
           L == Len(stk)
           F == FrameLen
<1>1. stk \in Seq(Word) /\ F \in Nat /\ L \in Nat /\ L >= F + n
  BY StackAssumption DEF LInv, MInv, StackOK
<1>2. b \in Seq(Word) /\ Len(b) = L - F /\ \A i \in 1..L-F : b[i] = stk[i]
  <2>1. \A i \in 1..L-F : stk[i] \in Word
    BY <1>1, ElementOfSeq
  <2>2. 1 \in Int /\ L - F \in Nat /\ b = SubSeq(stk, 1, L - F)
    BY <1>1 DEF BefungeStack
  <2> QED BY <2>1, <2>2, SubSeqProperties
<1> DEFINE z == << 0, 0, 0 >>
           d == Cells!deep
<1>3. d = IF Len(b) >= 3 THEN b ELSE b \o z
  BY DEF Cells!deep
<1>4. z \in Seq(Word)
  BY WordFacts
<1> HIDE DEF b, L, F, z, d
<1>5. \A i \in 1..L-F : (b \o z)[i] = b[i]
  BY <1>1, <1>2, <1>4, ConcatProperties
<1>6. \A i \in 1..n : d[i] = b[i] /\ b[i] = stk[i]
  BY <1>1, <1>2, <1>3, <1>5
<1> QED BY <1>2, <1>6 DEF b, L, F, d

-----------------------------------------------------------------------------
(* A step of the machine is one of the language.                           *)

\* The instruction a fresh block is at is the cell the language reads.
LEMMA ReadsCell ==
  ASSUME LInv, ~Overwritten, NEW S, S \subseteq Byte, AtChar(S)
  PROVE  /\ ctl = "code" /\ fault = "none" /\ str = 0 /\ Life = "run"
         /\ pos \in CodePos /\ ip \in 1..Span(pos.dir) /\ ip <= Len(code.ins)
         /\ Cell = At(pos, ip - 1) /\ char \in S
         /\ Cells!char = char /\ Cells!kind = kind
         /\ Cells!AtInstr(S) /\ AtChar(Byte)
<1>1. /\ ctl = "code" /\ fault = "none" /\ str = 0 /\ ip <= Len(code.ins) /\ char \in S
      /\ AtChar(Byte)
  BY DEF AtChar, AtInstr, char
<1>2. Life = "run" /\ Cell = At(pos, ip - 1)
  BY <1>1 DEF Life, Cell
<1> DEFINE n == Len(code.ins)
<1>3. pos \in CodePos /\ ip \in Nat \ {0} /\ n \in 1..Span(pos.dir) /\ Span(pos.dir) \in Nat
  BY <1>1, RunningLine
<1>4. ip \in 1..Span(pos.dir) /\ ip \in ip..n
  BY <1>1, <1>3
<1>5. char = Fetch(mem, At(pos, ip - 1))
  BY <1>1, <1>4 DEF Overwritten, char
<1>6. Cells!char = char
  BY <1>2, <1>5, CellsMoves DEF Cells!char
<1>7. Cells!kind = kind
  BY <1>6, CellsWords DEF Cells!kind, kind
<1>8. Cells!AtInstr(S)
  BY <1>1, <1>2, <1>6 DEF Cells!AtInstr
<1> QED BY <1>1, <1>2, <1>3, <1>4, <1>6, <1>7, <1>8

\* Its operands, if they are not those of the frame above the reserve.
LEMMA ReadsOperands ==
  ASSUME LInv, ~Overwritten, ~Drained, NEW S, S \subseteq Byte, AtChar(S)
  PROVE  /\ Pops(kind) \in 0..3 /\ FrameLen \in Nat /\ Len(stk) >= FrameLen + Pops(kind)
         /\ BefungeStack \in Seq(Word) /\ Len(BefungeStack) = Len(stk) - FrameLen
         /\ \A i \in 1..Pops(kind) : stk[i] = Cells!deep[i]
         /\ \A r : Cells!Way(kind, Cells!deep, r) = Way(kind, stk, r)
         /\ Cells!Traps(kind, Cells!deep) <=> Traps(kind, stk)
         /\ Cells!Results = Results
<1>1. AtChar(Byte) /\ Cells!kind = kind
  BY ReadsCell
<1>2. Pops(kind) \in 0..3
  BY DEF Pops
<1>3. Len(stk) \in Nat /\ FrameLen \in Nat
  BY StackAssumption DEF LInv, MInv, StackOK
<1>4. Len(stk) >= FrameLen + Pops(kind)
  BY <1>1, <1>2, <1>3 DEF Drained
<1>5. /\ BefungeStack \in Seq(Word) /\ Len(BefungeStack) = Len(stk) - FrameLen
      /\ \A i \in 1..Pops(kind) : stk[i] = Cells!deep[i]
  BY <1>2, <1>4, Operands
<1> DEFINE d == Cells!deep
<1> HIDE DEF d
<1>6. \A i \in 1..Pops(kind) : stk[i] = d[i]
  BY <1>5 DEF d
<1>7. /\ Traps(kind, stk) <=> Traps(kind, d)
      /\ \A r : Way(kind, stk, r) = Way(kind, d, r)
      /\ \A m, c : Returns(kind, stk, m, c) = Returns(kind, d, m, c)
  BY <1>6, OperandsOnly
<1>8. Cells!Results = Returns(kind, d, mem, cin)
  BY <1>1, CellsReturns DEF Cells!Results, d
<1>9. Cells!Results = Results
  BY <1>7, <1>8 DEF Results
<1> QED BY <1>2, <1>3, <1>4, <1>5, <1>7, <1>9, CellsWords, CellsEffects DEF d

\* What it does to the stack, the input and the outside.
LEMMA ExecutesCell ==
  ASSUME LInv, ~Overwritten, ~Drained, NEW S, S \subseteq Byte, AtChar(S),
         Len(stk) >= Pops(kind), ~Traps(kind, stk), NEW r \in Results, Execute(r)
  PROVE  Cells!Execute(r)
<1> DEFINE d == Cells!deep
           b == BefungeStack
           n == Pops(kind)
           l == Digit(char)
           p == Pushes(kind, stk, l, r.val)
<1>1. /\ n \in Nat /\ FrameLen \in Nat /\ Len(stk) >= FrameLen + n /\ Len(stk) \in Nat
      /\ \A i \in 1..n : stk[i] = d[i]
      /\ stk \in Seq(Word) /\ mem \in Memory /\ cin \in Stream
  BY ReadsOperands DEF LInv, MInv, StackOK, IInv, TypeOK
<1>2. p \in Seq(Word)
  <2>1. r.val \in Word
    BY <1>1, ReturnsType DEF Results, Extraction
  <2>2. kind = "0" => l \in Word
    BY DigitType DEF kind
  <2> QED BY <1>1, <2>1, <2>2, PushesType
<1>3. stk' = p \o SubSeq(stk, n + 1, Len(stk)) /\ called' = Asks(kind, stk, l) /\ cin' = r.cin
  BY DEF Execute, After
<1>4. b = SubSeq(stk, 1, Len(stk) - FrameLen) /\ b' = SubSeq(stk', 1, Len(stk') - FrameLen)
  BY DEF BefungeStack
<1>5. Cells!char = char /\ Cells!kind = kind
  BY ReadsCell
<1> HIDE DEF d, b, p, n, l
<1>7. b' = p \o Cells!Rest(n)
  <2>1. n + FrameLen <= Len(stk)
    BY <1>1
  <2>2. Above(p \o Under(stk, n), FrameLen) = p \o Under(Above(stk, FrameLen), n)
    BY <1>1, <1>2, <2>1, OnTop
  <2>3. stk' = p \o Under(stk, n) /\ b' = Above(stk', FrameLen) /\ b = Above(stk, FrameLen)
    BY <1>3, <1>4 DEF Above, Under
  <2>4. Cells!Rest(n) = Under(b, n)
    BY DEF Cells!Rest, Under, b
  <2> QED BY <2>2, <2>3, <2>4
<1>8. Pushes(kind, stk, l, r.val) = Pushes(kind, d, l, r.val) /\ Asks(kind, stk, l) = Asks(kind, d, l)
  <2>1. \A i \in 1..Pops(kind) : stk[i] = d[i]
    BY <1>1 DEF n
  <2>2. /\ \A m, v : Pushes(kind, stk, m, v) = Pushes(kind, d, m, v)
        /\ \A m : Asks(kind, stk, m) = Asks(kind, d, m)
    BY <2>1, OperandsOnly
  <2> QED BY <2>2
<1>9. b' = Pushes(kind, d, l, r.val) \o Cells!Rest(n) /\ called' = Asks(kind, d, l)
  BY <1>3, <1>7, <1>8 DEF p
<1> QED BY <1>3, <1>5, <1>9, CellsEffects, CellsWords DEF Cells!Execute, d, b, n, l

\* The cell after an instruction in the middle of a block.
LEMMA NextCell ==
  ASSUME LInv, ~Overwritten, Compute \/ PutWord
  PROVE  Life' = "run" /\ (str # 0)' = (str # 0) /\ Cell' = Cells!Step(Cell)
<1>1. /\ ctl' = "code" /\ pos' = pos /\ str = 0 /\ str' = 0 /\ fault' = "none"
      /\ ip' = ip + 1
  BY BlockStays
<1>2. pos \in CodePos /\ ip \in 1..Span(pos.dir) /\ Span(pos.dir) \in Nat /\ Cell = At(pos, ip - 1)
  <2>1. CASE Compute
    BY <2>1, ReadsCell, RunningLine DEF Compute
  <2>2. CASE PutWord
    <3>1. {Put} \subseteq Byte
      BY DEF Put, Byte
    <3> QED BY <2>2, <3>1, ReadsCell, RunningLine DEF PutWord
  <2> QED BY <2>1, <2>2
<1>3. Cell' = At(pos, ip + 1 - 1) /\ Life' = "run"
  <2>1. Life' = "run"
    BY <1>1 DEF Life
  <2>2. Cell' = At(pos', ip' - 1)
    BY <1>1 DEF Cell
  <2>3. pos' = pos /\ ip' = ip + 1 /\ ip \in Nat
    BY <1>1, <1>2
  <2>4. At(pos', ip' - 1) = At(pos, ip + 1 - 1)
    BY <2>3
  <2> QED BY <2>1, <2>2, <2>4
<1>4. ip - 1 \in 0..Span(pos.dir)-1 /\ ip - 1 + 1 = ip + 1 - 1
  BY <1>2
<1>5. Step(At(pos, ip - 1)) = At(pos, ip + 1 - 1)
  BY <1>2, <1>4, StepAt
<1> QED BY <1>1, <1>2, <1>3, <1>5, CellsMoves

\* A character that computes.
LEMMA ComputeAgrees ==
  ASSUME LInv, ~Overwritten, ~Drained, Compute
  PROVE  Cells!Compute
<1> DEFINE S == Byte \ (EndsBlock \cup {Put})
<1>1. AtChar(S) /\ Possible /\ mem' = mem /\ S \subseteq Byte
  BY DEF Compute, Continue
<1>2. PICK r \in Results : Execute(r)
  BY DEF Compute
<1>3. Len(stk) >= Pops(kind) /\ ~Traps(kind, stk)
  BY <1>1, PossibleIs
<1> HIDE DEF S
<1>4. /\ Life = "run" /\ Cells!AtInstr(S) /\ Cells!kind = kind
  BY <1>1, ReadsCell
<1>5. ~Cells!Traps(kind, Cells!deep) /\ Cells!Results = Results
  BY <1>1, <1>3, ReadsOperands
<1>6. Cells!Execute(r)
  BY <1>1, <1>2, <1>3, ExecutesCell
<1>7. Life' = "run" /\ (str # 0)' = (str # 0) /\ Cell' = Cells!Step(Cell)
  BY NextCell
<1>8. Cells!AtInstr(Cells!Byte \ (Cells!EndsBlock \cup {Cells!Put}))
  BY <1>4, CellsSets DEF S
<1> QED BY <1>1, <1>2, <1>4, <1>5, <1>6, <1>7, <1>8 DEF Cells!Compute

\* A 'p'.
LEMMA PutAgrees ==
  ASSUME LInv, ~Overwritten, ~Drained, PutWord
  PROVE  Cells!Store
<1>1. AtChar({Put}) /\ Possible /\ {Put} \subseteq Byte
  BY DEF PutWord, Put, Byte
<1>2. PICK r \in Results : Execute(r)
  BY DEF PutWord
<1>3. Len(stk) >= Pops(kind) /\ ~Traps(kind, stk)
  BY <1>1, PossibleIs
<1>4. /\ Life = "run" /\ Cells!AtInstr({Put})
  BY <1>1, ReadsCell
<1>5. Cells!Execute(r) /\ r \in Cells!Results
  BY <1>1, <1>2, <1>3, ExecutesCell, ReadsOperands
<1>6. Life' = "run" /\ (str # 0)' = (str # 0) /\ Cell' = Cells!Step(Cell)
  BY NextCell
<1> DEFINE d == Cells!deep
<1>7. d[1] = stk[1] /\ d[2] = stk[2] /\ d[3] = stk[3]
  <2>1. kind = "p"
    BY PutOperands
  <2>2. Pops(kind) = 3
    BY <2>1 DEF Pops
  <2>3. \A i \in 1..Pops(kind) : stk[i] = d[i]
    BY <1>1, ReadsOperands
  <2> QED BY <2>2, <2>3
<1>8. mem' = IF Inside(stk[2], stk[1])
             THEN [mem EXCEPT ![[x |-> stk[2], y |-> stk[1]]] = Truncated(stk[3])]
             ELSE mem
  BY DEF PutWord, Store, StoreOutside
<1> HIDE DEF d
<1>9. mem' = IF Cells!Inside(d[2], d[1])
             THEN [mem EXCEPT ![[x |-> d[2], y |-> d[1]]] = Cells!Truncated(d[3])]
             ELSE mem
  BY <1>7, <1>8, CellsStores
<1>10. Cells!AtInstr({Cells!Put})
  BY <1>4, CellsSets
<1> QED BY <1>4, <1>5, <1>6, <1>9, <1>10 DEF Cells!Store, d

\* The targets of an instruction other than a quote do not depend on the block.
LEMMA TargetsOfCell ==
  ASSUME NEW c \in EndsBlock \ {Quote, Halt}, NEW q, NEW s, NEW a
  PROVE  Targets(c, q, s, a) = Targets(c, q, q, q)
BY DEF EndsBlock, Targets, Quote, Bridge, GoLeft, GoRight, Random, Halt, GoUp, IfHoriz, GoDown, IfVert

\* A character that sends control elsewhere.
LEMMA TurnAgrees ==
  ASSUME LInv, ~Overwritten, ~Drained, Turn
  PROVE  Cells!Turn
<1> DEFINE S == EndsBlock \ {Quote, Halt}
<1>1. AtChar(S) /\ Possible /\ S \subseteq Byte
  BY DEF Turn, EndsBlock, Byte, Quote, Bridge, GoLeft, GoRight, Random, Halt, GoUp, IfHoriz, GoDown, IfVert
<1>2. PICK r \in Results : Execute(r) /\ Leave(Way(kind, stk, r.val))
  BY DEF Turn
<1>3. Len(stk) >= Pops(kind) /\ ~Traps(kind, stk)
  BY <1>1, PossibleIs
<1>4. /\ char \in S /\ char = code.ins[ip] /\ Cells!char = char /\ Cells!kind = kind
      /\ ctl = "code" /\ fault = "none" /\ Life = "run" /\ str = 0
      /\ Cell = At(pos, ip - 1) /\ ip <= Len(code.ins)
  BY <1>1, ReadsCell DEF char
<1> HIDE DEF S
<1>5. Cells!AtInstr(S)
  BY <1>1, ReadsCell
<1>6. Cells!Execute(r) /\ r \in Cells!Results /\ Cells!Way(kind, Cells!deep, r.val) = Way(kind, stk, r.val)
  BY <1>1, <1>2, <1>3, ExecutesCell, ReadsOperands
<1>7. ip = Len(code.ins)
  <2> DEFINE n == Len(code.ins)
  <2>1. n \in Nat /\ ip \in Nat \ {0} /\ \A k \in 1..n-1 : code.ins[k] \notin EndsBlock
    BY <1>4, RunningLine
  <2>2. ip <= n /\ code.ins[ip] \in EndsBlock
    BY <1>4 DEF S
  <2> HIDE DEF n
  <2>3. ip = n
    BY <2>1, <2>2
  <2> QED BY <2>3 DEF n
<1>8. code.exits = Targets(char, Cell, Cell, Cell)
  <2>1. LastCell = Cell
    BY <1>4, <1>7 DEF LastCell
  <2>2. code.exits = Targets(char, LastCell, pos, pos)
    BY <1>4, <1>7, RunningLine DEF S
  <2> QED BY <1>4, <2>1, <2>2, TargetsOfCell DEF S
<1>9. /\ ctl' = "thunk" /\ mem' = mem /\ str' = 0 /\ fault' = "none"
      /\ pos' = code.exits[Way(kind, stk, r.val)]
  BY <1>2, <1>4 DEF Leave, Execute
<1>10. Life' = "run" /\ Cell' = pos' /\ (str # 0)' = (str # 0)
  BY <1>4, <1>9 DEF Life, Cell
<1>11. Cell' = Cells!Targets(Cells!char, Cell, Cell, Cell)[Cells!Way(Cells!kind, Cells!deep, r.val)]
  BY <1>4, <1>6, <1>8, <1>9, <1>10, CellsTargets
<1>12. Cells!AtInstr(Cells!EndsBlock \ {Cells!Quote, Cells!Halt})
  BY <1>5, CellsSets DEF S
<1> QED BY <1>4, <1>6, <1>9, <1>10, <1>11, <1>12 DEF Cells!Turn

\* Going round is no step of the language: the cell is where the line began.
LEMMA RoundStutters ==
  ASSUME LInv, GoRound
  PROVE  UNCHANGED Cells!vars
<1>1. /\ fault = "none" /\ ctl = "code" /\ str = 0 /\ ip > Len(code.ins)
      /\ ctl' = "thunk" /\ pos' = code.exits[1] /\ mem' = mem /\ UNCHANGED outside
  BY DEF GoRound, Leave
<1> DEFINE n == Len(code.ins)
<1>2. /\ pos \in CodePos /\ n \in 1..Span(pos.dir) /\ Span(pos.dir) \in Nat
      /\ code.ins[n] \notin EndsBlock => n = Span(pos.dir) /\ code.exits = << pos >>
      /\ ip \in 1..n+1
      /\ ip = n + 1 => code.ins[n] \notin EndsBlock
  BY <1>1, RunningLine DEF LInv, InLine
<1>3. n = Span(pos.dir) /\ code.exits = << pos >> /\ ip - 1 = Span(pos.dir)
  BY <1>1, <1>2
<1>4. Cell = pos /\ pos' = pos
  BY <1>1, <1>2, <1>3, FullTurn DEF Cell
<1>5. Cell' = Cell
  BY <1>1, <1>4 DEF Cell
<1>6. Life' = Life
  BY <1>1 DEF Life, outside
<1>7. BefungeStack' = BefungeStack
  BY <1>1 DEF BefungeStack, outside
<1> QED BY <1>1, <1>5, <1>6, <1>7 DEF Cells!vars, outside

\* The quotes of a string, and the characters between them.
LEMMA OpenAgrees ==
  ASSUME LInv, ~Overwritten, OpenString
  PROVE  Cells!OpenQuote
<1>1. AtChar({Quote}) /\ {Quote} \subseteq Byte
  BY DEF OpenString, Quote, Byte
<1>2. /\ Life = "run" /\ Cells!AtInstr({Quote}) /\ ctl = "code" /\ fault = "none"
      /\ Cell = At(pos, ip - 1) /\ str = 0
  BY <1>1, ReadsCell
<1>3. UNCHANGED vars /\ code' = code /\ ip = Len(code.ins)
  BY QuoteStays
<1>4. str' = 1 /\ called' = << >> /\ stk' = stk /\ cin' = cin /\ fault' = fault
  BY DEF OpenString
<1>5. mem' = mem /\ ctl' = ctl /\ pos' = pos
  BY <1>3 DEF vars, control
<1>6. LastCell' = LastCell /\ LastCell = Cell
  BY <1>2, <1>3, <1>5 DEF LastCell
<1>7. Cell' = At(Cell, 1)
  BY <1>2, <1>4, <1>5, <1>6 DEF Cell
<1>8. Cell' = Cells!Step(Cell)
  BY <1>7, CellsMoves DEF At, Step
<1>9. Life' = Life /\ (str # 0)' = TRUE
  BY <1>2, <1>4, <1>5 DEF Life
<1>10. BefungeStack' = BefungeStack
  BY <1>4 DEF BefungeStack
<1> QED BY <1>2, <1>4, <1>5, <1>8, <1>9, <1>10, CellsSets DEF Cells!OpenQuote

\* A character inside a string.
LEMMA PushAgrees ==
  ASSUME LInv, ~Overwritten, ~Drained, PushChar
  PROVE  Cells!PushChar
<1>1. /\ fault = "none" /\ ctl = "code" /\ str # 0 /\ str <= Len(code.str)
      /\ stk' = << code.str[str] >> \o stk /\ str' = str + 1
      /\ called' = << >> /\ cin' = cin /\ fault' = fault
  BY DEF PushChar, InString
<1>2. /\ UNCHANGED vars /\ code' = code /\ ip = Len(code.ins) /\ code.ins[ip] = Quote /\ str \in Nat
  BY QuoteStays
<1>3. mem' = mem /\ ctl' = ctl /\ pos' = pos
  BY <1>2 DEF vars, control
<1> DEFINE q == LastCell
           l == Len(code.str)
           v == code.str[str]
<1>4. /\ q \in CodePos /\ Span(q.dir) \in Nat /\ l \in 0..Span(q.dir)-1
      /\ \A j \in 1..l : code.str[j] # Quote
  BY <1>1, <1>2, RunningString
<1>5. str \in 1..l /\ str \in 0..Span(q.dir)-1 /\ str' # 0
  BY <1>1, <1>2, <1>4
<1>6. v = Fetch(mem, At(q, str)) /\ v # Quote
  <2>1. HasString
    <3>1. Len(code.ins) \in Nat \ {0}
      BY <1>1, RunningLine
    <3> QED BY <1>2, <3>1 DEF HasString
  <2>2. ~(str \in 1..l /\ str >= str /\ code.str[str] # Fetch(mem, At(q, str)))
    BY <1>1, <2>1 DEF Overwritten
  <2> QED BY <1>2, <1>4, <1>5, <2>2
<1>7. Cell = At(q, str) /\ Life = "run"
  BY <1>1 DEF Cell, Life
<1>8. Cells!char = v
  BY <1>6, <1>7, CellsMoves DEF Cells!char
<1>9. LastCell' = q
  BY <1>2, <1>3 DEF LastCell
<1>10. Cell' = At(LastCell', str')
  BY <1>1, <1>3, <1>5 DEF Cell
<1>11. Cell' = Cells!Step(Cell)
  <2> HIDE DEF q
  <2>1. Cell' = At(q, str + 1)
    BY <1>1, <1>2, <1>9, <1>10
  <2> QED BY <1>4, <1>5, <1>7, <2>1, StepAt, CellsMoves
<1>12. Life' = "run" /\ (str # 0)' = (str # 0)
  BY <1>1, <1>3, <1>5 DEF Life
<1>13. BefungeStack' = << v >> \o BefungeStack
  <2>1. stk \in Seq(Word) /\ Len(stk) \in Nat /\ FrameLen \in Nat /\ Len(stk) >= FrameLen
    <3>1. ~AtChar(Byte)
      BY <1>1 DEF AtChar
    <3> QED BY <3>1, StackAssumption DEF Drained, LInv, MInv, StackOK
  <2>2. << v >> \in Seq(Word)
    <3>1. code.str \in Seq(Byte)
      BY <1>1, BlockType DEF LInv, MInv
    <3>2. v \in Byte
      BY <1>5, <3>1, ElementOfSeq
    <3> QED BY <3>2, WordFacts
  <2> DEFINE p == << v >>
  <2> HIDE DEF p
  <2>3. p \in Seq(Word) /\ 0 + FrameLen <= Len(stk)
    BY <2>1, <2>2 DEF p
  <2>4. Above(p \o Under(stk, 0), FrameLen) = p \o Under(Above(stk, FrameLen), 0)
    BY <2>1, <2>3, OnTop
  <2>5. Under(stk, 0) = stk
    BY <2>1, SubSeqFull DEF Under
  <2>6. Under(Above(stk, FrameLen), 0) = Above(stk, FrameLen)
    <3> DEFINE b == Above(stk, FrameLen)
    <3>1. b \in Seq(Word)
      <4>1. 0 \in 0..3 /\ Len(stk) >= FrameLen + 0
        BY <2>1
      <4>2. BefungeStack \in Seq(Word)
        BY <4>1, Operands
      <4> QED BY <4>2 DEF BefungeStack, Above
    <3> HIDE DEF b
    <3>2. SubSeq(b, 1, Len(b)) = b
      BY <3>1, SubSeqFull
    <3> QED BY <3>2 DEF Under, b
  <2>7. BefungeStack = Above(stk, FrameLen) /\ BefungeStack' = Above(stk', FrameLen)
    BY DEF BefungeStack, Above
  <2>8. stk' = p \o stk
    BY <1>1 DEF p
  <2> QED BY <2>4, <2>5, <2>6, <2>7, <2>8 DEF p
<1> HIDE DEF v
<1>14. Cells!char # Cells!Quote
  BY <1>6, <1>8, CellsSets
<1> QED BY <1>1, <1>3, <1>7, <1>8, <1>11, <1>12, <1>13, <1>14 DEF Cells!PushChar

\* The quote that closes a string.
LEMMA CloseAgrees ==
  ASSUME LInv, ~Overwritten, ~Unterminated, CloseString
  PROVE  Cells!CloseQuote
<1>1. /\ fault = "none" /\ ctl = "code" /\ str # 0 /\ str > Len(code.str) /\ InString
      /\ ctl' = "thunk" /\ pos' = code.exits[1] /\ mem' = mem
      /\ str' = 0 /\ called' = << >> /\ stk' = stk /\ cin' = cin /\ fault' = fault
  BY DEF CloseString, InString, Leave
<1>2. ip = Len(code.ins) /\ code.ins[ip] = Quote /\ str \in 1..Len(code.str)+1
  BY <1>1 DEF LInv, InQuotes
<1>3. IsClosed
  BY <1>1 DEF Unterminated
<1>4. /\ code.exits[1] = Step(StringEnd) /\ Len(code.str) \in Nat /\ Len(code.ins) \in Nat \ {0}
  BY <1>1, <1>2, <1>3, RunningString, RunningLine
<1>5. HasString
  BY <1>2, <1>4 DEF HasString
<1>6. Fetch(mem, StringEnd) = Quote
  BY <1>1, <1>3, <1>5 DEF Overwritten
<1>7. Cell = StringEnd
  <2>1. str = Len(code.str) + 1
    BY <1>1, <1>2, <1>4
  <2> QED BY <1>1, <2>1 DEF Cell, StringEnd
<1>8. Cells!char = Cells!Quote
  BY <1>6, <1>7, CellsMoves, CellsSets DEF Cells!char
<1>9. Cell' = Cells!Step(Cell)
  BY <1>1, <1>4, <1>7, CellsMoves DEF Cell
<1>10. Life = "run" /\ Life' = "run" /\ (str # 0)' = FALSE
  BY <1>1 DEF Life
<1>11. BefungeStack' = BefungeStack
  BY <1>1 DEF BefungeStack
<1> QED BY <1>1, <1>8, <1>9, <1>10, <1>11 DEF Cells!CloseQuote

\* Neither the compiler nor a thunk is part of the language.
LEMMA JitStutters ==
  ASSUME LInv, (\E a \in Addr : Resolve(a)) \/ Enter
  PROVE  UNCHANGED Cells!vars
<1>1. UNCHANGED outside /\ fault = "none"
  BY DEF Resolve, Enter
<1>2. CASE \E a \in Addr : Resolve(a)
  <2>1. ctl = "thunk" /\ ctl' = "thunk" /\ pos' = pos /\ mem' = mem
    BY <1>2 DEF Resolve, ResolveThunk, control
  <2>2. Cell' = Cell /\ Life' = Life /\ BefungeStack' = BefungeStack
    BY <1>1, <2>1 DEF Cell, Life, BefungeStack, outside
  <2> QED BY <1>1, <2>1, <2>2 DEF Cells!vars, outside
<1>3. CASE Enter
  <2>1. ctl = "thunk" /\ ctl' = "code" /\ pos' = pos /\ pos \in CodePos /\ mem' = mem /\ ip' = 1 /\ str' = 0
    BY <1>3, EnteredBlock DEF Enter, EnterBlock
  <2>2. Cell' = pos /\ Cell = pos
    <3>1. Cell' = At(pos, 1 - 1)
      BY <2>1 DEF Cell
    <3>2. At(pos, 0) = pos
      BY <2>1, FullTurn
    <3> QED BY <2>1, <3>1, <3>2 DEF Cell
  <2>3. Life' = Life /\ BefungeStack' = BefungeStack
    BY <1>1, <2>1 DEF Life, BefungeStack, outside
  <2> QED BY <1>1, <2>1, <2>2, <2>3 DEF Cells!vars, outside
<1> QED BY <1>2, <1>3

\* The ways a program ends.
LEMMA ExitAgrees ==
  ASSUME LInv, ~Overwritten, Exit
  PROVE  Cells!Exit
<1>1. AtChar({Halt}) /\ {Halt} \subseteq Byte /\ UNCHANGED outside
  BY DEF Exit, Halt, Byte
<1>2. Life = "run" /\ Cells!AtInstr({Halt}) /\ pos \in CodePos /\ fault = "none"
  BY <1>1, ReadsCell
<1>3. ctl' = "exit" /\ pos' = pos /\ mem' = mem
  BY DEF Exit, Stop
<1>4. Life' = "exit" /\ Cell' = pos
  BY <1>1, <1>2, <1>3 DEF Life, Cell, outside
<1>5. BefungeStack' = BefungeStack
  BY <1>1 DEF BefungeStack, outside
<1> QED BY <1>1, <1>2, <1>3, <1>4, <1>5, CellsSets DEF Cells!Exit, outside

\* A division by zero.
LEMMA TrapAgrees ==
  ASSUME LInv, ~Overwritten, ~Drained, FloatingPointException
  PROVE  Cells!Trap
<1>1. AtChar(Byte) /\ Traps(kind, stk) /\ fault' = "SIGFPE" /\ UNCHANGED <<vars, stk, str, called, cin>>
  BY DEF FloatingPointException
<1>2. Cells!AtInstr(Byte) /\ Cells!kind = kind
  BY <1>1, ReadsCell
<1>3. Cells!Traps(kind, Cells!deep)
  BY <1>1, ReadsOperands
<1>4. code' = code /\ ctl' = ctl /\ pos' = pos /\ ip' = ip /\ mem' = mem
  BY <1>1 DEF vars, managed, control, code
<1>5. LastCell' = LastCell
  BY <1>4 DEF LastCell
<1>6. Life' = "trap" /\ Cell' = Cell /\ BefungeStack' = BefungeStack
  BY <1>1, <1>4, <1>5 DEF Life, Cell, BefungeStack
<1> QED BY <1>1, <1>2, <1>3, <1>4, <1>6, CellsSets DEF Cells!Trap

\* The stack runs out of its room.
LEMMA FaultAgrees ==
  ASSUME SegmentationFault
  PROVE  Cells!GiveUp
<1>1. /\ ctl = "code" /\ fault = "none" /\ fault' = "SIGSEGV"
      /\ UNCHANGED <<vars, stk, str, called, cin>>
  BY DEF SegmentationFault, AtChar, AtInstr, InString
<1>2. code' = code /\ ctl' = ctl /\ pos' = pos /\ ip' = ip /\ mem' = mem
  BY <1>1 DEF vars, managed, control, code
<1>3. LastCell' = LastCell
  BY <1>2 DEF LastCell
<1>4. Life = "run" /\ Life' = "abort" /\ Cell' = Cell /\ BefungeStack' = BefungeStack
  BY <1>1, <1>2, <1>3 DEF Life, Cell, BefungeStack
<1> QED BY <1>1, <1>2, <1>4 DEF Cells!GiveUp

\* Code memory runs out.
LEMMA AbortAgrees ==
  ASSUME OutOfMemory
  PROVE  Cells!GiveUp
<1>1. /\ ctl = "thunk" /\ fault = "none" /\ ctl' = "abort" /\ pos' = pos /\ mem' = mem
      /\ UNCHANGED outside
  BY DEF OutOfMemory, OutOfCodeMemory
<1>2. Life = "run" /\ Life' = "abort" /\ Cell' = Cell /\ BefungeStack' = BefungeStack
  BY <1>1 DEF Life, Cell, BefungeStack, outside
<1> QED BY <1>1, <1>2 DEF Cells!GiveUp, outside

\* Nothing happens.
LEMMA GoneStutters ==
  ASSUME UNCHANGED allvars
  PROVE  UNCHANGED Cells!vars
<1>1. /\ code' = code /\ ctl' = ctl /\ pos' = pos /\ ip' = ip /\ mem' = mem
      /\ UNCHANGED outside
  BY DEF allvars, vars, managed, control, code
<1>2. LastCell' = LastCell
  BY <1>1 DEF LastCell
<1>3. Life' = Life /\ Cell' = Cell /\ BefungeStack' = BefungeStack
  BY <1>1, <1>2 DEF Life, Cell, BefungeStack, outside
<1> QED BY <1>1, <1>3 DEF Cells!vars, outside

\* The reserve is a stack of zeros.
LEMMA StartAgrees == MachineInit => Cells!Init
<1> SUFFICES ASSUME MachineInit PROVE Cells!Init
  OBVIOUS
<1>1. /\ mem \in Programs /\ ctl = "thunk" /\ pos = Start /\ str = 0 /\ called = << >> /\ fault = "none"
      /\ cin \in {[rest |-> i, failed |-> FALSE] : i \in Inputs}
  BY DEF MachineInit, Init
<1>2. Life = "run" /\ Cell = Cells!Start
  BY <1>1, CellsSets DEF Life, Cell
<1>3. PICK f \in [1..FrameLen -> FrameWords] : stk = Buf \o f
  BY DEF MachineInit
<1>4. BefungeStack \in Seq({0})
  <2>1. Reserve \in Nat /\ FrameLen \in Nat
    BY StackAssumption
  <2>2. f \in Seq(Word) /\ Len(f) = FrameLen
    BY <2>1, StackAssumption
  <2> DEFINE b == Buf
             n == Reserve
             t == b \o f
  <2>3. b \in Seq(Word) /\ Len(b) = n /\ \A i \in 1..n : b[i] = 0
    BY <2>1, WordFacts DEF Buf
  <2> HIDE DEF b
  <2>4. Len(t) = n + FrameLen /\ \A i \in 1..n : t[i] = b[i]
    <3>1. Len(b \o f) = Len(b) + Len(f)
      BY <2>2, <2>3, ConcatProperties
    <3>2. ASSUME NEW i \in 1..n PROVE (b \o f)[i] = b[i]
      <4>1. i \in 1..Len(b)+Len(f) /\ i <= Len(b)
        BY <2>1, <2>2, <2>3
      <4> QED BY <2>2, <2>3, <4>1, ConcatProperties
    <3> QED BY <2>2, <2>3, <3>1, <3>2
  <2> HIDE DEF t
  <2>5. BefungeStack = SubSeq(t, 1, n)
    <3>1. Len(t) - FrameLen = n
      BY <2>1, <2>4
    <3> QED BY <1>3, <3>1 DEF BefungeStack, t, b
  <2>6. \A i \in 1..n : t[i] \in {0}
    BY <2>3, <2>4
  <2>7. SubSeq(t, 1, n) \in Seq({0})
    BY <2>1, <2>6, SubSeqProperties
  <2> QED BY <2>5, <2>7
<1> QED BY <1>1, <1>2, <1>4 DEF Cells!Init

-----------------------------------------------------------------------------
(***************************************************************************)
(* befunjit runs Befunge: but for the three exceptions, every step of the  *)
(* machine is a step of the language or none, for every playfield, input   *)
(* and size of the stack and of code memory.                               *)
(***************************************************************************)
THEOREM RunsBefunge == MachineSpec => AgreesWithCells
<1> DEFINE A == ~Overwritten /\ ~Unterminated /\ ~Drained => Cells!Next
<1>1. LInv /\ [MachineNext]_allvars => A \/ UNCHANGED Cells!vars
  <2> SUFFICES ASSUME LInv, [MachineNext]_allvars, ~Overwritten, ~Unterminated, ~Drained
               PROVE  Cells!Next \/ UNCHANGED Cells!vars
    OBVIOUS
  <2>1. CASE (\E a \in Addr : Resolve(a)) \/ Enter
    BY <2>1, JitStutters
  <2>2. CASE OutOfMemory
    BY <2>2, AbortAgrees DEF Cells!Next
  <2>3. CASE Compute
    BY <2>3, ComputeAgrees DEF Cells!Next
  <2>4. CASE PutWord
    BY <2>4, PutAgrees DEF Cells!Next
  <2>5. CASE Turn
    BY <2>5, TurnAgrees DEF Cells!Next
  <2>6. CASE GoRound
    BY <2>6, RoundStutters
  <2>7. CASE OpenString
    BY <2>7, OpenAgrees DEF Cells!Next
  <2>8. CASE PushChar
    BY <2>8, PushAgrees DEF Cells!Next
  <2>9. CASE CloseString
    BY <2>9, CloseAgrees DEF Cells!Next
  <2>10. CASE Exit
    BY <2>10, ExitAgrees DEF Cells!Next
  <2>11. CASE FloatingPointException
    BY <2>11, TrapAgrees DEF Cells!Next
  <2>12. CASE SegmentationFault
    BY <2>12, FaultAgrees DEF Cells!Next
  <2>13. CASE Gone \/ UNCHANGED allvars
    BY <2>13, GoneStutters DEF Gone
  <2> QED BY <2>1, <2>2, <2>3, <2>4, <2>5, <2>6, <2>7, <2>8, <2>9, <2>10, <2>11, <2>12, <2>13
          DEF MachineNext
<1>2. MachineSpec => [][A]_(Cells!vars)
  <2> HIDE DEF A
  <2>1. LInv /\ [MachineNext]_allvars => [A]_(Cells!vars)
    BY <1>1
  <2> QED BY <2>1, LineInvariance, PTL DEF MachineSpec
<1>3. MachineSpec => Cells!Init
  BY StartAgrees, PTL DEF MachineSpec
<1> QED BY <1>2, <1>3 DEF AgreesWithCells
=============================================================================
