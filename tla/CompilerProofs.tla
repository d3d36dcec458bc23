---------------------------- MODULE CompilerProofs ----------------------------
(***************************************************************************)
(* The two nested loops of poc_compiler return what module Block defines,  *)
(* for every size of the playfield, every playfield and every start.       *)
(***************************************************************************)
EXTENDS CodeSize, BlockProofs

-----------------------------------------------------------------------------
(***************************************************************************)
(* The loop invariants.  In the outer loop, the cells before cur are       *)
(* compiled and none of them ends the block.  In the inner loop, the       *)
(* instructions are complete and end with a quote; the cells between the   *)
(* quote and scan are pushed and none of them ends the scan.               *)
(***************************************************************************)
Line(m, s, n) == [k \in 1..n |-> Fetch(m, At(s, k-1))]

LineCells(s, n) == {to_coord(At(s, i)) : i \in 0..n-1}

Chars(m, q, n) == [j \in 1..n |-> Fetch(m, At(q, j))]

CharCells(q, n) == {to_coord(At(q, j)) : j \in 1..n}

WalkInv ==
  phase = "walk" =>
    /\ Len(ins) \in 0..Span(start.dir)-1
    /\ cur = At(start, Len(ins))
    /\ \A j \in 0..Len(ins)-1 : ~Stops(mem, start, j)
    /\ ins = Line(mem, start, Len(ins))
    /\ deps = LineCells(start, Len(ins))
    /\ str = << >>

ScanInv ==
  phase = "scan" =>
    /\ IsString(mem, start) /\ cur = Final(mem, start)
    /\ ins = Line(mem, start, Length(mem, start))
    /\ Len(str) \in 0..Span(start.dir)-1
    /\ scan = At(cur, Len(str) + 1)
    /\ \A j \in 1..Len(str) : ~ScanStops(mem, start, cur, j)
    /\ str = Chars(mem, cur, Len(str))
    /\ deps = LineCells(start, Length(mem, start)) \cup CharCells(cur, Len(str))

LoopInv == TypeOK /\ WalkInv /\ ScanInv /\ ReturnsCompile /\ RegistersDeps

-----------------------------------------------------------------------------
\* Appending the next character keeps the sequence of form Line or Chars.
LEMMA LineAppend ==
  ASSUME NEW m, NEW s, NEW n \in Nat
  PROVE  Append(Line(m, s, n), Fetch(m, At(s, n))) = Line(m, s, n + 1)
<1>1. /\ Len(Line(m, s, n)) = n
      /\ \A k \in 1..n : Line(m, s, n)[k] = Fetch(m, At(s, k-1))
  BY DEF Line
<1>2. (n + 1) - 1 = n
  OBVIOUS
<1>3. Append(Line(m, s, n), Fetch(m, At(s, n))) =
        [k \in 1..n+1 |-> IF k = n + 1 THEN Fetch(m, At(s, n)) ELSE Line(m, s, n)[k]]
  BY <1>1 DEF Line
<1>4. ASSUME NEW k \in 1..n+1
      PROVE  (IF k = n + 1 THEN Fetch(m, At(s, n)) ELSE Line(m, s, n)[k]) = Fetch(m, At(s, k-1))
  BY <1>1, <1>2
<1> QED BY <1>3, <1>4 DEF Line

\* The same for the characters of a string.
LEMMA CharsAppend ==
  ASSUME NEW m, NEW q, NEW n \in Nat
  PROVE  Append(Chars(m, q, n), Fetch(m, At(q, n + 1))) = Chars(m, q, n + 1)
<1>1. /\ Len(Chars(m, q, n)) = n
      /\ \A k \in 1..n : Chars(m, q, n)[k] = Fetch(m, At(q, k))
  BY DEF Chars
<1>2. Append(Chars(m, q, n), Fetch(m, At(q, n + 1))) =
        [k \in 1..n+1 |-> IF k = n + 1 THEN Fetch(m, At(q, n + 1)) ELSE Chars(m, q, n)[k]]
  BY <1>1 DEF Chars
<1>3. ASSUME NEW k \in 1..n+1
      PROVE  (IF k = n + 1 THEN Fetch(m, At(q, n + 1)) ELSE Chars(m, q, n)[k]) = Fetch(m, At(q, k))
  BY <1>1
<1> QED BY <1>2, <1>3 DEF Chars

\* One cell more.
LEMMA CellsGrow ==
  ASSUME NEW s, NEW n \in Nat
  PROVE  /\ LineCells(s, n + 1) = LineCells(s, n) \cup {to_coord(At(s, n))}
         /\ CharCells(s, n + 1) = CharCells(s, n) \cup {to_coord(At(s, n + 1))}
<1>1. /\ 0..(n + 1)-1 = (0..n-1) \cup {n}
      /\ 1..n+1 = (1..n) \cup {n + 1}
  OBVIOUS
<1> QED BY <1>1 DEF LineCells, CharCells

\* The dependencies of a block, in terms of the cells the loops have visited.
LEMMA DepsAre ==
  ASSUME NEW m, NEW s
  PROVE  Deps(m, s) = LineCells(s, Length(m, s))
                      \cup (IF IsString(m, s)
                            THEN CharCells(Final(m, s), ScanEnd(m, s, Final(m, s))) ELSE {})
BY DEF Deps, LineCells, CharCells

-----------------------------------------------------------------------------
\* The invariant holds when poc_compiler is called.
LEMMA InitLoopInv == Init => LoopInv
<1> SUFFICES ASSUME Init PROVE LoopInv
  OBVIOUS
<1>1. TypeOK
  BY ProgramsAssumption DEF Init, TypeOK
<1>2. WalkInv
  <2>1. start \in CodePos /\ ins = << >> /\ Len(ins) = 0 /\ str = << >> /\ deps = {} /\ cur = start
    BY DEF Init
  <2>2. Span(start.dir) \in Nat /\ Span(start.dir) >= 2
    BY <2>1, SpanType, DirOf
  <2>3. At(start, 0) = start
    BY <2>1, FullTurn
  <2>4. Line(mem, start, 0) = << >> /\ LineCells(start, 0) = {}
    BY DEF Line, LineCells
  <2> QED BY <2>1, <2>2, <2>3, <2>4 DEF WalkInv
<1>3. ScanInv /\ ReturnsCompile /\ RegistersDeps
  BY DEF Init, ScanInv, ReturnsCompile, RegistersDeps
<1> QED BY <1>1, <1>2, <1>3 DEF LoopInv

\* What an iteration of the outer loop has done when it reaches the switch.
LEMMA VisitEffect ==
  ASSUME LoopInv, NEW S, Visit(S), mem' = mem, start' = start
  PROVE  LET i == Len(ins)
         IN  /\ i \in Nat /\ i + 1 \in 1..Span(start.dir) /\ i \in 0..Span(start.dir)-1
             /\ cur = At(start, i) /\ cur \in CodePos /\ cur.dir = start.dir
             /\ ins' = Line(mem, start, i + 1) /\ Len(ins') = i + 1
             /\ ins' \in Seq(Byte)
             /\ deps' = LineCells(start, i + 1) /\ deps' \in SUBSET Coord
             /\ Fetch(mem, cur) \in S /\ Fetch(mem, cur) \in Byte
             /\ \A j \in 0..i-1 : ~Stops(mem, start, j)
             /\ str = << >>
<1> DEFINE i == Len(ins)
<1>1. /\ TypeOK /\ start \in CodePos /\ cur \in CodePos /\ mem \in Memory /\ phase = "walk"
      /\ WalkInv /\ ins \in Seq(Byte) /\ deps \in SUBSET Coord
  BY DEF LoopInv, TypeOK, Visit
<1>2. Span(start.dir) \in Nat /\ Span(start.dir) >= 2
  BY <1>1, SpanType, DirOf
<1>3. /\ i \in 0..Span(start.dir)-1 /\ cur = At(start, i)
      /\ \A j \in 0..i-1 : ~Stops(mem, start, j)
      /\ ins = Line(mem, start, i) /\ deps = LineCells(start, i) /\ str = << >>
  BY <1>1 DEF WalkInv
<1>4. i \in Nat /\ i + 1 \in 1..Span(start.dir) /\ i \in 0..Span(start.dir)
  BY <1>2, <1>3
<1>5. /\ ins' = Append(ins, Fetch(mem, cur)) /\ deps' = deps \cup {to_coord(cur)}
      /\ Fetch(mem, cur) \in S
  BY DEF Visit
<1>6. Fetch(mem, cur) \in Byte /\ to_coord(cur) \in Coord
  BY <1>1, FetchType, ToCoordType
<1>7. ins' \in Seq(Byte) /\ Len(ins') = i + 1
  BY <1>1, <1>5, <1>6
<1>8. cur.dir = start.dir
  BY <1>1, <1>3, <1>4, AtType
<1> HIDE DEF i
<1>9. ins' = Line(mem, start, i + 1)
  BY <1>3, <1>4, <1>5, LineAppend
<1>10. deps' = LineCells(start, i + 1)
  BY <1>3, <1>4, <1>5, CellsGrow
<1> QED BY <1>1, <1>3, <1>4, <1>5, <1>6, <1>7, <1>8, <1>9, <1>10 DEF i

\* The outer loop stops here: at an instruction that ends a block, or after a turn.
LEMMA WalkEnds ==
  ASSUME NEW m, NEW s \in CodePos, NEW i \in 0..Span(s.dir)-1,
         \A j \in 0..i-1 : ~Stops(m, s, j)
  PROVE  /\ Fetch(m, At(s, i)) \in EndsBlock =>
              ~Wraps(m, s) /\ Length(m, s) = i + 1 /\ Final(m, s) = At(s, i)
         /\ Fetch(m, At(s, i)) \notin EndsBlock => \A j \in 0..i : ~Stops(m, s, j)
         /\ Fetch(m, At(s, i)) \notin EndsBlock /\ i + 1 = Span(s.dir) =>
              Wraps(m, s) /\ Length(m, s) = i + 1
<1>1. Span(s.dir) \in Nat /\ Span(s.dir) >= 2 /\ i \in 0..Span(s.dir) /\ i # Span(s.dir)
      /\ i \in Nat /\ (i + 1) - 1 = i
  BY SpanType, DirOf
<1>2. ASSUME Fetch(m, At(s, i)) \in EndsBlock
      PROVE  ~Wraps(m, s) /\ Length(m, s) = i + 1 /\ Final(m, s) = At(s, i)
  <2>1. Stops(m, s, i)
    BY <1>2 DEF Stops
  <2>2. StopAt(m, s) = i
    BY <1>1, <2>1, StopAtUnique
  <2> QED BY <1>1, <2>2 DEF Wraps, Length, Final
<1>3. ASSUME Fetch(m, At(s, i)) \notin EndsBlock
      PROVE  \A j \in 0..i : ~Stops(m, s, j)
  <2>1. ~Stops(m, s, i)
    BY <1>1, <1>3 DEF Stops
  <2>2. \A j \in 0..i : j \in 0..i-1 \/ j = i
    BY <1>1
  <2> QED BY <2>1, <2>2
<1>4. ASSUME Fetch(m, At(s, i)) \notin EndsBlock, i + 1 = Span(s.dir)
      PROVE  Wraps(m, s) /\ Length(m, s) = i + 1
  <2>1. \A j \in 0..Span(s.dir)-1 : ~Stops(m, s, j)
    BY <1>1, <1>3, <1>4
  <2>2. Stops(m, s, Span(s.dir)) /\ Span(s.dir) \in 0..Span(s.dir)
    BY <1>1 DEF Stops
  <2>3. StopAt(m, s) = Span(s.dir)
    BY <2>1, <2>2, StopAtUnique
  <2> QED BY <1>4, <2>3 DEF Wraps, Length
<1> QED BY <1>2, <1>3, <1>4
-----------------------------------------------------------------------------
(* One step per action. *)

\* An instruction of the outer loop.
LEMMA EmitLoopInv ==
  ASSUME LoopInv, Emit
  PROVE  LoopInv'
<1> DEFINE i == Len(ins)
           L == Span(start.dir)
<1>1. /\ Visit(Byte \ EndsBlock) /\ cur' = Step(cur)
      /\ UNCHANGED <<mem, start, scan, str>>
      /\ phase = "walk" /\ TypeOK /\ start \in CodePos /\ mem \in Memory
      /\ scan \in CodePos /\ exits \in Seq(CodePos)
  BY DEF Emit, Visit, LoopInv, TypeOK
<1>2. /\ i \in Nat /\ i + 1 \in 1..L /\ i \in 0..L-1
      /\ cur = At(start, i) /\ cur \in CodePos /\ cur.dir = start.dir
      /\ ins' = Line(mem, start, i + 1) /\ Len(ins') = i + 1
      /\ ins' \in Seq(Byte)
      /\ deps' = LineCells(start, i + 1) /\ deps' \in SUBSET Coord
      /\ Fetch(mem, cur) \in Byte \ EndsBlock
      /\ \A j \in 0..i-1 : ~Stops(mem, start, j)
      /\ str = << >>
  BY <1>1, VisitEffect
<1>3. L \in Nat /\ L >= 2
  BY <1>1, SpanType, DirOf
<1> HIDE DEF i, L
<1>4. cur' = At(start, i + 1) /\ cur' \in CodePos
  BY <1>1, <1>2, StepAt, StepType DEF L
<1>5. to_coord(cur') = to_coord(start) <=> i + 1 = L
  BY <1>1, <1>2, <1>4, OnlyFullTurn DEF L
<1>6. \A j \in 0..i : ~Stops(mem, start, j)
  BY <1>1, <1>2, WalkEnds DEF L
<1>7. CASE i + 1 = L
  <2>1. phase' = "done" /\ exits' = << start >>
    BY <1>5, <1>7 DEF Emit
  <2>2. Wraps(mem, start) /\ Length(mem, start) = i + 1
    BY <1>1, <1>2, <1>7, WalkEnds DEF L
  <2>3. ~IsString(mem, start) /\ Fetch(mem, Final(mem, start)) \notin EndsBlock
    BY <1>1, <2>2, WrapsNoEnd DEF IsString
  <2>4. Targets(Fetch(mem, Final(mem, start)), Final(mem, start), start,
                AfterString(mem, start, Final(mem, start))) = << start >>
    BY <2>3 DEF Targets, EndsBlock
  <2>5. ReturnsCompile'
    <3>1. Compile(mem, start) = [ins |-> ins', str |-> << >>, exits |-> << start >>]
      BY <1>2, <2>2, <2>3, <2>4 DEF Compile, Line
    <3> QED BY <1>1, <1>2, <2>1, <3>1 DEF ReturnsCompile
  <2>6. RegistersDeps'
    BY <1>1, <1>2, <2>2, <2>3, DepsAre DEF RegistersDeps
  <2>7. TypeOK'
    BY <1>1, <1>2, <1>4, <2>1 DEF TypeOK
  <2>8. WalkInv' /\ ScanInv'
    BY <2>1 DEF WalkInv, ScanInv
  <2> QED BY <2>5, <2>6, <2>7, <2>8 DEF LoopInv
<1>8. CASE i + 1 # L
  <2>1. phase' = "walk" /\ exits' = exits
    BY <1>1, <1>5, <1>8 DEF Emit
  <2>2. TypeOK'
    BY <1>1, <1>2, <1>4, <2>1 DEF TypeOK
  <2>3. i + 1 \in 0..L-1 /\ (i + 1) - 1 = i
    BY <1>2, <1>3, <1>8
  <2>4. WalkInv'
    BY <1>1, <1>2, <1>4, <1>6, <2>1, <2>3 DEF WalkInv, L
  <2>5. ScanInv' /\ ReturnsCompile' /\ RegistersDeps'
    BY <2>1 DEF ScanInv, ReturnsCompile, RegistersDeps
  <2> QED BY <2>2, <2>4, <2>5 DEF LoopInv
<1> QED BY <1>7, <1>8

\* An instruction that ends the block.
LEMMA EmitJumpLoopInv ==
  ASSUME LoopInv, EmitJump
  PROVE  LoopInv'
<1> DEFINE i == Len(ins)
<1>1. /\ Visit(EndsBlock \ {Quote}) /\ phase' = "done"
      /\ exits' = Targets(Fetch(mem, cur), cur, start, start)
      /\ UNCHANGED <<mem, start, cur, scan, str>>
      /\ start \in CodePos /\ mem \in Memory /\ cur \in CodePos /\ scan \in CodePos
  BY DEF EmitJump, LoopInv, TypeOK
<1>2. /\ i \in Nat /\ i \in 0..Span(start.dir)-1
      /\ cur = At(start, i)
      /\ ins' = Line(mem, start, i + 1) /\ ins' \in Seq(Byte)
      /\ deps' = LineCells(start, i + 1) /\ deps' \in SUBSET Coord
      /\ Fetch(mem, cur) \in EndsBlock \ {Quote}
      /\ \A j \in 0..i-1 : ~Stops(mem, start, j)
      /\ str = << >>
  BY <1>1, VisitEffect
<1> HIDE DEF i
<1>3. ~Wraps(mem, start) /\ Length(mem, start) = i + 1 /\ Final(mem, start) = cur
  BY <1>1, <1>2, WalkEnds
<1>4. ~IsString(mem, start)
  BY <1>2, <1>3 DEF IsString
<1>5. Targets(Fetch(mem, cur), cur, start, AfterString(mem, start, cur)) = exits'
  BY <1>1, <1>2 DEF Targets
<1>6. ReturnsCompile'
  <2>1. Compile(mem, start) = [ins |-> ins', str |-> << >>, exits |-> exits']
    BY <1>2, <1>3, <1>4, <1>5 DEF Compile, Line
  <2> QED BY <1>1, <1>2, <2>1 DEF ReturnsCompile
<1>7. RegistersDeps'
  BY <1>1, <1>2, <1>3, <1>4, DepsAre DEF RegistersDeps
<1>8. exits' \in Seq(CodePos)
  BY <1>1, TargetsType
<1>9. TypeOK'
  BY <1>1, <1>2, <1>8 DEF TypeOK
<1>10. WalkInv' /\ ScanInv'
  BY <1>1 DEF WalkInv, ScanInv
<1> QED BY <1>6, <1>7, <1>9, <1>10 DEF LoopInv

\* A quote: the outer loop hands over to the scan.
LEMMA OpenStringLoopInv ==
  ASSUME LoopInv, OpenString
  PROVE  LoopInv'
<1> DEFINE i == Len(ins)
<1>1. /\ Visit({Quote}) /\ phase' = "scan" /\ scan' = Step(cur)
      /\ UNCHANGED <<mem, start, cur, str, exits>>
      /\ start \in CodePos /\ mem \in Memory /\ cur \in CodePos /\ exits \in Seq(CodePos)
  BY DEF OpenString, LoopInv, TypeOK
<1>2. /\ i \in Nat /\ i \in 0..Span(start.dir)-1
      /\ cur = At(start, i) /\ cur.dir = start.dir
      /\ ins' = Line(mem, start, i + 1) /\ ins' \in Seq(Byte)
      /\ deps' = LineCells(start, i + 1) /\ deps' \in SUBSET Coord
      /\ Fetch(mem, cur) = Quote
      /\ \A j \in 0..i-1 : ~Stops(mem, start, j)
      /\ str = << >>
  BY <1>1, VisitEffect
<1> HIDE DEF i
<1>3. ~Wraps(mem, start) /\ Length(mem, start) = i + 1 /\ Final(mem, start) = cur
  BY <1>1, <1>2, WalkEnds DEF EndsBlock
<1>4. IsString(mem, start)
  BY <1>2, <1>3 DEF IsString
<1>5. Span(start.dir) \in Nat /\ Span(start.dir) >= 2
  BY <1>1, SpanType, DirOf
<1>6. scan' = At(cur, 1) /\ scan' \in CodePos
  BY <1>1, StepType DEF Step, At
<1>7. Chars(mem, cur, 0) = << >> /\ CharCells(cur, 0) = {} /\ Len(<< >>) = 0
  BY DEF Chars, CharCells
<1>8. ScanInv'
  BY <1>1, <1>2, <1>3, <1>4, <1>5, <1>6, <1>7 DEF ScanInv
<1>9. TypeOK'
  BY <1>1, <1>2, <1>6 DEF TypeOK, LoopInv
<1>10. WalkInv' /\ ReturnsCompile' /\ RegistersDeps'
  BY <1>1 DEF WalkInv, ReturnsCompile, RegistersDeps
<1> QED BY <1>8, <1>9, <1>10 DEF LoopInv

\* The state of the inner loop.
LEMMA ScanState ==
  ASSUME LoopInv, phase = "scan"
  PROVE  LET j == Len(str)
         IN  /\ IsString(mem, start) /\ cur = Final(mem, start)
             /\ cur \in CodePos /\ cur.dir = start.dir /\ Fetch(mem, cur) = Quote
             /\ ins = Line(mem, start, Length(mem, start))
             /\ j \in Nat /\ j + 1 \in 1..Span(start.dir)
             /\ scan = At(cur, j + 1) /\ scan \in CodePos
             /\ \A k \in 1..j : ~ScanStops(mem, start, cur, k)
             /\ str = Chars(mem, cur, j)
             /\ deps = LineCells(start, Length(mem, start)) \cup CharCells(cur, j)
             /\ start \in CodePos /\ mem \in Memory /\ Span(start.dir) \in Nat
<1> DEFINE j == Len(str)
<1>1. /\ start \in CodePos /\ mem \in Memory /\ scan \in CodePos /\ cur \in CodePos
      /\ ScanInv /\ str \in Seq(Byte)
  BY DEF LoopInv, TypeOK
<1>2. Span(start.dir) \in Nat /\ Span(start.dir) >= 2
  BY <1>1, SpanType, DirOf
<1>3. /\ IsString(mem, start) /\ cur = Final(mem, start)
      /\ ins = Line(mem, start, Length(mem, start))
      /\ j \in 0..Span(start.dir)-1
      /\ scan = At(cur, j + 1)
      /\ \A k \in 1..j : ~ScanStops(mem, start, cur, k)
      /\ str = Chars(mem, cur, j)
      /\ deps = LineCells(start, Length(mem, start)) \cup CharCells(cur, j)
  BY <1>1 DEF ScanInv
<1> HIDE DEF j
<1>4. j \in Nat /\ j + 1 \in 1..Span(start.dir)
  BY <1>2, <1>3
<1>5. cur.dir = start.dir /\ Fetch(mem, cur) = Quote
  BY <1>1, <1>3, StringScan
<1> QED BY <1>1, <1>2, <1>3, <1>4, <1>5 DEF j

\* When the scan ends at character n, the block is complete.
LEMMA ScanReturns ==
  ASSUME NEW m, NEW s \in CodePos, IsString(m, s), NEW n \in 1..Span(s.dir),
         ScanStops(m, s, Final(m, s), n),
         \A k \in 1..n-1 : ~ScanStops(m, s, Final(m, s), k)
  PROVE  LET q == Final(m, s)
             closed == Fetch(m, At(q, n)) = Quote
         IN  /\ Compile(m, s) =
                  [ins   |-> Line(m, s, Length(m, s)),
                   str   |-> Chars(m, q, IF closed THEN n - 1 ELSE n),
                   exits |-> << IF closed THEN Step(At(q, n)) ELSE s >>]
             /\ Deps(m, s) = LineCells(s, Length(m, s)) \cup CharCells(q, n)
<1> DEFINE q == Final(m, s)
<1>1. q \in CodePos /\ q.dir = s.dir /\ Fetch(m, q) = Quote
  BY StringScan
<1>2. ScanStops(m, s, q, n) /\ \A k \in 1..n-1 : ~ScanStops(m, s, q, k)
  OBVIOUS
<1>3. Deps(m, s) = LineCells(s, Length(m, s)) \cup CharCells(q, ScanEnd(m, s, q))
  BY DepsAre
<1>4. Compile(m, s) = [ins   |-> Line(m, s, Length(m, s)),
                       str   |-> StringChars(m, s, q),
                       exits |-> Targets(Fetch(m, q), q, s, AfterString(m, s, q))]
  BY DEF Compile, Line
<1> HIDE DEF q
<1>5. ScanEnd(m, s, q) = n
  BY <1>1, <1>2, ScanEndUnique
<1>6. Targets(Fetch(m, q), q, s, AfterString(m, s, q)) = << AfterString(m, s, q) >>
  BY <1>1 DEF Targets, GoLeft, GoRight, GoUp, GoDown, Bridge, IfHoriz, IfVert, Random, Halt, Quote
<1>7. /\ StringChars(m, s, q) = Chars(m, q, IF Fetch(m, At(q, n)) = Quote THEN n - 1 ELSE n)
      /\ AfterString(m, s, q) = IF Fetch(m, At(q, n)) = Quote THEN Step(At(q, n)) ELSE s
  BY <1>5 DEF StringChars, AfterString, Closed, Chars
<1> QED BY <1>3, <1>4, <1>5, <1>6, <1>7 DEF q

\* A character of the string.
LEMMA ScanPushLoopInv ==
  ASSUME LoopInv, ScanPush
  PROVE  LoopInv'
<1> DEFINE j == Len(str)
           L == Span(start.dir)
<1>1. /\ phase = "scan" /\ Fetch(mem, scan) # Quote
      /\ deps' = deps \cup {to_coord(scan)}
      /\ str' = Append(str, Fetch(mem, scan))
      /\ scan' = Step(scan)
      /\ UNCHANGED <<mem, start, cur, ins>>
  BY DEF ScanPush
<1>2. /\ IsString(mem, start) /\ cur = Final(mem, start)
      /\ cur \in CodePos /\ cur.dir = start.dir /\ Fetch(mem, cur) = Quote
      /\ ins = Line(mem, start, Length(mem, start))
      /\ j \in Nat /\ j + 1 \in 1..L
      /\ scan = At(cur, j + 1) /\ scan \in CodePos
      /\ \A k \in 1..j : ~ScanStops(mem, start, cur, k)
      /\ str = Chars(mem, cur, j)
      /\ deps = LineCells(start, Length(mem, start)) \cup CharCells(cur, j)
      /\ start \in CodePos /\ mem \in Memory /\ L \in Nat
  BY <1>1, ScanState
<1>3. str \in Seq(Byte) /\ ins \in Seq(Byte) /\ exits \in Seq(CodePos) /\ deps \in SUBSET Coord
  BY DEF LoopInv, TypeOK
<1>4. Fetch(mem, scan) \in Byte /\ to_coord(scan) \in Coord
  BY <1>2, FetchType, ToCoordType
<1>5. str' \in Seq(Byte) /\ Len(str') = j + 1
  BY <1>1, <1>3, <1>4
<1>6. deps' \in SUBSET Coord
  BY <1>1, <1>3, <1>4
<1> HIDE DEF j
<1>7. str' = Chars(mem, cur, j + 1)
  BY <1>1, <1>2, CharsAppend
<1>8. CharCells(cur, j + 1) = CharCells(cur, j) \cup {to_coord(scan)}
  BY <1>2, CellsGrow
<1>9. deps' = LineCells(start, Length(mem, start)) \cup CharCells(cur, j + 1)
  BY <1>1, <1>2, <1>8
<1>10. j + 1 # L
  <2>1. At(cur, L) = cur
    BY <1>2, FullTurn
  <2> QED BY <1>1, <1>2, <2>1
<1>11. scan' = At(cur, (j + 1) + 1) /\ scan' \in CodePos
  <2>1. j + 1 \in 0..Span(cur.dir)-1
    BY <1>2, <1>10
  <2>2. Step(At(cur, j + 1)) = At(cur, (j + 1) + 1)
    BY <1>2, <2>1, StepAt
  <2> QED BY <1>1, <1>2, <2>2, StepType
<1>12. (j + 1) - 1 = j /\ j + 1 \in 0..L-1
  BY <1>2, <1>10
<1>13. CASE scan' = start
  <2>1. phase' = "done" /\ exits' = << start >>
    BY <1>13 DEF ScanPush
  <2>2. ScanStops(mem, start, cur, j + 1)
    BY <1>1, <1>2, <1>13 DEF ScanStops
  <2>3. /\ Compile(mem, start) = [ins |-> ins, str |-> Chars(mem, cur, j + 1), exits |-> << start >>]
        /\ Deps(mem, start) = LineCells(start, Length(mem, start)) \cup CharCells(cur, j + 1)
    BY <1>1, <1>2, <1>12, <2>2, ScanReturns DEF L
  <2>4. ReturnsCompile' /\ RegistersDeps'
    BY <1>1, <1>7, <1>9, <2>1, <2>3 DEF ReturnsCompile, RegistersDeps
  <2>5. TypeOK'
    BY <1>1, <1>2, <1>3, <1>5, <1>6, <1>11, <2>1 DEF TypeOK
  <2>6. WalkInv' /\ ScanInv'
    BY <2>1 DEF WalkInv, ScanInv
  <2> QED BY <2>4, <2>5, <2>6 DEF LoopInv
<1>14. CASE scan' # start
  <2>1. phase' = "scan" /\ exits' = exits
    BY <1>1, <1>14 DEF ScanPush
  <2>2. ~ScanStops(mem, start, cur, j + 1)
    BY <1>1, <1>2, <1>14 DEF ScanStops
  <2>3. \A k \in 1..j+1 : ~ScanStops(mem, start, cur, k)
    <3>1. \A k \in 1..j+1 : k \in 1..j \/ k = j + 1
      BY <1>2
    <3> QED BY <1>2, <2>2, <3>1
  <2>4. ScanInv'
    BY <1>1, <1>2, <1>5, <1>7, <1>9, <1>11, <1>12, <2>1, <2>3 DEF ScanInv, L
  <2>5. TypeOK'
    BY <1>1, <1>2, <1>3, <1>5, <1>6, <1>11, <2>1 DEF TypeOK
  <2>6. WalkInv' /\ ReturnsCompile' /\ RegistersDeps'
    BY <2>1 DEF WalkInv, ReturnsCompile, RegistersDeps
  <2> QED BY <2>4, <2>5, <2>6 DEF LoopInv
<1> QED BY <1>13, <1>14

\* The closing quote.
LEMMA ScanCloseLoopInv ==
  ASSUME LoopInv, ScanClose
  PROVE  LoopInv'
<1> DEFINE j == Len(str)
           L == Span(start.dir)
<1>1. /\ phase = "scan" /\ Fetch(mem, scan) = Quote
      /\ deps' = deps \cup {to_coord(scan)}
      /\ exits' = << Step(scan) >> /\ phase' = "done"
      /\ UNCHANGED <<mem, start, cur, scan, ins, str>>
  BY DEF ScanClose
<1>2. /\ IsString(mem, start) /\ cur = Final(mem, start)
      /\ cur \in CodePos /\ cur.dir = start.dir /\ Fetch(mem, cur) = Quote
      /\ ins = Line(mem, start, Length(mem, start))
      /\ j \in Nat /\ j + 1 \in 1..L
      /\ scan = At(cur, j + 1) /\ scan \in CodePos
      /\ \A k \in 1..j : ~ScanStops(mem, start, cur, k)
      /\ str = Chars(mem, cur, j)
      /\ deps = LineCells(start, Length(mem, start)) \cup CharCells(cur, j)
      /\ start \in CodePos /\ mem \in Memory
  BY <1>1, ScanState
<1>3. str \in Seq(Byte) /\ ins \in Seq(Byte) /\ deps \in SUBSET Coord
  BY DEF LoopInv, TypeOK
<1> HIDE DEF j
<1>4. (j + 1) - 1 = j
  BY <1>2
<1>5. ScanStops(mem, start, cur, j + 1)
  BY <1>1, <1>2 DEF ScanStops
<1>6. /\ Compile(mem, start) = [ins |-> ins, str |-> str, exits |-> << Step(scan) >>]
      /\ Deps(mem, start) = LineCells(start, Length(mem, start)) \cup CharCells(cur, j + 1)
  BY <1>1, <1>2, <1>4, <1>5, ScanReturns DEF L
<1>7. CharCells(cur, j + 1) = CharCells(cur, j) \cup {to_coord(scan)}
  BY <1>2, CellsGrow
<1>8. ReturnsCompile' /\ RegistersDeps'
  BY <1>1, <1>2, <1>6, <1>7 DEF ReturnsCompile, RegistersDeps
<1>9. TypeOK'
  <2>1. to_coord(scan) \in Coord /\ Step(scan) \in CodePos
    BY <1>2, ToCoordType, StepType
  <2> QED BY <1>1, <1>2, <1>3, <2>1 DEF TypeOK
<1>10. WalkInv' /\ ScanInv'
  BY <1>1 DEF WalkInv, ScanInv
<1> QED BY <1>8, <1>9, <1>10 DEF LoopInv

\* All steps together, a return to the caller and stuttering included.
LEMMA NextLoopInv == LoopInv /\ [Next]_vars => LoopInv'
<1> SUFFICES ASSUME LoopInv, [Next]_vars PROVE LoopInv'
  OBVIOUS
<1>1. CASE Emit
  BY <1>1, EmitLoopInv
<1>2. CASE EmitJump
  BY <1>2, EmitJumpLoopInv
<1>3. CASE OpenString
  BY <1>3, OpenStringLoopInv
<1>4. CASE ScanPush
  BY <1>4, ScanPushLoopInv
<1>5. CASE ScanClose
  BY <1>5, ScanCloseLoopInv
<1>6. CASE Returned \/ UNCHANGED vars
  BY <1>6 DEF Returned, vars, LoopInv, TypeOK, WalkInv, ScanInv, ReturnsCompile, RegistersDeps
<1> QED BY <1>1, <1>2, <1>3, <1>4, <1>5, <1>6 DEF Next

\* The invariant holds throughout every call.
LEMMA LoopInvariance == Spec => []LoopInv
BY InitLoopInv, NextLoopInv, PTL DEF Spec

-----------------------------------------------------------------------------
(***************************************************************************)
(* Every variable of the compiler keeps its type.                          *)
(***************************************************************************)
THEOREM CompilerTypeCorrect == Spec => []TypeOK
<1>1. LoopInv => TypeOK
  BY DEF LoopInv
<1> QED BY <1>1, LoopInvariance, PTL

(***************************************************************************)
(* A call of the compiler that returns has returned the block of code that *)
(* module Block defines.                                                   *)
(***************************************************************************)
THEOREM CompilerReturnsBlock == Spec => []ReturnsCompile
<1>1. LoopInv => ReturnsCompile
  BY DEF LoopInv
<1> QED BY <1>1, LoopInvariance, PTL

(***************************************************************************)
(* A call of the compiler that returns has registered exactly the cells    *)
(* the block depends on.                                                   *)
(***************************************************************************)
THEOREM CompilerRegistersDeps == Spec => []RegistersDeps
<1>1. LoopInv => RegistersDeps
  BY DEF LoopInv
<1> QED BY <1>1, LoopInvariance, PTL
-----------------------------------------------------------------------------
(* The size of the code. *)

\* How long the code of one character is.
LEMMA BytesBound ==
  ASSUME NEW kind
  PROVE  /\ Bytes(kind) \in 0..74
         /\ Bytes(kind) > 28 => kind \in EmittedJump
         /\ JumpToThunk = 12
<1>1. CallExtern = 25 /\ JumpToThunk = 12 /\ PushBytes(0) = 2
  BY DEF CallExtern, JumpToThunk, PushBytes
<1>2. CASE kind \in {"_", "|"}
  <2>1. Bytes(kind) = 1 + 4 + 10 + 2 + 10 + 2
    BY <1>2 DEF Bytes
  <2>2. 1 + 4 + 10 + 2 + 10 + 2 = 29
    OBVIOUS
  <2>3. Bytes(kind) = 29
    BY <2>1, <2>2
  <2>4. kind \in EmittedJump
    BY <1>2 DEF EmittedJump
  <2> QED BY <1>1, <2>3, <2>4
<1>3. CASE kind = "?"
  <2>1. Bytes(kind) = CallExtern + 4 + 7 + 4 + 2 + 4 * 8
    BY <1>3 DEF Bytes
  <2> QED BY <1>1, <1>3, <2>1 DEF EmittedJump
<1>4. CASE kind \notin {"_", "|", "?"}
  <2>1. Bytes(kind) \in {0, 1, 3, 4, PushBytes(0), 2 + 3 + 1, 2 + 3 + 3 + 1, 1 + 3 + 4 + 3 + 1,
                         2 + 3 + 3 + 3 + 1, CallExtern + 1, CallExtern + 2, CallExtern + 3}
    BY <1>4 DEF Bytes
  <2> QED BY <1>1, <2>1
<1> QED BY <1>2, <1>3, <1>4

\* The characters whose case sets emitted_jump end the block.
LEMMA EmittedJumpEnds ==
  ASSUME NEW c \in Byte, Kind(c) \in EmittedJump
  PROVE  c \in EndsBlock
BY DEF Byte, Kind, EmittedJump, EndsBlock, Halt, Random, IfHoriz, IfVert

(***************************************************************************)
(* At most 28 bytes for an instruction and 5 for a character of a string.  *)
(***************************************************************************)
SizeInv ==
  /\ size \in Nat
  /\ phase = "walk" => size <= 28 * Len(ins)
  /\ phase = "scan" => size <= 28 * Span(start.dir) + 5 * Len(str)
  /\ FitsBuffer

\* The bound holds before anything is assembled.
LEMMA InitSizeInv == SizedInit => LoopInv /\ SizeInv
<1> SUFFICES ASSUME SizedInit PROVE LoopInv /\ SizeInv
  OBVIOUS
<1>1. size = 0 /\ Len(ins) = 0 /\ phase = "walk"
  BY DEF SizedInit, Init
<1>2. BufferSize >= 0
  BY BufferAssumption
<1> QED BY <1>1, <1>2, InitLoopInv DEF SizedInit, SizeInv, FitsBuffer

\* One iteration of either loop keeps it.
LEMMA StepSizeInv == LoopInv /\ SizeInv /\ [SizedNext]_sizedvars => SizeInv'
<1> SUFFICES ASSUME LoopInv, SizeInv, [SizedNext]_sizedvars PROVE SizeInv'
  OBVIOUS
<1> DEFINE L == Span(start.dir)
<1>1. start \in CodePos /\ mem \in Memory /\ cur \in CodePos /\ scan \in CodePos
  BY DEF LoopInv, TypeOK
<1>2. L \in Nat /\ 28 * L + 5 * L + 74 <= BufferSize /\ BufferSize \in Nat
  <2>1. start.dir \in Dirs
    BY <1>1, DirOf
  <2> QED BY <2>1, SpanType, BufferAssumption DEF LargestBlock
<1> HIDE DEF L
<1>3. size \in Nat /\ size <= BufferSize
  BY DEF SizeInv, FitsBuffer
<1>4. CASE SizedEmit
  <2> DEFINE b == Bytes(Kind(instr))
             f == FinalBytes(Kind(instr))
             i == Len(ins)
  <2>1. /\ b \in 0..74 /\ f \in {0, 12} /\ size' = size + (b + f)
        /\ b > 28 => f = 0
        /\ phase' # "done" => f = 0
    <3>1. b \in 0..74 /\ (b > 28 => Kind(instr) \in EmittedJump) /\ f \in {0, 12}
      BY BytesBound DEF FinalBytes
    <3>2. b > 28 => f = 0
      BY <3>1 DEF FinalBytes
    <3>3. phase' # "done" => f = 0
      BY DEF FinalBytes
    <3>4. size' = size + b + f
      BY <1>4 DEF SizedEmit
    <3> HIDE DEF b, f
    <3> QED BY <1>3, <3>1, <3>2, <3>3, <3>4
  <2>2. mem' = mem /\ start' = start /\ phase = "walk"
    BY <1>4 DEF SizedEmit, Emit, EmitJump, Visit
  <2>3. Visit(Byte \ EndsBlock) \/ Visit(EndsBlock \ {Quote})
    BY <1>4 DEF SizedEmit, Emit, EmitJump
  <2>4. i \in Nat /\ i + 1 <= L /\ Len(ins') = i + 1 /\ instr \in Byte
    BY <1>2, <2>2, <2>3, VisitEffect DEF L, instr
  <2>5. size <= 28 * i
    BY <2>2 DEF SizeInv
  <2>6. CASE Emit
    <3>1. phase' \in {"walk", "done"}
      BY <2>2, <2>6 DEF Emit
    <3>2. instr \notin EndsBlock
      BY <2>6 DEF Emit, Visit, instr
    <3>3. Kind(instr) \notin EmittedJump
      BY <2>4, <3>2, EmittedJumpEnds
    <3>4. b <= 28
      BY <3>3, BytesBound
    <3> HIDE DEF b, f, i
    <3>5. size' \in Nat /\ size' <= 28 * (i + 1) + f /\ 28 * (i + 1) <= 28 * L
      BY <1>2, <1>3, <2>1, <2>4, <2>5, <3>4
    <3>6. phase' = "walk" => size' <= 28 * Len(ins')
      BY <2>1, <2>4, <3>5
    <3>7. size' <= BufferSize
      BY <1>2, <2>1, <2>4, <3>5
    <3> QED BY <3>1, <3>5, <3>6, <3>7 DEF SizeInv, FitsBuffer
  <2>7. CASE EmitJump
    <3>1. phase' = "done"
      BY <2>7 DEF EmitJump
    <3> HIDE DEF b, f, i
    <3>2. size' \in Nat /\ size' <= 28 * i + 74 /\ 28 * i <= 28 * L
      BY <1>2, <1>3, <2>1, <2>4, <2>5
    <3>3. size' <= BufferSize
      BY <1>2, <2>4, <3>2
    <3> QED BY <3>1, <3>2, <3>3 DEF SizeInv, FitsBuffer
  <2> QED BY <1>4, <2>6, <2>7 DEF SizedEmit
<1>5. CASE SizedOpenString
  <2>1. /\ phase = "walk" /\ phase' = "scan" /\ size' = size /\ str' = str /\ start' = start
        /\ mem' = mem /\ Visit({Quote})
    BY <1>5 DEF SizedOpenString, OpenString, Visit
  <2>2. Len(ins) \in Nat /\ Len(ins) + 1 <= L /\ str = << >>
    BY <1>2, <2>1, VisitEffect DEF L
  <2>3. size <= 28 * Len(ins)
    BY <2>1 DEF SizeInv
  <2> DEFINE i == Len(ins)
  <2> HIDE DEF i
  <2>4. size <= 28 * L
    BY <1>2, <1>3, <2>2, <2>3 DEF i
  <2>5. Len(str') = 0
    BY <2>1, <2>2
  <2>6. size' <= 28 * Span(start'.dir) + 5 * Len(str')
    BY <1>2, <1>3, <2>1, <2>4, <2>5 DEF L
  <2> QED BY <1>3, <2>1, <2>6 DEF SizeInv, FitsBuffer
<1>6. CASE SizedScan
  <2> DEFINE j == Len(str)
             f == FinalBytes(">")
             b == PushBytes(Fetch(mem, scan))
  <2>1. /\ f \in {0, 12} /\ b \in {2, 5} /\ (phase' # "done" => f = 0)
    BY BytesBound DEF FinalBytes, PushBytes
  <2>2. phase = "scan" /\ start' = start
    BY <1>6 DEF SizedScan, ScanPush, ScanClose
  <2>3. j \in Nat /\ j + 1 <= L
    BY <1>2, <2>2, ScanState DEF L
  <2>4. size <= 28 * L + 5 * j
    BY <2>2 DEF SizeInv, L
  <2>5. CASE ScanPush /\ size' = size + b + f
    <3>1. Len(str') = j + 1
      <4>1. str \in Seq(Byte) /\ Fetch(mem, scan) \in Byte /\ str' = Append(str, Fetch(mem, scan))
        BY <1>1, <2>5, FetchType DEF LoopInv, TypeOK, ScanPush
      <4> QED BY <4>1
    <3>2. phase' \in {"scan", "done"}
      BY <2>2, <2>5 DEF ScanPush
    <3> HIDE DEF b, f, j
    <3>3. size' \in Nat /\ size' <= 28 * L + 5 * (j + 1) + f
      BY <1>2, <1>3, <2>1, <2>3, <2>4, <2>5
    <3>4. size' <= BufferSize
      BY <1>2, <2>1, <2>3, <3>3
    <3>5. phase' = "scan" => size' <= 28 * L + 5 * Len(str')
      BY <1>2, <2>1, <2>3, <3>1, <3>3
    <3> QED BY <2>2, <3>2, <3>3, <3>4, <3>5 DEF SizeInv, FitsBuffer, L
  <2>6. CASE ScanClose /\ size' = size + f
    <3>1. phase' = "done"
      BY <2>6 DEF ScanClose
    <3> HIDE DEF f, j
    <3>2. size' \in Nat /\ size' <= BufferSize
      BY <1>2, <1>3, <2>1, <2>3, <2>4, <2>6
    <3> QED BY <3>1, <3>2 DEF SizeInv, FitsBuffer
  <2> QED BY <1>6, <2>5, <2>6 DEF SizedScan
<1>7. CASE SizedReturned \/ UNCHANGED sizedvars
  BY <1>7 DEF SizedReturned, Returned, sizedvars, vars, SizeInv, FitsBuffer
<1> QED BY <1>4, <1>5, <1>6, <1>7 DEF SizedNext

(***************************************************************************)
(* The code of every block fits into the code generator's buffer, if the   *)
(* buffer holds a line of the longest instructions and a string of a line. *)
(***************************************************************************)
THEOREM EveryBlockFits == SizedSpec => []FitsBuffer
<1>1. LoopInv /\ SizeInv /\ [SizedNext]_sizedvars => LoopInv'
  <2>1. [SizedNext]_sizedvars => [Next]_vars
    BY DEF SizedNext, SizedEmit, SizedOpenString, SizedScan, SizedReturned, Next, sizedvars
  <2> QED BY <2>1, NextLoopInv
<1>2. SizeInv => FitsBuffer
  BY DEF SizeInv
<1> QED BY <1>1, <1>2, InitSizeInv, StepSizeInv, PTL DEF SizedSpec
=============================================================================
