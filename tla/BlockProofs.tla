---------------------------- MODULE BlockProofs ----------------------------
(***************************************************************************)
(* What the definitions of Grid and Block return, for every playfield: the *)
(* layout of the thunk table is one to one, where the two loops of the     *)
(* compiler end, of what type the block is, and that it depends on no cell *)
(* outside Deps.                                                           *)
(***************************************************************************)
EXTENDS Block, SequenceTheorems, WellFoundedInduction, TLAPS

-----------------------------------------------------------------------------
(* The playfield and the layout of the thunk table. *)

(***************************************************************************)
(* Moving along a line stays in the playfield for up to one turn, which is *)
(* as far as loop_clamp can correct.                                       *)
(***************************************************************************)
LEMMA AdvanceType ==
  ASSUME NEW p \in CodePos, NEW d \in Dirs, NEW i \in 0..Span(d)
  PROVE  /\ advance_pos(p, d, i) \in CodePos
         /\ advance_pos(p, d, i).dir = d
<1> DEFINE q == advance_pos(p, d, i)
<1>0. /\ N_COLS \in Nat /\ N_COLS >= 2 /\ N_ROWS \in Nat /\ N_ROWS >= 2
      /\ p.x \in 0..N_COLS-1 /\ p.y \in 0..N_ROWS-1
  BY GridAssumption DEF CodePos
<1>1. CASE d = RIGHT
  <2>1. i \in 0..N_COLS
    BY <1>1 DEF Span, LEFT, RIGHT
  <2>2. q = [x |-> loop_clamp(p.x + i, 0, N_COLS), y |-> loop_clamp(p.y, 0, N_ROWS), dir |-> d]
    BY <1>0, <1>1, <2>1 DEF advance_pos, code_pos, codepos_from_dir, UP, DOWN, LEFT, RIGHT
  <2> QED BY <1>0, <2>1, <2>2 DEF loop_clamp, CodePos
<1>2. CASE d = LEFT
  <2>1. i \in 0..N_COLS
    BY <1>2 DEF Span, LEFT, RIGHT
  <2>2. q = [x |-> loop_clamp(p.x - i, 0, N_COLS), y |-> loop_clamp(p.y, 0, N_ROWS), dir |-> d]
    BY <1>0, <1>2, <2>1 DEF advance_pos, code_pos, codepos_from_dir, UP, DOWN, LEFT, RIGHT
  <2> QED BY <1>0, <2>1, <2>2 DEF loop_clamp, CodePos
<1>3. CASE d = DOWN
  <2>1. i \in 0..N_ROWS
    BY <1>3 DEF Span, LEFT, RIGHT, DOWN
  <2>2. q = [x |-> loop_clamp(p.x, 0, N_COLS), y |-> loop_clamp(p.y + i, 0, N_ROWS), dir |-> d]
    BY <1>0, <1>3, <2>1 DEF advance_pos, code_pos, codepos_from_dir, UP, DOWN, LEFT, RIGHT
  <2> QED BY <1>0, <2>1, <2>2 DEF loop_clamp, CodePos
<1>4. CASE d = UP
  <2>1. i \in 0..N_ROWS
    BY <1>4 DEF Span, LEFT, RIGHT, UP
  <2>2. q = [x |-> loop_clamp(p.x, 0, N_COLS), y |-> loop_clamp(p.y - i, 0, N_ROWS), dir |-> d]
    BY <1>0, <1>4, <2>1 DEF advance_pos, code_pos, codepos_from_dir, UP, DOWN, LEFT, RIGHT
  <2> QED BY <1>0, <2>1, <2>2 DEF loop_clamp, CodePos
<1> QED BY <1>1, <1>2, <1>3, <1>4 DEF Dirs

\* A quotient and a remainder are recovered by \div and %.
LEMMA DivMod ==
  ASSUME NEW a \in Nat, NEW b \in Nat, NEW n \in Nat \ {0}, b < n
  PROVE  (a * n + b) \div n = a /\ (a * n + b) % n = b
BY Z3

(***************************************************************************)
(* A position in direction d is entry d * N_ROWS_COLS + r of the table,    *)
(* with r = x * N_ROWS + y inside the plane of its direction.              *)
(***************************************************************************)
LEMMA PlaneIndex ==
  ASSUME NEW p \in CodePos
  PROVE  /\ p.x * N_ROWS + p.y \in Nat
         /\ p.x * N_ROWS + p.y < N_ROWS_COLS
         /\ N_ROWS_COLS \in Nat \ {0}
<1>1. /\ N_COLS \in Nat /\ N_COLS >= 2 /\ N_ROWS \in Nat /\ N_ROWS >= 2
      /\ p.x \in 0..N_COLS-1 /\ p.y \in 0..N_ROWS-1
  BY GridAssumption DEF CodePos
<1>2. \A k \in Nat : k * N_ROWS \in Nat
  BY <1>1
<1>3. p.x * N_ROWS \in Nat
  BY <1>1, <1>2
<1>4. (N_COLS - 1 - p.x) * N_ROWS \in Nat
  BY <1>1, <1>2
<1>5. N_ROWS * N_COLS = p.x * N_ROWS + (N_COLS - 1 - p.x) * N_ROWS + N_ROWS
  BY <1>1, Z3
<1> QED BY <1>1, <1>3, <1>4, <1>5 DEF N_ROWS_COLS

(***************************************************************************)
(* codepos_to_offset and offset_to_codepos are inverse: the compiler       *)
(* recovers from a thunk's address the position the thunk stands for.      *)
(***************************************************************************)
THEOREM TableRoundTrip == \A p \in CodePos : RoundTripAt(p)
<1> SUFFICES ASSUME NEW p \in CodePos
             PROVE  offset_to_codepos(codepos_to_offset(p)) = p
  BY DEF RoundTripAt
<1> DEFINE r == p.x * N_ROWS + p.y
           e == p.dir * N_ROWS_COLS + r
<1>1. /\ N_COLS \in Nat /\ N_ROWS \in Nat /\ N_ROWS >= 2
      /\ p.x \in 0..N_COLS-1 /\ p.y \in 0..N_ROWS-1 /\ p.dir \in Nat
      /\ p = [x |-> p.x, y |-> p.y, dir |-> p.dir]
  BY GridAssumption DEF CodePos, Dirs, UP, DOWN, LEFT, RIGHT
<1>2. r \in Nat /\ r < N_ROWS_COLS /\ N_ROWS_COLS \in Nat \ {0}
  BY PlaneIndex
<1> HIDE DEF r
<1>3. e \in Nat
  <2>1. p.dir * N_ROWS_COLS \in Nat
    BY <1>1, <1>2
  <2> QED BY <1>2, <2>1
<1>4. codepos_to_offset(p) \div THUNK_ENTRY_SIZE = e
  <2>1. codepos_to_offset(p) = e * 12 + 0
    BY <1>1, <1>2, <1>3 DEF codepos_to_offset, THUNK_ENTRY_SIZE, r
  <2> HIDE DEF e
  <2> QED BY <1>3, <2>1, DivMod DEF THUNK_ENTRY_SIZE
<1>5. e \div N_ROWS_COLS = p.dir /\ e % N_ROWS_COLS = r
  BY <1>1, <1>2, DivMod
<1>6. r \div N_ROWS = p.x /\ r % N_ROWS = p.y
  BY <1>1, DivMod DEF r
<1>7. code_pos(p.x, p.y, p.dir) = p
  BY <1>1 DEF code_pos, loop_clamp
<1> HIDE DEF e
<1> QED BY <1>4, <1>5, <1>6, <1>7 DEF offset_to_codepos, idx_to_pos

(***************************************************************************)
(* Every thunk lies inside the table: offset_to_codepos's assertion cannot *)
(* fail.                                                                   *)
(***************************************************************************)
THEOREM ThunkInTable == \A p \in CodePos : InTableAt(p)
<1> SUFFICES ASSUME NEW p \in CodePos PROVE InTableAt(p)
  OBVIOUS
<1> DEFINE r == p.x * N_ROWS + p.y
<1>1. r \in Nat /\ r < N_ROWS_COLS /\ N_ROWS_COLS \in Nat \ {0}
  BY PlaneIndex
<1>2. p.x * N_ROWS \in Int /\ p.y \in Int
  BY GridAssumption DEF CodePos
<1>3. p.dir \in {0, 1, 2, 3}
  BY DEF CodePos, Dirs, UP, DOWN, LEFT, RIGHT
<1>4. p.dir * N_ROWS_COLS + p.x * N_ROWS + p.y = p.dir * N_ROWS_COLS + r
  BY <1>1, <1>2, <1>3
<1> HIDE DEF r
<1>5. /\ p.dir * N_ROWS_COLS + r >= 0
      /\ p.dir * N_ROWS_COLS + r + 1 <= 4 * N_ROWS_COLS
      /\ p.dir * N_ROWS_COLS + r \in Int
  BY <1>1, <1>3
<1> DEFINE e == p.dir * N_ROWS_COLS + r
<1>6. e * 12 >= 0 /\ e * 12 + 12 <= 4 * N_ROWS_COLS * 12
  <2> HIDE DEF e
  <2>1. e \in Int /\ e >= 0 /\ e + 1 <= 4 * N_ROWS_COLS
    BY <1>5 DEF e
  <2> QED BY <1>1, <2>1
<1> QED BY <1>4, <1>6 DEF InTableAt, codepos_to_offset, THUNK_ENTRY_SIZE, STUB_TABLE_SIZE, N_DIRS

-----------------------------------------------------------------------------
(* Every nonempty set of naturals has a least element. *)

Less == {p \in Nat \X Nat : p[1] < p[2]}

\* The order of the natural numbers is well founded.
LEMMA LessWellFounded == IsWellFoundedOn(Less, Nat)
<1>1. Less = OpToRel(<, Nat)
  BY DEF Less, OpToRel
<1> QED BY <1>1, NatLessThanWellFounded

\* A set of natural numbers that is not empty has a least element.
LEMMA LeastElement ==
  ASSUME NEW T \in SUBSET Nat, T # {}
  PROVE  \E n \in T : \A j \in T : n <= j
<1>1. PICK n \in T : \A j \in T : <<j, n>> \notin Less
  BY LessWellFounded, WFMin
<1>2. ASSUME NEW j \in T PROVE n <= j
  <2>1. n \in Nat /\ j \in Nat
    OBVIOUS
  <2>2. <<j, n>> \notin Less
    BY <1>1
  <2>3. <<j, n>> \in Nat \X Nat /\ ~(j < n)
    BY <2>1, <2>2 DEF Less
  <2> QED BY <2>1, <2>3
<1> QED BY <1>2

-----------------------------------------------------------------------------
(* The main loop. *)

\* A line has at least two cells.
LEMMA SpanType == \A d \in Dirs : Span(d) \in Nat /\ Span(d) >= 2
BY GridAssumption DEF Span

\* The direction of a position is one of the four.
LEMMA DirOf == \A p \in CodePos : p.dir \in Dirs
BY DEF CodePos

\* The cells of a line are positions in its direction.
LEMMA AtType ==
  ASSUME NEW s \in CodePos, NEW i \in 0..Span(s.dir)
  PROVE  At(s, i) \in CodePos /\ At(s, i).dir = s.dir
BY AdvanceType, DirOf DEF At

\* So is the cell the main loop moves to.
LEMMA StepType ==
  ASSUME NEW p \in CodePos
  PROVE  Step(p) \in CodePos /\ Step(p).dir = p.dir
BY AdvanceType, DirOf, SpanType DEF Step

\* A position lies on a cell of the playfield.
LEMMA ToCoordType == \A p \in CodePos : to_coord(p) \in Coord
BY DEF CodePos, Coord, to_coord

\* A whole turn comes back to the same position.
LEMMA FullTurn ==
  ASSUME NEW s \in CodePos
  PROVE  At(s, Span(s.dir)) = s /\ At(s, 0) = s
<1>1. /\ N_COLS \in Nat /\ N_COLS >= 2 /\ N_ROWS \in Nat /\ N_ROWS >= 2
      /\ s.x \in 0..N_COLS-1 /\ s.y \in 0..N_ROWS-1 /\ s.dir \in Dirs
      /\ s = [x |-> s.x, y |-> s.y, dir |-> s.dir]
  BY GridAssumption DEF CodePos
<1>2. \A i \in Nat : At(s, i) =
         [x |-> loop_clamp(s.x + (IF s.dir = LEFT THEN 0-i ELSE IF s.dir = RIGHT THEN i ELSE 0), 0, N_COLS),
          y |-> loop_clamp(s.y + (IF s.dir = UP THEN 0-i ELSE IF s.dir = DOWN THEN i ELSE 0), 0, N_ROWS),
          dir |-> s.dir]
  BY <1>1 DEF At, advance_pos, code_pos, codepos_from_dir
<1>3. At(s, 0) = s
  <2>1. At(s, 0) = [x |-> loop_clamp(s.x, 0, N_COLS), y |-> loop_clamp(s.y, 0, N_ROWS), dir |-> s.dir]
    BY <1>1, <1>2
  <2> QED BY <1>1, <2>1 DEF loop_clamp
<1>4. CASE s.dir = RIGHT
  <2>1. At(s, N_COLS) = [x |-> loop_clamp(s.x + N_COLS, 0, N_COLS), y |-> loop_clamp(s.y, 0, N_ROWS), dir |-> s.dir]
    BY <1>1, <1>2, <1>4 DEF UP, DOWN, LEFT, RIGHT
  <2> QED BY <1>1, <1>3, <1>4, <2>1 DEF loop_clamp, Span
<1>5. CASE s.dir = LEFT
  <2>1. At(s, N_COLS) = [x |-> loop_clamp(s.x - N_COLS, 0, N_COLS), y |-> loop_clamp(s.y, 0, N_ROWS), dir |-> s.dir]
    BY <1>1, <1>2, <1>5 DEF UP, DOWN, LEFT, RIGHT
  <2> QED BY <1>1, <1>3, <1>5, <2>1 DEF loop_clamp, Span
<1>6. CASE s.dir = DOWN
  <2>1. At(s, N_ROWS) = [x |-> loop_clamp(s.x, 0, N_COLS), y |-> loop_clamp(s.y + N_ROWS, 0, N_ROWS), dir |-> s.dir]
    BY <1>1, <1>2, <1>6 DEF UP, DOWN, LEFT, RIGHT
  <2> QED BY <1>1, <1>3, <1>6, <2>1 DEF loop_clamp, Span, DOWN, LEFT, RIGHT
<1>7. CASE s.dir = UP
  <2>1. At(s, N_ROWS) = [x |-> loop_clamp(s.x, 0, N_COLS), y |-> loop_clamp(s.y - N_ROWS, 0, N_ROWS), dir |-> s.dir]
    BY <1>1, <1>2, <1>7 DEF UP, DOWN, LEFT, RIGHT
  <2> QED BY <1>1, <1>3, <1>7, <2>1 DEF loop_clamp, Span, UP, LEFT, RIGHT
<1> QED BY <1>1, <1>4, <1>5, <1>6, <1>7 DEF Dirs

-----------------------------------------------------------------------------
(* Walking along a line, cell by cell. *)

\* The coordinates of a position i cells along the line of s.
LEMMA AtCoords ==
  ASSUME NEW s \in CodePos, NEW i \in 0..Span(s.dir)
  PROVE  /\ s.dir = RIGHT => At(s, i) = [x |-> loop_clamp(s.x + i, 0, N_COLS), y |-> s.y, dir |-> s.dir]
         /\ s.dir = LEFT  => At(s, i) = [x |-> loop_clamp(s.x - i, 0, N_COLS), y |-> s.y, dir |-> s.dir]
         /\ s.dir = DOWN  => At(s, i) = [x |-> s.x, y |-> loop_clamp(s.y + i, 0, N_ROWS), dir |-> s.dir]
         /\ s.dir = UP    => At(s, i) = [x |-> s.x, y |-> loop_clamp(s.y - i, 0, N_ROWS), dir |-> s.dir]
<1>1. /\ N_COLS \in Nat /\ N_COLS >= 2 /\ N_ROWS \in Nat /\ N_ROWS >= 2
      /\ s.x \in 0..N_COLS-1 /\ s.y \in 0..N_ROWS-1 /\ s.dir \in Dirs
      /\ i \in Nat
  BY GridAssumption, SpanType DEF CodePos
<1>2. loop_clamp(s.x, 0, N_COLS) = s.x /\ loop_clamp(s.y, 0, N_ROWS) = s.y
  BY <1>1 DEF loop_clamp
<1>3. At(s, i) = [x |-> loop_clamp(s.x + codepos_from_dir[s.dir].x * i, 0, N_COLS),
                  y |-> loop_clamp(s.y + codepos_from_dir[s.dir].y * i, 0, N_ROWS),
                  dir |-> s.dir]
  BY DEF At, advance_pos, code_pos
<1>4. CASE s.dir = RIGHT
  <2>1. codepos_from_dir[s.dir].x * i = i /\ codepos_from_dir[s.dir].y * i = 0
    BY <1>1, <1>4 DEF codepos_from_dir, Dirs, UP, DOWN, LEFT, RIGHT
  <2> QED BY <1>1, <1>2, <1>3, <1>4, <2>1 DEF UP, DOWN, LEFT, RIGHT
<1>5. CASE s.dir = LEFT
  <2>1. codepos_from_dir[s.dir].x * i = 0 - i /\ codepos_from_dir[s.dir].y * i = 0
    BY <1>1, <1>5 DEF codepos_from_dir, Dirs, UP, DOWN, LEFT, RIGHT
  <2>2. s.x + (0 - i) = s.x - i /\ s.y + 0 = s.y
    BY <1>1
  <2> QED BY <1>2, <1>3, <1>5, <2>1, <2>2 DEF UP, DOWN, LEFT, RIGHT
<1>6. CASE s.dir = DOWN
  <2>1. codepos_from_dir[s.dir].x * i = 0 /\ codepos_from_dir[s.dir].y * i = i
    BY <1>1, <1>6 DEF codepos_from_dir, Dirs, UP, DOWN, LEFT, RIGHT
  <2> QED BY <1>1, <1>2, <1>3, <1>6, <2>1 DEF UP, DOWN, LEFT, RIGHT
<1>7. CASE s.dir = UP
  <2>1. codepos_from_dir[s.dir].x * i = 0 /\ codepos_from_dir[s.dir].y * i = 0 - i
    BY <1>1, <1>7 DEF codepos_from_dir, Dirs, UP, DOWN, LEFT, RIGHT
  <2>2. s.y + (0 - i) = s.y - i /\ s.x + 0 = s.x
    BY <1>1
  <2> QED BY <1>2, <1>3, <1>7, <2>1, <2>2 DEF UP, DOWN, LEFT, RIGHT
<1> QED BY <1>1, <1>4, <1>5, <1>6, <1>7 DEF Dirs

\* One more step is one cell further.
LEMMA StepAt ==
  ASSUME NEW s \in CodePos, NEW i \in 0..Span(s.dir)-1
  PROVE  Step(At(s, i)) = At(s, i + 1)
<1>1. /\ N_COLS \in Nat /\ N_COLS >= 2 /\ N_ROWS \in Nat /\ N_ROWS >= 2
      /\ s.x \in 0..N_COLS-1 /\ s.y \in 0..N_ROWS-1 /\ s.dir \in Dirs
      /\ i \in Nat /\ Span(s.dir) \in Nat /\ i + 1 \in 0..Span(s.dir) /\ i \in 0..Span(s.dir)
  BY GridAssumption, SpanType DEF CodePos
<1> DEFINE p == At(s, i)
<1>2. p \in CodePos /\ p.dir = s.dir /\ Span(p.dir) = Span(s.dir)
  BY <1>1, AtType
<1>3. Step(p) = At(p, 1) /\ 1 \in 0..Span(p.dir)
  BY <1>2, SpanType, DirOf DEF Step, At
<1> HIDE DEF p
<1>4. CASE s.dir = RIGHT
  <2>1. p.x = loop_clamp(s.x + i, 0, N_COLS) /\ p.y = s.y
    BY <1>1, <1>4, AtCoords DEF p
  <2>2. At(p, 1) = [x |-> loop_clamp(p.x + 1, 0, N_COLS), y |-> p.y, dir |-> p.dir]
    BY <1>2, <1>3, <1>4, AtCoords
  <2>3. At(s, i + 1) = [x |-> loop_clamp(s.x + (i + 1), 0, N_COLS), y |-> s.y, dir |-> s.dir]
    BY <1>1, <1>4, AtCoords
  <2>4. i + 1 <= N_COLS
    BY <1>1, <1>4 DEF Span
  <2> QED BY <1>1, <1>2, <1>3, <2>1, <2>2, <2>3, <2>4 DEF loop_clamp, p
<1>5. CASE s.dir = LEFT
  <2>1. p.x = loop_clamp(s.x - i, 0, N_COLS) /\ p.y = s.y
    BY <1>1, <1>5, AtCoords DEF p
  <2>2. At(p, 1) = [x |-> loop_clamp(p.x - 1, 0, N_COLS), y |-> p.y, dir |-> p.dir]
    BY <1>2, <1>3, <1>5, AtCoords
  <2>3. At(s, i + 1) = [x |-> loop_clamp(s.x - (i + 1), 0, N_COLS), y |-> s.y, dir |-> s.dir]
    BY <1>1, <1>5, AtCoords
  <2>4. i + 1 <= N_COLS
    BY <1>1, <1>5 DEF Span
  <2> QED BY <1>1, <1>2, <1>3, <2>1, <2>2, <2>3, <2>4 DEF loop_clamp, p
<1>6. CASE s.dir = DOWN
  <2>1. p.y = loop_clamp(s.y + i, 0, N_ROWS) /\ p.x = s.x
    BY <1>1, <1>6, AtCoords DEF p
  <2>2. At(p, 1) = [x |-> p.x, y |-> loop_clamp(p.y + 1, 0, N_ROWS), dir |-> p.dir]
    BY <1>2, <1>3, <1>6, AtCoords
  <2>3. At(s, i + 1) = [x |-> s.x, y |-> loop_clamp(s.y + (i + 1), 0, N_ROWS), dir |-> s.dir]
    BY <1>1, <1>6, AtCoords
  <2>4. i + 1 <= N_ROWS
    BY <1>1, <1>6 DEF Span, DOWN, LEFT, RIGHT
  <2> QED BY <1>1, <1>2, <1>3, <2>1, <2>2, <2>3, <2>4 DEF loop_clamp, p
<1>7. CASE s.dir = UP
  <2>1. p.y = loop_clamp(s.y - i, 0, N_ROWS) /\ p.x = s.x
    BY <1>1, <1>7, AtCoords DEF p
  <2>2. At(p, 1) = [x |-> p.x, y |-> loop_clamp(p.y - 1, 0, N_ROWS), dir |-> p.dir]
    BY <1>2, <1>3, <1>7, AtCoords
  <2>3. At(s, i + 1) = [x |-> s.x, y |-> loop_clamp(s.y - (i + 1), 0, N_ROWS), dir |-> s.dir]
    BY <1>1, <1>7, AtCoords
  <2>4. i + 1 <= N_ROWS
    BY <1>1, <1>7 DEF Span, UP, LEFT, RIGHT
  <2> QED BY <1>1, <1>2, <1>3, <2>1, <2>2, <2>3, <2>4 DEF loop_clamp, p
<1> QED BY <1>1, <1>4, <1>5, <1>6, <1>7 DEF Dirs

\* A line comes back to the cell of its start only after a whole turn.
LEMMA OnlyFullTurn ==
  ASSUME NEW s \in CodePos, NEW i \in 1..Span(s.dir)
  PROVE  to_coord(At(s, i)) = to_coord(s) <=> i = Span(s.dir)
<1>1. /\ N_COLS \in Nat /\ N_COLS >= 2 /\ N_ROWS \in Nat /\ N_ROWS >= 2
      /\ s.x \in 0..N_COLS-1 /\ s.y \in 0..N_ROWS-1 /\ s.dir \in Dirs
      /\ i \in Nat /\ i >= 1 /\ i \in 0..Span(s.dir) /\ Span(s.dir) \in Nat
  BY GridAssumption, SpanType DEF CodePos
<1>2. to_coord(At(s, i)) = to_coord(s) <=> At(s, i).x = s.x /\ At(s, i).y = s.y
  BY DEF to_coord
<1>3. CASE s.dir = RIGHT
  <2>1. At(s, i).x = loop_clamp(s.x + i, 0, N_COLS) /\ At(s, i).y = s.y
    BY <1>1, <1>3, AtCoords
  <2>2. Span(s.dir) = N_COLS
    BY <1>3 DEF Span
  <2> QED BY <1>1, <1>2, <2>1, <2>2 DEF loop_clamp
<1>4. CASE s.dir = LEFT
  <2>1. At(s, i).x = loop_clamp(s.x - i, 0, N_COLS) /\ At(s, i).y = s.y
    BY <1>1, <1>4, AtCoords
  <2>2. Span(s.dir) = N_COLS
    BY <1>4 DEF Span
  <2> QED BY <1>1, <1>2, <2>1, <2>2 DEF loop_clamp
<1>5. CASE s.dir = DOWN
  <2>1. At(s, i).y = loop_clamp(s.y + i, 0, N_ROWS) /\ At(s, i).x = s.x
    BY <1>1, <1>5, AtCoords
  <2>2. Span(s.dir) = N_ROWS
    BY <1>5 DEF Span, DOWN, LEFT, RIGHT
  <2> QED BY <1>1, <1>2, <2>1, <2>2 DEF loop_clamp
<1>6. CASE s.dir = UP
  <2>1. At(s, i).y = loop_clamp(s.y - i, 0, N_ROWS) /\ At(s, i).x = s.x
    BY <1>1, <1>6, AtCoords
  <2>2. Span(s.dir) = N_ROWS
    BY <1>6 DEF Span, UP, LEFT, RIGHT
  <2> QED BY <1>1, <1>2, <2>1, <2>2 DEF loop_clamp
<1> QED BY <1>1, <1>3, <1>4, <1>5, <1>6 DEF Dirs

-----------------------------------------------------------------------------
(***************************************************************************)
(* StopAt is the first index at which the walk stops, and the only one.    *)
(***************************************************************************)
LEMMA StopAtFirst ==
  ASSUME NEW m, NEW s \in CodePos
  PROVE  /\ StopAt(m, s) \in 0..Span(s.dir)
         /\ Stops(m, s, StopAt(m, s))
         /\ \A j \in 0..StopAt(m, s)-1 : ~Stops(m, s, j)
<1> DEFINE L == Span(s.dir)
           T == {n \in 0..L : Stops(m, s, n)}
<1>1. L \in Nat
  BY SpanType, DirOf
<1>2. L \in T
  BY <1>1 DEF Stops
<1>3. PICK n \in T : \A j \in T : n <= j
  <2>1. T \in SUBSET Nat /\ T # {}
    BY <1>1, <1>2
  <2> HIDE DEF T
  <2> QED BY <2>1, LeastElement
<1>4. n \in 0..L /\ Stops(m, s, n) /\ \A j \in 0..n-1 : ~Stops(m, s, j)
  BY <1>1, <1>3
<1> QED BY <1>4 DEF StopAt

\* Any index with that property is StopAt.
LEMMA StopAtUnique ==
  ASSUME NEW m, NEW s \in CodePos, NEW n \in 0..Span(s.dir),
         Stops(m, s, n), \A j \in 0..n-1 : ~Stops(m, s, j)
  PROVE  StopAt(m, s) = n
<1> DEFINE k == StopAt(m, s)
<1>1. k \in 0..Span(s.dir) /\ Stops(m, s, k) /\ \A j \in 0..k-1 : ~Stops(m, s, j)
  BY StopAtFirst
<1>2. Span(s.dir) \in Nat
  BY SpanType, DirOf
<1> HIDE DEF k
<1>3. ~(k < n) /\ ~(n < k)
  BY <1>1, <1>2
<1> QED BY <1>1, <1>2, <1>3 DEF k

\* The block has at least one instruction and at most a line of them.
LEMMA LengthType ==
  ASSUME NEW m, NEW s \in CodePos
  PROVE  /\ Length(m, s) \in 1..Span(s.dir)
         /\ Final(m, s) \in CodePos /\ Final(m, s).dir = s.dir
         /\ \A i \in 0..Length(m, s)-1 : At(s, i) \in CodePos
<1>1. /\ Span(s.dir) \in Nat /\ Span(s.dir) >= 2
      /\ StopAt(m, s) \in 0..Span(s.dir)
  BY SpanType, DirOf, StopAtFirst
<1>2. Length(m, s) \in 1..Span(s.dir)
  BY <1>1 DEF Length, Wraps
<1>3. \A i \in 0..Length(m, s)-1 : At(s, i) \in CodePos /\ At(s, i).dir = s.dir
  <2> SUFFICES ASSUME NEW i \in 0..Length(m, s)-1
               PROVE  At(s, i) \in CodePos /\ At(s, i).dir = s.dir
    OBVIOUS
  <2>1. i \in 0..Span(s.dir)
    BY <1>1, <1>2
  <2> QED BY <2>1, AtType
<1>4. Length(m, s) - 1 \in 0..Length(m, s)-1
  BY <1>1, <1>2
<1> QED BY <1>2, <1>3, <1>4 DEF Final

-----------------------------------------------------------------------------
(* The scan of a string. *)

\* The scan ends within one turn, and nowhere earlier than ScanEnd.
LEMMA ScanEndFirst ==
  ASSUME NEW m, NEW s \in CodePos, NEW q \in CodePos,
         q.dir = s.dir, Fetch(m, q) = Quote
  PROVE  /\ ScanEnd(m, s, q) \in 1..Span(s.dir)
         /\ ScanStops(m, s, q, ScanEnd(m, s, q))
         /\ \A j \in 1..ScanEnd(m, s, q)-1 : ~ScanStops(m, s, q, j)
<1> DEFINE L == Span(s.dir)
           T == {n \in 1..L : ScanStops(m, s, q, n)}
<1>1. L \in Nat /\ L >= 2
  BY SpanType, DirOf
<1>2. L \in T
  <2>1. At(q, L) = q
    BY FullTurn
  <2> QED BY <1>1, <2>1 DEF ScanStops
<1>3. PICK n \in T : \A j \in T : n <= j
  <2>1. T \in SUBSET Nat /\ T # {}
    BY <1>1, <1>2
  <2> HIDE DEF T
  <2> QED BY <2>1, LeastElement
<1>4. n \in 1..L /\ ScanStops(m, s, q, n) /\ \A j \in 1..n-1 : ~ScanStops(m, s, q, j)
  BY <1>1, <1>3
<1> QED BY <1>4 DEF ScanEnd

\* Any index with that property is ScanEnd.
LEMMA ScanEndUnique ==
  ASSUME NEW m, NEW s \in CodePos, NEW q \in CodePos,
         q.dir = s.dir, Fetch(m, q) = Quote,
         NEW n \in 1..Span(s.dir),
         ScanStops(m, s, q, n), \A j \in 1..n-1 : ~ScanStops(m, s, q, j)
  PROVE  ScanEnd(m, s, q) = n
<1> DEFINE k == ScanEnd(m, s, q)
<1>1. k \in 1..Span(s.dir) /\ ScanStops(m, s, q, k) /\ \A j \in 1..k-1 : ~ScanStops(m, s, q, j)
  BY ScanEndFirst
<1>2. Span(s.dir) \in Nat
  BY SpanType, DirOf
<1> HIDE DEF k
<1>3. ~(k < n) /\ ~(n < k)
  BY <1>1, <1>2
<1> QED BY <1>1, <1>2, <1>3 DEF k

-----------------------------------------------------------------------------
(***************************************************************************)
(* The block and its dependencies are of the declared types.               *)
(***************************************************************************)
LEMMA FetchType == \A m \in Memory, p \in CodePos : Fetch(m, p) \in Byte
BY ToCoordType DEF Fetch, Memory

\* What the scan walks over when the block ends at a quote.
LEMMA StringScan ==
  ASSUME NEW m, NEW s \in CodePos, IsString(m, s)
  PROVE  LET q == Final(m, s)
         IN  /\ q \in CodePos /\ q.dir = s.dir /\ Fetch(m, q) = Quote
             /\ ScanEnd(m, s, q) \in 1..Span(s.dir)
             /\ Span(q.dir) = Span(s.dir)
             /\ \A j \in 1..ScanEnd(m, s, q) : At(q, j) \in CodePos
<1> DEFINE q == Final(m, s)
<1>1. q \in CodePos /\ q.dir = s.dir /\ Fetch(m, q) = Quote
  BY LengthType DEF IsString
<1> HIDE DEF q
<1>2. ScanEnd(m, s, q) \in 1..Span(s.dir) /\ Span(s.dir) \in Nat
  BY <1>1, ScanEndFirst, SpanType, DirOf
<1>3. ASSUME NEW j \in 1..ScanEnd(m, s, q) PROVE At(q, j) \in CodePos
  <2>1. j \in 0..Span(q.dir)
    BY <1>1, <1>2
  <2> QED BY <1>1, <2>1, AtType
<1> QED BY <1>1, <1>2, <1>3 DEF q

\* A block depends on cells of the playfield.
LEMMA DepsType ==
  ASSUME NEW m, NEW s \in CodePos
  PROVE  Deps(m, s) \in SUBSET Coord
<1>1. \A i \in 0..Length(m, s)-1 : to_coord(At(s, i)) \in Coord
  BY LengthType, ToCoordType
<1>2. ASSUME IsString(m, s)
      PROVE  \A j \in 1..ScanEnd(m, s, Final(m, s)) : to_coord(At(Final(m, s), j)) \in Coord
  BY <1>2, StringScan, ToCoordType
<1> QED BY <1>1, <1>2 DEF Deps

\* A line that closes on itself has no instruction that ends a block.
LEMMA WrapsNoEnd ==
  ASSUME NEW m, NEW s \in CodePos, Wraps(m, s)
  PROVE  Fetch(m, Final(m, s)) \notin EndsBlock
<1>1. Span(s.dir) \in Nat /\ Span(s.dir) >= 2
  BY SpanType, DirOf
<1>2. StopAt(m, s) = Span(s.dir) /\ Length(m, s) = Span(s.dir)
  BY DEF Wraps, Length
<1>3. Span(s.dir) - 1 \in 0..StopAt(m, s)-1
  BY <1>1, <1>2
<1>4. ~Stops(m, s, Span(s.dir) - 1)
  BY <1>3, StopAtFirst
<1> QED BY <1>2, <1>4 DEF Stops, Final

\* An instruction that ends a block goes to positions.
LEMMA TargetsType ==
  ASSUME NEW c, NEW cur \in CodePos, NEW s \in CodePos, NEW after \in CodePos
  PROVE  Targets(c, cur, s, after) \in Seq(CodePos)
<1>1. \A d \in Dirs : 1 \in 0..Span(d) /\ 2 \in 0..Span(d)
  BY SpanType
<1>2. UP \in Dirs /\ DOWN \in Dirs /\ LEFT \in Dirs /\ RIGHT \in Dirs /\ cur.dir \in Dirs
  BY DirOf DEF Dirs
<1>3. /\ advance_pos(cur, UP, 1) \in CodePos /\ advance_pos(cur, DOWN, 1) \in CodePos
      /\ advance_pos(cur, LEFT, 1) \in CodePos /\ advance_pos(cur, RIGHT, 1) \in CodePos
      /\ advance_pos(cur, cur.dir, 2) \in CodePos
  BY <1>1, <1>2, AdvanceType
<1> QED BY <1>3 DEF Targets, GoLeft, GoRight, GoUp, GoDown, Bridge, IfHoriz, IfVert, Random, Halt, Quote

\* What the compiler translates is a block.
LEMMA CompileType ==
  ASSUME NEW m \in Memory, NEW s \in CodePos
  PROVE  Compile(m, s) \in Blocks
<1> DEFINE q == Final(m, s)
<1>1. /\ Length(m, s) \in Nat
      /\ \A k \in 1..Length(m, s) : Fetch(m, At(s, k-1)) \in Byte
  <2>1. Length(m, s) \in 1..Span(s.dir) /\ Span(s.dir) \in Nat
    BY LengthType, SpanType, DirOf
  <2>2. ASSUME NEW k \in 1..Length(m, s) PROVE Fetch(m, At(s, k-1)) \in Byte
    <3>1. k-1 \in 0..Length(m, s)-1
      BY <2>1
    <3> QED BY <3>1, LengthType, FetchType
  <2> QED BY <2>1, <2>2
<1>2. [k \in 1..Length(m, s) |-> Fetch(m, At(s, k-1))] \in Seq(Byte)
  BY <1>1, IsASeq
<1>3. ASSUME IsString(m, s)
      PROVE  StringChars(m, s, q) \in Seq(Byte) /\ AfterString(m, s, q) \in CodePos
  <2> DEFINE e == ScanEnd(m, s, q)
             n == IF Closed(m, s, q) THEN e - 1 ELSE e
  <2>1. e \in Nat /\ e >= 1 /\ \A j \in 1..e : At(q, j) \in CodePos
    BY <1>3, StringScan, SpanType, DirOf
  <2>2. n \in Nat /\ \A j \in 1..n : Fetch(m, At(q, j)) \in Byte
    BY <2>1, FetchType
  <2>3. [j \in 1..n |-> Fetch(m, At(q, j))] \in Seq(Byte)
    <3> HIDE DEF n
    <3> QED BY <2>2, IsASeq
  <2>4. AfterString(m, s, q) \in CodePos
    BY <2>1, StepType DEF AfterString
  <2> QED BY <2>3, <2>4 DEF StringChars
<1>4. q \in CodePos
  BY LengthType
<1>5. Targets(Fetch(m, q), q, s, AfterString(m, s, q)) \in Seq(CodePos)
  <2>1. CASE IsString(m, s)
    BY <1>3, <1>4, <2>1, TargetsType
  <2>2. CASE ~IsString(m, s)
    <3>1. Fetch(m, q) # Quote
      BY <2>2, WrapsNoEnd DEF IsString, EndsBlock
    <3>2. Targets(Fetch(m, q), q, s, AfterString(m, s, q)) = Targets(Fetch(m, q), q, s, s)
      BY <3>1 DEF Targets
    <3> QED BY <1>4, <3>2, TargetsType
  <2> QED BY <2>1, <2>2
<1>6. << >> \in Seq(Byte)
  OBVIOUS
<1> HIDE DEF q
<1> QED BY <1>2, <1>3, <1>5, <1>6 DEF Compile, Blocks, q
(***************************************************************************)
(* The dependencies are complete: a block, and the set of cells it depends *)
(* on, stay what they are as long as those cells keep their values.  This  *)
(* is why InvalidateCoords may leave every other block alone.              *)
(***************************************************************************)
THEOREM DepsComplete ==
  ASSUME NEW m, NEW m2, NEW s \in CodePos,
         \A c \in Deps(m, s) : m2[c] = m[c]
  PROVE  Compile(m2, s) = Compile(m, s) /\ Deps(m2, s) = Deps(m, s)
<1> DEFINE n == StopAt(m, s)
           q == Final(m, s)
           e == ScanEnd(m, s, q)
<1>1. /\ Span(s.dir) \in Nat /\ Span(s.dir) >= 2
      /\ n \in 0..Span(s.dir) /\ Stops(m, s, n)
      /\ \A j \in 0..n-1 : ~Stops(m, s, j)
      /\ Length(m, s) \in 1..Span(s.dir)
  BY SpanType, DirOf, StopAtFirst, LengthType
<1>2. \A i \in 0..Length(m, s)-1 : Fetch(m2, At(s, i)) = Fetch(m, At(s, i))
  BY DEF Deps, Fetch
<1>3. StopAt(m2, s) = n
  <2>1. Stops(m2, s, n)
    <3>1. CASE n = Span(s.dir)
      BY <3>1 DEF Stops
    <3>2. CASE n # Span(s.dir)
      <4>1. n \in 0..Length(m, s)-1
        BY <1>1, <3>2 DEF Length, Wraps
      <4> QED BY <1>1, <1>2, <3>2, <4>1 DEF Stops
    <3> QED BY <3>1, <3>2
  <2>2. ASSUME NEW j \in 0..n-1 PROVE ~Stops(m2, s, j)
    <3>1. j \in 0..Length(m, s)-1
      BY <1>1 DEF Length, Wraps
    <3> QED BY <1>1, <1>2, <3>1 DEF Stops
  <2> HIDE DEF n
  <2> QED BY <1>1, <2>1, <2>2, StopAtUnique
<1>4. /\ Length(m2, s) = Length(m, s) /\ Final(m2, s) = q
      /\ Wraps(m2, s) = Wraps(m, s)
  BY <1>3 DEF Length, Final, Wraps
<1>5. Fetch(m2, q) = Fetch(m, q)
  <2>1. Length(m, s) - 1 \in 0..Length(m, s)-1
    BY <1>1
  <2> QED BY <1>2, <2>1 DEF Final
<1>6. IsString(m2, s) = IsString(m, s)
  BY <1>4, <1>5 DEF IsString
<1>7. ASSUME IsString(m, s)
      PROVE  /\ ScanEnd(m2, s, q) = e
             /\ StringChars(m2, s, q) = StringChars(m, s, q)
             /\ AfterString(m2, s, q) = AfterString(m, s, q)
  <2>1. /\ q \in CodePos /\ q.dir = s.dir /\ Fetch(m, q) = Quote
        /\ e \in 1..Span(s.dir)
    BY <1>7, StringScan
  <2>2. \A j \in 1..e : Fetch(m2, At(q, j)) = Fetch(m, At(q, j))
    BY <1>7 DEF Deps, Fetch
  <2>3. ScanStops(m, s, q, e) /\ \A j \in 1..e-1 : ~ScanStops(m, s, q, j)
    <3> HIDE DEF q
    <3> QED BY <2>1, ScanEndFirst
  <2> HIDE DEF q, e
  <2>4. e \in 1..e /\ \A j \in 1..e-1 : j \in 1..e
    BY <1>1, <2>1
  <2>5. ScanStops(m2, s, q, e) /\ \A j \in 1..e-1 : ~ScanStops(m2, s, q, j)
    BY <2>2, <2>3, <2>4 DEF ScanStops
  <2>6. ScanEnd(m2, s, q) = e
    BY <1>5, <2>1, <2>5, ScanEndUnique
  <2>7. Closed(m2, s, q) = Closed(m, s, q)
    BY <2>2, <2>4, <2>6 DEF Closed, e
  <2>8. StringChars(m2, s, q) = StringChars(m, s, q)
    <3> DEFINE k == IF Closed(m, s, q) THEN e - 1 ELSE e
    <3>1. \A j \in 1..k : Fetch(m2, At(q, j)) = Fetch(m, At(q, j))
      BY <2>1, <2>2, <1>1
    <3>2. /\ StringChars(m2, s, q) = [j \in 1..k |-> Fetch(m2, At(q, j))]
          /\ StringChars(m, s, q) = [j \in 1..k |-> Fetch(m, At(q, j))]
      BY <2>6, <2>7 DEF StringChars, e
    <3> HIDE DEF k
    <3> QED BY <3>1, <3>2
  <2>9. AfterString(m2, s, q) = AfterString(m, s, q)
    BY <2>6, <2>7 DEF AfterString, e
  <2> QED BY <2>6, <2>8, <2>9
<1>8. Deps(m2, s) = Deps(m, s)
  BY <1>4, <1>6, <1>7 DEF Deps
<1>9. [k \in 1..Length(m2, s) |-> Fetch(m2, At(s, k-1))] =
        [k \in 1..Length(m, s) |-> Fetch(m, At(s, k-1))]
  <2>1. ASSUME NEW k \in 1..Length(m, s)
        PROVE  Fetch(m2, At(s, k-1)) = Fetch(m, At(s, k-1))
    <3>1. k-1 \in 0..Length(m, s)-1
      BY <1>1
    <3> QED BY <1>2, <3>1
  <2> QED BY <1>4, <2>1
<1>10. Targets(Fetch(m2, q), q, s, AfterString(m2, s, q)) =
         Targets(Fetch(m, q), q, s, AfterString(m, s, q))
  <2>1. CASE IsString(m, s)
    BY <1>5, <1>7, <2>1
  <2>2. CASE ~IsString(m, s)
    <3>1. Fetch(m, q) # Quote
      BY <2>2, WrapsNoEnd DEF IsString, EndsBlock
    <3> QED BY <1>5, <3>1 DEF Targets
  <2> QED BY <2>1, <2>2
<1> HIDE DEF q
<1> QED BY <1>4, <1>6, <1>7, <1>8, <1>9, <1>10 DEF Compile, q
=============================================================================
