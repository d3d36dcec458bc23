----------------------------- MODULE GridProofs -----------------------------
(***************************************************************************)
(* Every walk over a playfield of any size: it stays on the torus, and     *)
(* every position it reaches has a thunk of its own, inside the table.     *)
(***************************************************************************)
EXTENDS MCGrid, BlockProofs

-----------------------------------------------------------------------------
\* One turn is all loop_clamp has to correct for a move of up to two cells.
LEMMA ClampIsModulo ==
  ASSUME NEW n \in Nat \ {0, 1}, NEW a \in 0..n-1, NEW k \in -2..2
  PROVE  loop_clamp(a + k, 0, n) = (a + k) % n
<1>1. CASE a + k < 0
  <2>1. a + k + n \in 0..n-1 /\ loop_clamp(a + k, 0, n) = a + k + n
    BY <1>1 DEF loop_clamp
  <2> QED BY <1>1, <2>1, Z3
<1>2. CASE a + k \in 0..n-1
  <2>1. loop_clamp(a + k, 0, n) = a + k
    BY <1>2 DEF loop_clamp
  <2> QED BY <1>2, <2>1, Z3
<1>3. CASE a + k >= n
  <2>1. a + k - n \in 0..n-1 /\ loop_clamp(a + k, 0, n) = a + k - n
    BY <1>3 DEF loop_clamp
  <2> QED BY <1>3, <2>1, Z3
<1> QED BY <1>1, <1>2, <1>3

\* A move of one or two cells in direction d.
LEMMA AdvanceIsModulo ==
  ASSUME NEW p \in CodePos, NEW d \in Dirs, NEW n \in {1, 2},
         NEW q, q = advance_pos(p, d, n)
  PROVE  /\ q \in CodePos /\ q.dir = d
         /\ q.x = (p.x + n * codepos_from_dir[d].x) % N_COLS
         /\ q.y = (p.y + n * codepos_from_dir[d].y) % N_ROWS
<1>1. /\ N_COLS \in Nat \ {0, 1} /\ N_ROWS \in Nat \ {0, 1}
      /\ p.x \in 0..N_COLS-1 /\ p.y \in 0..N_ROWS-1
  BY GridAssumption DEF CodePos
<1>2. n \in 0..Span(d)
  BY <1>1 DEF Span
<1>3. q \in CodePos /\ q.dir = d
  BY <1>2, AdvanceType
<1> DEFINE dx == codepos_from_dir[d].x
           dy == codepos_from_dir[d].y
<1>4. dx \in {-1, 0, 1} /\ dy \in {-1, 0, 1}
  BY DEF codepos_from_dir
<1>5. /\ q.x = loop_clamp(p.x + dx * n, 0, N_COLS)
      /\ q.y = loop_clamp(p.y + dy * n, 0, N_ROWS)
  BY DEF advance_pos, code_pos
<1> HIDE DEF dx, dy
<1>6. /\ dx * n \in -2..2 /\ dx * n = n * dx
      /\ dy * n \in -2..2 /\ dy * n = n * dy
  BY <1>4
<1>7. q.x = (p.x + dx * n) % N_COLS /\ q.y = (p.y + dy * n) % N_ROWS
  BY <1>1, <1>5, <1>6, ClampIsModulo
<1> QED BY <1>3, <1>6, <1>7 DEF dx, dy

\* A step of the walk is such a move.
LEMMA WalkStep ==
  ASSUME pos \in CodePos, Next
  PROVE  \E d \in Dirs, n \in {1, 2} : pos' = advance_pos(pos, d, n)
BY DirOf DEF Next, Advance, Skip

OnPlayfield == pos \in CodePos

\* loop_clamp never leaves a coordinate outside the playfield.
LEMMA WalkInvariance == Spec => []OnPlayfield
<1>1. Init => OnPlayfield
  BY GridAssumption DEF Init, code_pos, loop_clamp, CodePos, Dirs, OnPlayfield
<1>2. OnPlayfield /\ [Next]_pos => OnPlayfield'
  BY WalkStep, AdvanceIsModulo DEF OnPlayfield
<1> QED BY <1>1, <1>2, PTL DEF Spec

-----------------------------------------------------------------------------
(***************************************************************************)
(* On a playfield of any size, a thunk's address names the position        *)
(* control comes through.                                                  *)
(***************************************************************************)
THEOREM WalkNamesPosition == Spec => []ThunkNamesPosition
<1>1. OnPlayfield => ThunkNamesPosition
  BY TableRoundTrip DEF OnPlayfield, ThunkNamesPosition
<1> QED BY <1>1, WalkInvariance, PTL

\* Wherever control goes, its thunk is inside the table.
THEOREM WalkStaysInTable == Spec => []ThunkInBounds
<1>1. OnPlayfield => ThunkInBounds
  BY ThunkInTable DEF OnPlayfield, ThunkInBounds
<1> QED BY <1>1, WalkInvariance, PTL

(***************************************************************************)
(* The playfield is a torus of any size of at least two by two: the one    *)
(* correction of loop_clamp is the remainder, also for the two cells of    *)
(* '#'.                                                                    *)
(***************************************************************************)
THEOREM WalkOnTorus == Spec => MovesOnTorus
<1> DEFINE A == \E n \in {1, 2} :
       LET step == codepos_from_dir[pos'.dir]
       IN  /\ pos'.x = (pos.x + n * step.x) % N_COLS
           /\ pos'.y = (pos.y + n * step.y) % N_ROWS
<1>1. OnPlayfield /\ [Next]_pos => [A]_pos
  <2> SUFFICES ASSUME pos \in CodePos, Next PROVE A
    BY DEF OnPlayfield
  <2>1. PICK d \in Dirs, n \in {1, 2} : pos' = advance_pos(pos, d, n)
    BY WalkStep
  <2> QED BY <2>1, AdvanceIsModulo
<1> HIDE DEF A
<1>2. Spec => [][A]_pos
  BY <1>1, WalkInvariance, PTL DEF Spec
<1> QED BY <1>2 DEF MovesOnTorus, A
=============================================================================
