------------------------------- MODULE Grid -------------------------------
(***************************************************************************)
(* The playfield of befunjit: typedefs.h, vec.h and the address arithmetic *)
(* of utils.h.  A coord_t names a cell; a code_pos_t names a cell together *)
(* with the direction in which execution reaches it, and every code_pos_t  *)
(* owns one entry of the thunk table.                                      *)
(*                                                                         *)
(* The program is built with N_COLS = 80 and N_ROWS = 25; the model keeps  *)
(* both as parameters.                                                     *)
(***************************************************************************)
EXTENDS Integers

CONSTANTS
  N_COLS,   \* width of the playfield
  N_ROWS    \* height of the playfield

(***************************************************************************)
(* loop_clamp corrects by at most one turn, and '#' moves two cells: in a  *)
(* playfield one cell wide or high it would leave the table.               *)
(***************************************************************************)
ASSUME GridAssumption == N_COLS \in Nat \ {0, 1} /\ N_ROWS \in Nat \ {0, 1}

-----------------------------------------------------------------------------
(* Directions, numbered as in enum Dir::DirType. *)

UP    == 0
DOWN  == 1
LEFT  == 2
RIGHT == 3

Dirs == {UP, DOWN, LEFT, RIGHT}

N_DIRS == 4

Coord   == [x : 0..N_COLS-1, y : 0..N_ROWS-1]
CodePos == [x : 0..N_COLS-1, y : 0..N_ROWS-1, dir : Dirs]

to_coord(pos) == [x |-> pos.x, y |-> pos.y]

-----------------------------------------------------------------------------
(* Moving on the torus. *)

\* Bug: the upper edge is treated as still inside.
loop_clamp_off_by_one(v, min, max) ==
  IF v < min THEN v + max ELSE IF v > max THEN v - max ELSE v

loop_clamp(v, min, max) ==
  IF v < min THEN v + max ELSE IF v >= max THEN v - max ELSE v

\* The constructor code_pos_t(x, y, dir): the only place where clamping happens.
code_pos(x, y, dir) ==
  [x |-> loop_clamp(x, 0, N_COLS), y |-> loop_clamp(y, 0, N_ROWS), dir |-> dir]

\* The unit step of a direction, deliberately not clamped.
codepos_from_dir ==
  [d \in Dirs |->
     [x   |-> IF d = LEFT THEN -1 ELSE IF d = RIGHT THEN 1 ELSE 0,
      y   |-> IF d = UP   THEN -1 ELSE IF d = DOWN  THEN 1 ELSE 0,
      dir |-> d]]

advance_pos(pos, dir, steps) ==
  LET delta == codepos_from_dir[dir]
  IN  code_pos(pos.x + delta.x * steps, pos.y + delta.y * steps, dir)

\* The next cell of the line pos is on.
Step(pos) == advance_pos(pos, pos.dir, 1)

\* The number of cells on a line in direction d: after that many it closes.
Span(d) == IF d \in {LEFT, RIGHT} THEN N_COLS ELSE N_ROWS

-----------------------------------------------------------------------------
(***************************************************************************)
(* The thunk table is laid out as [dir][x][y], one entry of 12 bytes each. *)
(* A thunk tells the compiler who it is only by its own address, so the    *)
(* two conversions must be inverse to each other.                          *)
(***************************************************************************)
N_ROWS_COLS == N_ROWS * N_COLS

THUNK_ENTRY_SIZE == 12

STUB_TABLE_SIZE == N_DIRS * N_ROWS_COLS * THUNK_ENTRY_SIZE

\* Bug: the stride of x is the number of columns.
codepos_to_offset_stride(pos) ==
  (pos.dir * N_ROWS_COLS + pos.x * N_COLS + pos.y) * THUNK_ENTRY_SIZE

codepos_to_offset(pos) ==
  (pos.dir * N_ROWS_COLS + pos.x * N_ROWS + pos.y) * THUNK_ENTRY_SIZE

\* Bug: the two table dimensions are swapped with respect to codepos_to_offset.
idx_to_pos_swapped(idx, d) == code_pos(idx % N_COLS, idx \div N_COLS, d)

idx_to_pos(idx, d) == code_pos(idx \div N_ROWS, idx % N_ROWS, d)

offset_to_codepos(offset) ==
  LET table_offset == offset \div THUNK_ENTRY_SIZE
  IN  idx_to_pos(table_offset % N_ROWS_COLS, table_offset \div N_ROWS_COLS)

-----------------------------------------------------------------------------
(***************************************************************************)
(* What the table layout must guarantee.                                   *)
(***************************************************************************)

(* The compiler, handed the offset of the thunk it was called from, finds  *)
(* the position that thunk stands for (resolve_thunk, GetCodePos): no      *)
(* thunk is ever resolved with the code of another position or direction.  *)
RoundTripAt(pos) == offset_to_codepos(codepos_to_offset(pos)) = pos

(* Every position has its thunk inside the table: the assertion of         *)
(* offset_to_codepos cannot fail.                                          *)
InTableAt(pos) ==
  /\ codepos_to_offset(pos) >= 0
  /\ codepos_to_offset(pos) + THUNK_ENTRY_SIZE <= STUB_TABLE_SIZE
=============================================================================
