----------------------------- MODULE MCCompiler -----------------------------
(* Small instances of modules Compiler and CodeSize for TLC. *)
EXTENDS CodeSize

\* Of the characters that continue a block, 'g' is one with the longest code.
GetCell == 103

\* A byte whose push needs an immediate of 32 bits; outside a string it does nothing.
HighByte == 200

Chars == {GetCell, HighByte, Quote, Bridge, IfHoriz, Random}

\* One line: every playfield that is blank outside the first row, and the
\* transposed ones, with the given characters on the line.
MCPrograms ==
  {[c \in Coord |-> IF c.y = 0 THEN line[c.x] ELSE 0] : line \in [0..N_COLS-1 -> Chars]}
  \cup
  {[c \in Coord |-> IF c.x = 0 THEN line[c.y] ELSE 0] : line \in [0..N_ROWS-1 -> Chars]}
=============================================================================
