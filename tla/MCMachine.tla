----------------------------- MODULE MCMachine -----------------------------
(* Small instances of module Machine for TLC. *)
EXTENDS Machine, TLC

\* A playfield whose first rows are the given lines, followed by zeros.
Field(rows) ==
  [c \in Coord |->
     IF c.y < Len(rows) /\ c.x < Len(rows[c.y + 1]) THEN rows[c.y + 1][c.x + 1] ELSE 0]

Blank == 32
Digit0 == 48
Digit1 == 49
Subtract == 45
GetChar == 126
GetInt  == 38
PrintChar == 44

(* Programs that read and write themselves: every line of four over blank, *)
(* quote, 'p', 'g', ':' and '1', and one that erases the closing quote of   *)
(* its own string.                                                         *)
MCSelfModifying ==
  {Field(<< r >>) : r \in [1..4 -> {Blank, Quote, Put, 103, 58, Digit1}]}
  \cup {Field(<< << 53, 48, Put, Quote, Blank, Quote >> >>)}

(* Programs that compute and move: every line of three over '1', '!', '/', *)
(* '`', '_', '|', '?', '#', '@', '~' and '&', above '<', '\' and '^'.       *)
MCComputing ==
  {Field(<< r, << GoLeft, 92, GoUp >> >>) :
     r \in [1..3 -> {Digit1, 33, 47, 96, IfHoriz, IfVert, Random, Bridge, Halt, GetChar, GetInt}]}

(* The samples of the repository that fit: p0, p1 and g0. *)
MCSamples ==
  {Field(<< r >>) : r \in
     {<< 52, 56, 42, 92, 58, Put >>,
      << 56, 56, 42, 92, 58, Put >>,
      << 52, 48, 103, PrintChar, Halt >>}}

(* Programs that put and get outside the playfield: x or y is -1 ("101-0p", *)
(* "1001-p", "01-0gp", "001-gp").                                          *)
MCOutside ==
  {Field(<< r >>) : r \in
     {<< Digit1, Digit0, Digit1, Subtract, Digit0, Put >>,
      << Digit1, Digit0, Digit0, Digit1, Subtract, Put >>,
      << Digit0, Digit1, Subtract, Digit0, 103, Put >>,
      << Digit0, Digit0, Digit1, Subtract, 103, Put >>}}

MCPrograms == MCSelfModifying \cup MCComputing \cup MCSamples \cup MCOutside

\* samples/cat.txt
MCCat == {Field(<< << GetChar, 58, 49, 43, 33, Bridge, Halt, IfHoriz, PrintChar >> >>)}

\* Zero, a byte above 127, minus two; and a number too large.
MCInputs == {<< 48, 32, 200, 45, 50 >>, << 57, 57, 57, 57 >>}

MCLetter == {<< 65 >>}

MCByte == Byte

AddrSymmetry == Permutations(Addr)
=============================================================================
