--------------------------- MODULE MCInvalidation ---------------------------
(* A small instance of module Invalidation for TLC. *)
EXTENDS Invalidation

\* A playfield of three columns and two rows, given row by row.
Field(row0, row1) ==
  [c \in Coord |-> IF c.y = 0 THEN row0[c.x + 1] ELSE row1[c.x + 1]]

Blank == 0

(* A program in which three blocks read the same cell, each of them from   *)
(* another end, and one of these stores into it while it is running.  Each *)
(* '@' it stores brings its end nearer: its blocks fit into four places.   *)
MCCrossing ==
  {Field(<<IfVert, Put, IfHoriz>>, <<Put, Halt, Blank>>)}

(* Other programs whose blocks fit, and that branch, loop, close on themselves,   *)
(* and scan strings.                                                       *)
MCFitting ==
  {Field(<<GoRight, IfHoriz, Halt>>, <<Blank, Blank, Blank>>),
   Field(<<GoDown, Blank, Blank>>, <<IfHoriz, Halt, Halt>>),
   Field(<<Blank, Bridge, Halt>>, <<Blank, Blank, Blank>>),
   Field(<<Quote, Blank, GoDown>>, <<Blank, Blank, Blank>>),
   Field(<<Random, Halt, Halt>>, <<Halt, Blank, Blank>>),
   Field(<<IfVert, Blank, Blank>>, <<GoRight, Blank, Blank>>),
   Field(<<Put, Put, GoDown>>, <<Blank, Halt, Halt>>)}

MCPrograms == MCCrossing \cup MCFitting

MCStoreHalt == {Halt}
=============================================================================
