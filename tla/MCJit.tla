------------------------------- MODULE MCJit -------------------------------
(* Small instances of module Jit for TLC. *)
EXTENDS Jit, TLC

\* A playfield of three columns and two rows, given row by row.
Field(row0, row1) ==
  [c \in Coord |-> IF c.y = 0 THEN row0[c.x + 1] ELSE row1[c.x + 1]]

Blank == 0

(* Self-modifying programs: every first row over these characters that     *)
(* stores at least once, above a blank second row; and programs that end   *)
(* their blocks in the other ways.                                         *)
MCSelfModifying ==
  {Field(r, <<Blank, Blank, Blank>>) :
     r \in {f \in [1..3 -> {Blank, Put, Quote, GoDown}] : \E i \in 1..3 : f[i] = Put}}
  \cup {Field(<<Put, Put, Halt>>, <<Blank, Blank, Blank>>),
        Field(<<Put, Random, Bridge>>, <<Blank, Put, Halt>>),
        Field(<<Put, Bridge, Blank>>, <<Quote, Blank, Quote>>),
        Field(<<Put, IfVert, Blank>>, <<Quote, Halt, Quote>>),
        Field(<<Put, IfHoriz, GoUp>>, <<Blank, Blank, GoLeft>>)}

\* A stored quote opens or closes a string; a stored blank erases an instruction.
MCStoreVals == {Quote, Blank}

(* A loop of a single block, which stores blanks: at any time one piece of *)
(* code is in use, and the store may even leave the playfield as it is.    *)
MCOneBlock == {Field(<<Put, Blank, Blank>>, <<Blank, Blank, Blank>>)}

MCStoreBlank == {Blank}

AddrSymmetry == Permutations(Addr)
=============================================================================
