------------------------------- MODULE Block -------------------------------
(***************************************************************************)
(* What poc_compiler (compile.cpp) produces for a code position, as a      *)
(* function of the playfield: the block of code Compile(m, s) and the set  *)
(* of cells Deps(m, s) it registers with AddDependency.                    *)
(*                                                                         *)
(* A block is a straight run: it starts at s and follows the line of s     *)
(* until an instruction that moves control, or until the line closes on    *)
(* itself.  Instructions between are compiled one after the other.  A      *)
(* quote makes the compiler scan ahead and turn the whole string into      *)
(* pushes.  The definitions below say which cell ends each of the two      *)
(* loops; module Compiler runs the loops themselves and is checked, and    *)
(* proved, to end with what is defined here.                               *)
(***************************************************************************)
EXTENDS Grid, Sequences

Byte == 0..255

Memory == [Coord -> Byte]            \* G::static_memory

-----------------------------------------------------------------------------
(* The characters the compiler gives a meaning to, by their ASCII codes.   *)
(* Every other character is either an arithmetic, stack or I/O             *)
(* instruction or does nothing: all of them just continue the block.       *)

Quote    == 34    \* "
Bridge   == 35    \* #
GoLeft   == 60    \* <
GoRight  == 62    \* >
Random   == 63    \* ?
Halt     == 64    \* @
GoUp     == 94    \* ^
IfHoriz  == 95    \* _
Put      == 112   \* p
GoDown   == 118   \* v
IfVert   == 124   \* |

\* The cases of the switch that set jump_target or emitted_jump.
EndsBlock ==
  {Quote, Bridge, GoLeft, GoRight, Random, Halt, GoUp, IfHoriz, GoDown, IfVert}

-----------------------------------------------------------------------------
(* The main loop: cells At(s, 0), At(s, 1), ... until one ends the block.  *)

At(s, i) == advance_pos(s, s.dir, i)

Fetch(m, pos) == m[to_coord(pos)]

\* The walk ends at index i: an instruction that moves control, or the start again.
Stops(m, s, i) == i = Span(s.dir) \/ Fetch(m, At(s, i)) \in EndsBlock

StopAt(m, s) ==
  CHOOSE n \in 0..Span(s.dir) :
    Stops(m, s, n) /\ \A j \in 0..n-1 : ~Stops(m, s, j)

Wraps(m, s) == StopAt(m, s) = Span(s.dir)

\* Number of cells compiled as instructions.
Length(m, s) == IF Wraps(m, s) THEN Span(s.dir) ELSE StopAt(m, s) + 1

\* The position of the last instruction compiled.
Final(m, s) == At(s, Length(m, s) - 1)

IsString(m, s) == ~Wraps(m, s) /\ Fetch(m, Final(m, s)) = Quote

-----------------------------------------------------------------------------
(* The inner loop, from the quote at q: cells At(q, 1), At(q, 2), ...  The *)
(* test against the start comes only after a character has been pushed.    *)

ScanStops(m, s, q, j) == Fetch(m, At(q, j)) = Quote \/ Step(At(q, j)) = s

ScanEnd(m, s, q) ==
  CHOOSE n \in 1..Span(s.dir) :
    ScanStops(m, s, q, n) /\ \A j \in 1..n-1 : ~ScanStops(m, s, q, j)

Closed(m, s, q) == Fetch(m, At(q, ScanEnd(m, s, q))) = Quote

\* The characters the block pushes: the closing quote is not one of them.
StringChars(m, s, q) ==
  [j \in 1..(IF Closed(m, s, q) THEN ScanEnd(m, s, q) - 1 ELSE ScanEnd(m, s, q))
     |-> Fetch(m, At(q, j))]

AfterString(m, s, q) ==
  IF Closed(m, s, q) THEN Step(At(q, ScanEnd(m, s, q))) ELSE s

-----------------------------------------------------------------------------
(***************************************************************************)
(* Where the block's final jump may go, in the order the code lists the    *)
(* targets: for '_' and '|' the zero case first, for '?' the jump table.   *)
(***************************************************************************)
Targets(c, cur, s, after) ==
  CASE c = GoRight -> << advance_pos(cur, RIGHT, 1) >>
    [] c = GoLeft  -> << advance_pos(cur, LEFT, 1) >>
    [] c = GoUp    -> << advance_pos(cur, UP, 1) >>
    [] c = GoDown  -> << advance_pos(cur, DOWN, 1) >>
    [] c = Bridge  -> << advance_pos(cur, cur.dir, 2) >>
    [] c = IfHoriz -> << advance_pos(cur, RIGHT, 1), advance_pos(cur, LEFT, 1) >>
    [] c = IfVert  -> << advance_pos(cur, DOWN, 1), advance_pos(cur, UP, 1) >>
    [] c = Random  -> << advance_pos(cur, UP, 1), advance_pos(cur, DOWN, 1),
                         advance_pos(cur, LEFT, 1), advance_pos(cur, RIGHT, 1) >>
    [] c = Halt    -> << >>
    [] c = Quote   -> << after >>
    [] OTHER       -> << s >>          \* the line closed on itself

(* A compiled block: the characters compiled as instructions, the          *)
(* characters its string pushes, and the thunks it may jump to at the end. *)
Blocks == [ins : Seq(Byte), str : Seq(Byte), exits : Seq(CodePos)]

Compile(m, s) ==
  LET q == Final(m, s)
  IN  [ins   |-> [k \in 1..Length(m, s) |-> Fetch(m, At(s, k-1))],
       str   |-> IF IsString(m, s) THEN StringChars(m, s, q) ELSE << >>,
       exits |-> Targets(Fetch(m, q), q, s, AfterString(m, s, q))]

\* Bug: the scan of a string registers no dependencies.
DepsWithoutString(m, s) ==
  {to_coord(At(s, i)) : i \in 0..Length(m, s)-1}

Deps(m, s) ==
  {to_coord(At(s, i)) : i \in 0..Length(m, s)-1}
  \cup (IF IsString(m, s)
        THEN LET q == Final(m, s)
             IN  {to_coord(At(q, j)) : j \in 1..ScanEnd(m, s, q)}
        ELSE {})
=============================================================================
