------------------------------- MODULE MCGrid -------------------------------
(***************************************************************************)
(* The playfield of the program, 80 by 25: every position, and every move  *)
(* a compiled jump makes.                                                  *)
(***************************************************************************)
EXTENDS Grid

VARIABLE pos

Init == pos = code_pos(0, 0, RIGHT)

\* A change of direction, or a step along the line.
Advance(d) == pos' = advance_pos(pos, d, 1)

\* '#'
Skip == pos' = advance_pos(pos, pos.dir, 2)

Next == (\E d \in Dirs : Advance(d)) \/ Skip

Spec == Init /\ [][Next]_pos

-----------------------------------------------------------------------------
(* The compiler recovers from a thunk's offset the position it stands for; *)
(* in particular no two positions share a thunk (codepos_to_offset,        *)
(* offset_to_codepos).                                                     *)
ThunkNamesPosition == RoundTripAt(pos)

(* Every position control can reach has its thunk inside the table: the    *)
(* assertion of offset_to_codepos.                                         *)
ThunkInBounds == InTableAt(pos)

(* The playfield is a torus: moving one or two cells over an edge comes in *)
(* at the opposite edge (loop_clamp, which corrects by one turn only).     *)
MovesOnTorus ==
  [][\E n \in {1, 2} :
       LET step == codepos_from_dir[pos'.dir]
       IN  /\ pos'.x = (pos.x + n * step.x) % N_COLS
           /\ pos'.y = (pos.y + n * step.y) % N_ROWS]_pos
=============================================================================
