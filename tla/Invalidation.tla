---------------------------- MODULE Invalidation ----------------------------
(***************************************************************************)
(* CodeManager::InvalidateCoords (thunk.cpp) as the loop it is.  Module    *)
(* Jit reverts all the thunks that depend on a cell in one step; the code  *)
(* walks _code_depends of the cell, an unordered_set, with an iterator,    *)
(* and for each position in it erases that position from the sets of the   *)
(* other cells.  Only a test keeps it from erasing from the set it walks;  *)
(* what that test leaves behind is cleared at the end.                     *)
(*                                                                         *)
(* An iteration of the outer loop is one step.  Nothing else of the        *)
(* process happens meanwhile; the other actions are those of module Jit.   *)
(* The history variable saved keeps the state before the store, for the    *)
(* refinement at the end.                                                  *)
(***************************************************************************)
EXTENDS Jit

VARIABLES
  coords,   \* the cell being invalidated, or None
  visited,  \* the positions in its set that the iterator has passed
  saved     \* module Jit's view of the state when the store began, or None

loop == <<coords, visited, saved>>
loopVars == <<vars, loop>>

Idle == coords = None

LoopInit == Init /\ coords = None /\ visited = {} /\ saved = None

-----------------------------------------------------------------------------
\* extern_write_val, up to its call of InvalidateCoords.
Write(c, v) ==
  /\ Idle
  /\ AtInstr({Put})
  /\ mem' = [mem EXCEPT ![c] = v]
  /\ coords' = c
  /\ visited' = {}
  /\ saved' = [mem |-> mem, st |-> st, fwd |-> fwd, rev |-> rev]
  /\ UNCHANGED <<managed, control>>

\* Bug: the test against coords is missing.
EraseEverywhere(depend) ==
  fwd' = [d \in Coord |-> IF d \in rev[depend] THEN fwd[d] \ {depend} ELSE fwd[d]]

\* The inner loop: every cell the position read, but the one being invalidated.
EraseElsewhere(depend) ==
  fwd' = [d \in Coord |-> IF d \in rev[depend] \ {coords} THEN fwd[d] \ {depend} ELSE fwd[d]]

\* One iteration of the outer loop; the order of an unordered_set is open.
Visit(depend) ==
  /\ ~Idle
  /\ depend \in fwd[coords] \ visited
  /\ st' = [st EXCEPT ![depend] = unresolve]
  /\ EraseElsewhere(depend)
  /\ rev' = [rev EXCEPT ![depend] = {}]
  /\ visited' = visited \cup {depend}
  /\ UNCHANGED <<mem, heap, control, coords, saved>>

\* Bug: depends.clear() is missing, the set keeps the positions the loop skipped.
ClearNever == UNCHANGED fwd

\* depends.clear()
ClearDepends == fwd' = [fwd EXCEPT ![coords] = {}]

\* The iterator is at the end; extern_write_val returns to the emitted code.
Return ==
  /\ ~Idle
  /\ fwd[coords] \subseteq visited
  /\ ClearDepends
  /\ ip' = ip + 1
  /\ coords' = None
  /\ visited' = {}
  /\ saved' = None
  /\ UNCHANGED <<mem, st, rev, heap, ctl, pos, blk>>

\* Everything but a store inside the playfield, as in module Jit.
Other ==
  \/ \E a \in Addr : ResolveThunk(a)
  \/ OutOfCodeMemory
  \/ EnterBlock
  \/ Continue
  \/ StoreOutside
  \/ \E k \in 1..4 : Leave(k)
  \/ Stop
  \/ Terminated

LoopNext ==
  \/ \E c \in Coord, v \in StoreVals : Write(c, v)
  \/ \E p \in CodePos : Visit(p)
  \/ Return
  \/ Idle /\ Other /\ UNCHANGED loop

LoopSpec == LoopInit /\ [][LoopNext]_loopVars

\* The processor keeps executing: one thread, nothing to wait for.
LoopFairSpec == LoopSpec /\ WF_loopVars(LoopNext)
-----------------------------------------------------------------------------
(* Properties. *)

(* The set that is walked still has every position the iterator stood on:  *)
(* advancing from an element that has been erased would be undefined.      *)
(* ("dont mess with the container that we are iterating over".)            *)
IteratorValid == ~Idle => visited \subseteq fwd[coords]

(* In whatever order the set is walked, the whole loop does what module    *)
(* Jit's store does at once: exactly the dependent thunks are reverted,    *)
(* and no trace of them is left in either map, the own cell's set          *)
(* included, which the inner loop leaves alone.                            *)
AtOnce == INSTANCE Jit WITH
  mem <- IF Idle THEN mem ELSE saved.mem,
  st  <- IF Idle THEN st  ELSE saved.st,
  fwd <- IF Idle THEN fwd ELSE saved.fwd,
  rev <- IF Idle THEN rev ELSE saved.rev

ImplementsJit == AtOnce!Spec
=============================================================================
