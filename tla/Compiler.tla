------------------------------ MODULE Compiler ------------------------------
(***************************************************************************)
(* One call of poc_compiler (compile.cpp), loop iteration by loop          *)
(* iteration: the walk along the line of the start position, and the scan  *)
(* of a string inside it.  Each step reads one cell, registers the         *)
(* dependency on it, and emits code.                                       *)
(*                                                                         *)
(* The playfield does not change during the call.  Module Block says in    *)
(* closed form what the call returns; here that is a property.             *)
(***************************************************************************)
EXTENDS Block

CONSTANT
  Programs    \* the playfields the compiler may be run on

ASSUME ProgramsAssumption == Programs \subseteq Memory

VARIABLES
  mem,      \* G::static_memory
  start,    \* start_pos
  cur,      \* cur_pos
  scan,     \* scan_pos
  phase,    \* which loop the call is in: "walk", "scan", "done"
  deps,     \* the cells AddDependency was called with
  ins,      \* the instructions emitted
  str,      \* the characters emitted as pushes
  exits     \* the targets of the final jump

vars == <<mem, start, cur, scan, phase, deps, ins, str, exits>>

Init ==
  /\ mem \in Programs
  /\ start \in CodePos
  /\ cur = start
  /\ scan = start
  /\ phase = "walk"
  /\ deps = {}
  /\ ins = << >>
  /\ str = << >>
  /\ exits = << >>

\* One iteration of the outer loop: the dependency first, then the switch.
Visit(S) ==
  /\ phase = "walk"
  /\ Fetch(mem, cur) \in S
  /\ deps' = deps \cup {to_coord(cur)}
  /\ ins' = Append(ins, Fetch(mem, cur))

\* Bug: a line is taken to close where position and direction recur one cell late.
EmitLate ==
  /\ Visit(Byte \ EndsBlock)
  /\ cur' = Step(cur)
  /\ IF cur = start /\ Len(ins) > 0
     THEN phase' = "done" /\ exits' = << start >>
     ELSE UNCHANGED <<phase, exits>>
  /\ UNCHANGED <<mem, start, scan, str>>

\* Bug: nothing tests for a closed line.
EmitNoWrap ==
  /\ Visit(Byte \ EndsBlock)
  /\ cur' = Step(cur)
  /\ UNCHANGED <<mem, start, scan, phase, str, exits>>

\* An instruction that continues the block, then the test for a closed line.
Emit ==
  /\ Visit(Byte \ EndsBlock)
  /\ cur' = Step(cur)
  /\ IF to_coord(cur') = to_coord(start)
     THEN phase' = "done" /\ exits' = << start >>
     ELSE UNCHANGED <<phase, exits>>
  /\ UNCHANGED <<mem, start, scan, str>>

EmitJump ==
  /\ Visit(EndsBlock \ {Quote})
  /\ exits' = Targets(Fetch(mem, cur), cur, start, start)
  /\ phase' = "done"
  /\ UNCHANGED <<mem, start, cur, scan, str>>

OpenString ==
  /\ Visit({Quote})
  /\ scan' = Step(cur)
  /\ phase' = "scan"
  /\ UNCHANGED <<mem, start, cur, str, exits>>

\* One iteration of the inner loop on a character of the string.
ScanPush ==
  /\ phase = "scan"
  /\ Fetch(mem, scan) # Quote
  /\ deps' = deps \cup {to_coord(scan)}
  /\ str' = Append(str, Fetch(mem, scan))
  /\ scan' = Step(scan)
  /\ IF scan' = start
     THEN phase' = "done" /\ exits' = << start >>
     ELSE UNCHANGED <<phase, exits>>
  /\ UNCHANGED <<mem, start, cur, ins>>

\* Bug: the closing quote is matched but not depended on.
ScanCloseNoDep ==
  /\ phase = "scan"
  /\ Fetch(mem, scan) = Quote
  /\ exits' = << Step(scan) >>
  /\ phase' = "done"
  /\ UNCHANGED <<mem, start, cur, scan, deps, ins, str>>

\* Bug: the loop is not left at the closing quote.
ScanCloseNoBreak ==
  /\ phase = "scan"
  /\ Fetch(mem, scan) = Quote
  /\ deps' = deps \cup {to_coord(scan)}
  /\ exits' = << Step(scan) >>
  /\ UNCHANGED <<mem, start, cur, scan, phase, ins, str>>

ScanClose ==
  /\ phase = "scan"
  /\ Fetch(mem, scan) = Quote
  /\ deps' = deps \cup {to_coord(scan)}
  /\ exits' = << Step(scan) >>
  /\ phase' = "done"
  /\ UNCHANGED <<mem, start, cur, scan, ins, str>>

Returned == phase = "done" /\ UNCHANGED vars

Next == Emit \/ EmitJump \/ OpenString \/ ScanPush \/ ScanClose \/ Returned

Spec == Init /\ [][Next]_vars

FairSpec == Spec /\ WF_vars(Next)

-----------------------------------------------------------------------------
(* Properties. *)

TypeOK ==
  /\ mem \in Memory
  /\ start \in CodePos /\ cur \in CodePos /\ scan \in CodePos
  /\ phase \in {"walk", "scan", "done"}
  /\ deps \in SUBSET Coord
  /\ ins \in Seq(Byte) /\ str \in Seq(Byte) /\ exits \in Seq(CodePos)

(* The two loops of the compiler return the block module Block defines,    *)
(* closed strings, unterminated strings and lines that close on themselves *)
(* included.                                                               *)
ReturnsCompile ==
  phase = "done" => [ins |-> ins, str |-> str, exits |-> exits] = Compile(mem, start)

(* When the call returns it has registered a dependency on exactly the     *)
(* cells the block is defined to depend on.                                *)
RegistersDeps == phase = "done" => deps = Deps(mem, start)

(* "Stop if we wrap back to the start to avoid infinite loops": every call *)
(* returns, on every playfield and from every position.                    *)
Returns == <>(phase = "done")

-----------------------------------------------------------------------------
(* What a comment says, and the code does not do. *)

(* compile.cpp:292: "Walk forward, pushing each character until the next   *)
(* quote.  Stop if we wrap back to the start".  Then the scan would never  *)
(* be at the start position.                                               *)
StopsAtStart == phase = "scan" => scan # start
=============================================================================
