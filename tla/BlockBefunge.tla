---------------------------- MODULE BlockBefunge ----------------------------
(***************************************************************************)
(* What the compiler and its code cache promise to the Befunge program: as *)
(* if there were no cache at all, and the straight run of instructions     *)
(* from a position were translated anew from the playfield each time       *)
(* control arrives there.  The run is translated as a whole before its     *)
(* first instruction executes, so a 'p' inside it takes effect on the next *)
(* run, not on the rest of this one.                                       *)
(*                                                                         *)
(* Module Jit implements this specification with thunks, dependency maps   *)
(* and code memory.  The Befunge stack is abstracted: 'p' may store any    *)
(* value of StoreVals at any cell, and a conditional jump may go either    *)
(* way.                                                                    *)
(***************************************************************************)
EXTENDS Block

CONSTANTS
  Programs,   \* the playfields the loader may leave in static_memory
  StoreVals,  \* the values a 'p' of these programs may store
  NoCode      \* no block is running

VARIABLES
  mem,    \* G::static_memory
  ctl,    \* where control is: "thunk", "code", "exit", "abort"
  pos,    \* the code position control last jumped to
  code,   \* the block control is in, while ctl = "code"
  ip      \* the index of the next instruction of that block

vars == <<mem, ctl, pos, code, ip>>

Start == [x |-> 0, y |-> 0, dir |-> RIGHT]

Init ==
  /\ mem \in Programs
  /\ ctl = "thunk"
  /\ pos = Start
  /\ code = NoCode
  /\ ip = 0

\* Control arrives at pos: the run from there is translated and entered.
Enter ==
  /\ ctl = "thunk"
  /\ ctl' = "code"
  /\ code' = Compile(mem, pos)
  /\ ip' = 1
  /\ UNCHANGED <<mem, pos>>

\* The machine has run out of room for code.
GiveUp ==
  /\ ctl = "thunk"
  /\ ctl' = "abort"
  /\ UNCHANGED <<mem, pos, code, ip>>

AtInstr(S) == ctl = "code" /\ ip <= Len(code.ins) /\ code.ins[ip] \in S

Continue ==
  /\ AtInstr(Byte \ (EndsBlock \cup {Put}))
  /\ ip' = ip + 1
  /\ UNCHANGED <<mem, ctl, pos, code>>

\* 'p' with a cell inside the playfield.
Store(c, v) ==
  /\ AtInstr({Put})
  /\ mem' = [mem EXCEPT ![c] = v]
  /\ ip' = ip + 1
  /\ UNCHANGED <<ctl, pos, code>>

\* 'p' with coordinates outside the playfield.
StoreOutside ==
  /\ AtInstr({Put})
  /\ ip' = ip + 1
  /\ UNCHANGED <<mem, ctl, pos, code>>

\* The jump that ends a block.
Leave(k) ==
  /\ ctl = "code"
  /\ ip > Len(code.ins) \/ AtInstr(EndsBlock \ {Halt})
  /\ k \in DOMAIN code.exits
  /\ ctl' = "thunk"
  /\ pos' = code.exits[k]
  /\ code' = NoCode
  /\ ip' = 0
  /\ UNCHANGED mem

Stop ==
  /\ AtInstr({Halt})
  /\ ctl' = "exit"
  /\ code' = NoCode
  /\ ip' = 0
  /\ UNCHANGED <<mem, pos>>

Next ==
  \/ Enter
  \/ GiveUp
  \/ Continue
  \/ \E c \in Coord, v \in StoreVals : Store(c, v)
  \/ StoreOutside
  \/ \E k \in 1..4 : Leave(k)
  \/ Stop

Spec == Init /\ [][Next]_vars
=============================================================================
