-------------------------------- MODULE Jit --------------------------------
(***************************************************************************)
(* The just-in-time compiler: the thunk table and the dependency maps of   *)
(* class CodeManager (thunk.h, thunk.cpp), compilation on demand           *)
(* (resolve_thunk, poc_compiler), the code memory the compiled blocks live *)
(* in, and invalidation when the program writes to itself                  *)
(* (extern_write_val, InvalidateCoords).                                   *)
(*                                                                         *)
(* The process has one thread.  A call into the C++ part runs to its end   *)
(* before the emitted code continues, so resolve_thunk and                 *)
(* extern_write_val are one step each; what interleaves is the program's   *)
(* own stores with the lifetime of the blocks compiled from the cells it   *)
(* stores to.                                                              *)
(*                                                                         *)
(* Not part of this module: the Befunge stack (a 'p' stores any of         *)
(* StoreVals anywhere, a conditional jump goes either way).                *)
(***************************************************************************)
EXTENDS Block

CONSTANTS
  Programs,    \* the playfields the loader may leave in static_memory
  StoreVals,   \* the values a 'p' of these programs may store
  Addr,        \* the places for a block in the memory of compiler_init
  f_dispatch,  \* the address of the stub that calls resolve_thunk
  None         \* no block, no address

ASSUME ProgramsAssumption == Programs \subseteq Memory /\ StoreVals \subseteq Byte

ASSUME AddrAssumption == f_dispatch \notin Addr /\ None \notin Addr \cup Blocks

VARIABLES
  mem,     \* G::static_memory
  st,      \* st->entries, the thunk table
  fwd,     \* _code_depends: for a cell, the positions whose block read it
  rev,     \* _code_depends_reverse: for a position, the cells its block read
  heap,    \* code memory: the block at an address, or None when it is free
  ctl,     \* where control is: "thunk", "code", "exit", "abort"
  pos,     \* the code position control last jumped to
  blk,     \* the address of the running block, while ctl = "code"
  ip       \* the index of the next instruction of that block

managed == <<st, fwd, rev, heap>>
control == <<ctl, pos, blk, ip>>
vars == <<mem, managed, control>>

INS_CALL == "call rax"
INS_JUMP == "jmp rax"

Start == [x |-> 0, y |-> 0, dir |-> RIGHT]

-----------------------------------------------------------------------------
(* thunk_entry *)

resolve(target) == [ins_prefix |-> INS_JUMP, addr |-> target]

unresolve == [ins_prefix |-> INS_CALL, addr |-> f_dispatch]

is_resolved(p) == st[p].ins_prefix = INS_JUMP

Entries == {resolve(a) : a \in Addr} \cup {unresolve}

-----------------------------------------------------------------------------
Init ==
  /\ mem \in Programs
  /\ st = [p \in CodePos |-> unresolve]
  /\ fwd = [c \in Coord |-> {}]
  /\ rev = [p \in CodePos |-> {}]
  /\ heap = [a \in Addr |-> None]
  /\ ctl = "thunk"
  /\ pos = Start
  /\ blk = None
  /\ ip = 0

-----------------------------------------------------------------------------
(* resolve_thunk, on the call from an unresolved thunk. *)

\* Bug: the return address is taken for the thunk's own address.
GetCodePosNoDecrement(return_address) == offset_to_codepos(return_address)

\* resolve_thunk is given a return address; GetCodePos turns the thunk's own
\* address back into a position.
GetCodePos(return_address) == offset_to_codepos(return_address - THUNK_ENTRY_SIZE)

\* Bug: a cell remembers only the last position that depends on it.
AddDependenciesLast(p, D) ==
  /\ fwd' = [c \in Coord |-> IF c \in D THEN {p} ELSE fwd[c]]
  /\ rev' = [rev EXCEPT ![p] = @ \cup D]

\* CodeManager::AddDependency for every cell of D, on behalf of position p.
AddDependencies(p, D) ==
  /\ fwd' = [c \in Coord |-> IF c \in D THEN fwd[c] \cup {p} ELSE fwd[c]]
  /\ rev' = [rev EXCEPT ![p] = @ \cup D]

FreeAddr == {a \in Addr : heap[a] = None}

\* The call is a thunk's last instruction: the address it pushes is the thunk's
\* end, counted here from the base of the table.
caller == GetCodePos(codepos_to_offset(pos) + THUNK_ENTRY_SIZE)

ResolveThunk(a) ==
  /\ ctl = "thunk" /\ ~is_resolved(pos)
  /\ a \in FreeAddr                                  \* tlsf_malloc
  /\ \E codepos \in {caller} :
       /\ AddDependencies(codepos, Deps(mem, codepos))
       /\ heap' = [heap EXCEPT ![a] = Compile(mem, codepos)]
       /\ st' = [st EXCEPT ![codepos] = resolve(a)]  \* ResolvePos
  /\ UNCHANGED <<mem, control>>                      \* jmp rax: the same thunk again

\* assert(code_mem != nullptr): the walk is done, its dependencies are recorded.
OutOfCodeMemory ==
  /\ ctl = "thunk" /\ ~is_resolved(pos)
  /\ FreeAddr = {}
  /\ \E codepos \in {caller} : AddDependencies(codepos, Deps(mem, codepos))
  /\ ctl' = "abort"
  /\ UNCHANGED <<mem, st, heap, pos, blk, ip>>

\* A resolved thunk jumps to the code its addr points to.
EnterBlock ==
  /\ ctl = "thunk" /\ is_resolved(pos)
  /\ ctl' = "code"
  /\ blk' = st[pos].addr
  /\ ip' = 1
  /\ UNCHANGED <<mem, managed, pos>>

-----------------------------------------------------------------------------
(* The emitted code. *)

code == heap[blk]

AtInstr(S) == ctl = "code" /\ ip <= Len(code.ins) /\ code.ins[ip] \in S

Continue ==
  /\ AtInstr(Byte \ (EndsBlock \cup {Put}))
  /\ ip' = ip + 1
  /\ UNCHANGED <<mem, managed, ctl, pos, blk>>

\* Bug: only the instruction is changed back, the address still points to the code.
UnresolveKeepAddr(depends) ==
  st' = [p \in CodePos |->
           IF p \in depends THEN [st[p] EXCEPT !.ins_prefix = INS_CALL] ELSE st[p]]

\* Bug: the thunk of the block that is running is left alone.
UnresolveOthers(depends) ==
  st' = [p \in CodePos |-> IF p \in depends \ {pos} THEN unresolve ELSE st[p]]

Unresolve(depends) ==
  st' = [p \in CodePos |-> IF p \in depends THEN unresolve ELSE st[p]]

EraseForward(c, depends) ==
  fwd' = [d \in Coord |->
            IF d = c THEN {} ELSE {p \in fwd[d] : p \notin depends \/ d \notin rev[p]}]

\* Bug: the reverse map is never cleared.
ClearReverseNever(depends) == UNCHANGED rev

ClearReverse(depends) ==
  rev' = [p \in CodePos |-> IF p \in depends THEN {} ELSE rev[p]]

\* Bug: the code is freed at once, as the comment "TODO: free the code" suggests.
ReleaseCodeAtOnce(depends) ==
  heap' = [a \in Addr |->
             IF \E p \in depends : is_resolved(p) /\ st[p].addr = a THEN None ELSE heap[a]]

\* The code of an invalidated thunk stays where it is.
ReleaseCode(depends) == UNCHANGED heap

(* Every block that read cell c loses its thunk, and every trace of it is  *)
(* removed from both dependency maps.                                      *)
InvalidateCoords(c) ==
  /\ Unresolve(fwd[c])
  /\ EraseForward(c, fwd[c])
  /\ ClearReverse(fwd[c])
  /\ ReleaseCode(fwd[c])

\* extern_write_val with a cell inside the playfield.
Store(c, v) ==
  /\ AtInstr({Put})
  /\ mem' = [mem EXCEPT ![c] = v]
  /\ InvalidateCoords(c)
  /\ ip' = ip + 1
  /\ UNCHANGED <<ctl, pos, blk>>

\* extern_write_val returns early: x >= N_COLS || y >= N_ROWS.
StoreOutside ==
  /\ AtInstr({Put})
  /\ ip' = ip + 1
  /\ UNCHANGED <<mem, managed, ctl, pos, blk>>

\* The jump that ends a block: its target is a thunk, never a block.
Leave(k) ==
  /\ ctl = "code"
  /\ ip > Len(code.ins) \/ AtInstr(EndsBlock \ {Halt})
  /\ k \in DOMAIN code.exits
  /\ ctl' = "thunk"
  /\ pos' = code.exits[k]
  /\ blk' = None
  /\ ip' = 0
  /\ UNCHANGED <<mem, managed>>

\* '@': extern_exit ends the process.
Stop ==
  /\ AtInstr({Halt})
  /\ ctl' = "exit"
  /\ blk' = None
  /\ ip' = 0
  /\ UNCHANGED <<mem, managed, pos>>

\* The process is gone.
Terminated == ctl \in {"exit", "abort"} /\ UNCHANGED vars

Next ==
  \/ \E a \in Addr : ResolveThunk(a)
  \/ OutOfCodeMemory
  \/ EnterBlock
  \/ Continue
  \/ \E c \in Coord, v \in StoreVals : Store(c, v)
  \/ StoreOutside
  \/ \E k \in 1..4 : Leave(k)
  \/ Stop
  \/ Terminated

Spec == Init /\ [][Next]_vars
-----------------------------------------------------------------------------
(* Properties. *)

(* The one property about types.  For the thunk table it says more: an     *)
(* entry is a jump to code memory or a call to the dispatcher, never one   *)
(* instruction with the other's address (resolve, unresolve write both).   *)
TypeOK ==
  /\ mem \in Memory
  /\ st \in [CodePos -> Entries]
  /\ fwd \in [Coord -> SUBSET CodePos]
  /\ rev \in [CodePos -> SUBSET Coord]
  /\ heap \in [Addr -> Blocks \cup {None}]
  /\ ctl \in {"thunk", "code", "exit", "abort"}
  /\ pos \in CodePos
  /\ blk \in Addr \cup {None}
  /\ ip \in Nat

(* Coherence of the code cache: the code a resolved thunk jumps to is what *)
(* the compiler would produce for that position from the playfield as it   *)
(* is now, whatever the program stored since (InvalidateCoords reaches     *)
(* every block that read the cell, strings scanned ahead included).        *)
CodeIsFresh ==
  \A p \in CodePos : is_resolved(p) => heap[st[p].addr] = Compile(mem, p)

(* The two dependency maps are each other's inverse: InvalidateCoords      *)
(* erases through one what AddDependency entered in both.                  *)
DependsMirror ==
  \A c \in Coord, p \in CodePos : p \in fwd[c] <=> c \in rev[p]

(* A thunk is registered exactly for the cells its present code was        *)
(* compiled from: nothing is left over from code it had before, and a      *)
(* position without code is registered nowhere.  (When code memory runs    *)
(* out the dependencies of the failed compilation remain; the process      *)
(* aborts there.)                                                          *)
DependsExact ==
  ctl # "abort" =>
    \A p \in CodePos : rev[p] = IF is_resolved(p) THEN Deps(mem, p) ELSE {}

(* Every block has its code memory to itself: no two thunks jump to the    *)
(* same code.  A block that overwrites its own cells keeps running after   *)
(* its thunk is invalidated, in memory that is still allocated and that no *)
(* thunk but the one it was entered through leads to, however often that   *)
(* position is compiled again.                                             *)
CodeMemoryOwned ==
  /\ ctl = "code" => heap[blk] # None
  /\ \A p \in CodePos : is_resolved(p) =>
       /\ ctl = "code" /\ st[p].addr = blk => p = pos
       /\ \A q \in CodePos \ {p} : is_resolved(q) => st[q].addr # st[p].addr

(* A store leaves a thunk resolved if and only if its code was not         *)
(* compiled from the stored cell, whatever was compiled and stored before: *)
(* code is neither kept too long, be it that of the block that is storing, *)
(* nor thrown away needlessly, even when the cell keeps its value.         *)
StoreInvalidatesExactly ==
  [][\A c \in Coord, v \in StoreVals :
       Store(c, v) =>
         \A p \in CodePos :
           is_resolved(p)' <=> is_resolved(p) /\ c \notin Deps(mem, p)]_vars

(* Control that has jumped to a thunk gets to compiled code: the compiler   *)
(* resolves the thunk it was called from, so the second jump through it    *)
(* does not come back to the compiler.  (For programs whose blocks fit     *)
(* into code memory.)                                                      *)
ReachesCode == ctl = "thunk" ~> ctl = "code"

(* The cache is transparent: with the running block read through blk, the  *)
(* just-in-time compiler is the machine that translates every run afresh.  *)
Running == IF ctl = "code" THEN heap[blk] ELSE None

Uncached == INSTANCE BlockBefunge WITH NoCode <- None, code <- Running

ImplementsUncached == Uncached!Spec

-----------------------------------------------------------------------------
(* What the documents of the repository say, and the code does not do.     *)

(* compile.cpp: assert(code_mem != nullptr), on every call of the          *)
(* compiler.                                                               *)
CodeMemoryFound == ctl # "abort"
=============================================================================
