------------------------------ MODULE JitProofs ------------------------------
(***************************************************************************)
(* The just-in-time compiler is correct for every playfield, every set of  *)
(* programs and every amount of code memory: its code cache is coherent,   *)
(* its dependency maps are exact, and it implements the machine that has   *)
(* no cache.                                                               *)
(***************************************************************************)
EXTENDS Jit, BlockProofs

(***************************************************************************)
(* The inductive invariant.  Coherence after a store rests on the          *)
(* dependency maps being exact, and on DepsComplete: a thunk that survives *)
(* the store was compiled without reading the cell.                        *)
(***************************************************************************)
Running_OK == ctl = "code" => blk \in Addr /\ heap[blk] \in Blocks

IInv ==
  /\ TypeOK
  /\ CodeIsFresh
  /\ DependsMirror
  /\ DependsExact
  /\ CodeMemoryOwned
  /\ Running_OK

-----------------------------------------------------------------------------
(* Thunk entries. *)

\* The prefix tells a resolved thunk from an unresolved one.
LEMMA PrefixOf ==
  /\ \A a : resolve(a).ins_prefix = INS_JUMP /\ resolve(a).addr = a
  /\ unresolve.ins_prefix # INS_JUMP
BY DEF resolve, unresolve, INS_CALL, INS_JUMP

\* A thunk is one or the other, and has code memory in the first case.
LEMMA EntryCases ==
  ASSUME TypeOK, NEW p \in CodePos
  PROVE  /\ is_resolved(p) => \E a \in Addr : st[p] = resolve(a)
         /\ is_resolved(p) => st[p].addr \in Addr
         /\ ~is_resolved(p) => st[p] = unresolve
<1>1. st[p] \in Entries
  BY DEF TypeOK
<1>2. CASE \E a \in Addr : st[p] = resolve(a)
  BY <1>2, PrefixOf DEF is_resolved
<1>3. CASE st[p] = unresolve
  BY <1>3, PrefixOf DEF is_resolved
<1> QED BY <1>1, <1>2, <1>3 DEF Entries

\* resolve_thunk finds the position whose thunk called it.
LEMMA CallerIsPos ==
  ASSUME TypeOK
  PROVE  caller = pos
<1>1. pos \in CodePos
  BY DEF TypeOK
<1>2. codepos_to_offset(pos) \in Int
  <2>1. /\ pos.dir \in Int /\ pos.y \in Int /\ N_ROWS_COLS \in Int
        /\ pos.x * N_ROWS + pos.y \in Int
    BY <1>1, PlaneIndex DEF CodePos, Dirs, UP, DOWN, LEFT, RIGHT
  <2>2. pos.dir * N_ROWS_COLS \in Int /\ pos.x * N_ROWS \in Int
    BY <1>1, <2>1, GridAssumption DEF CodePos
  <2>3. pos.dir * N_ROWS_COLS + pos.x * N_ROWS + pos.y \in Int
    BY <2>1, <2>2
  <2> QED BY <2>3 DEF codepos_to_offset, THUNK_ENTRY_SIZE
<1>3. (codepos_to_offset(pos) + THUNK_ENTRY_SIZE) - THUNK_ENTRY_SIZE = codepos_to_offset(pos)
  BY <1>2 DEF THUNK_ENTRY_SIZE
<1>4. offset_to_codepos(codepos_to_offset(pos)) = pos
  BY <1>1, TableRoundTrip DEF RoundTripAt
<1> QED BY <1>3, <1>4 DEF caller, GetCodePos

-----------------------------------------------------------------------------
(* The invariant holds at first. *)

\* The program starts at a position.
LEMMA StartType == Start \in CodePos
BY GridAssumption DEF Start, CodePos, Dirs, RIGHT

\* No thunk is resolved and no dependency recorded in the table the constructor builds.
LEMMA InitIInv == Init => IInv
<1> SUFFICES ASSUME Init PROVE IInv
  OBVIOUS
<1> USE DEF Init
<1>1. TypeOK
  BY StartType, ProgramsAssumption DEF TypeOK, Entries
<1>2. \A p \in CodePos : ~is_resolved(p)
  BY PrefixOf DEF is_resolved
<1>3. CodeIsFresh /\ DependsExact
  BY <1>2 DEF CodeIsFresh, DependsExact
<1>4. DependsMirror /\ CodeMemoryOwned /\ Running_OK
  BY <1>2 DEF DependsMirror, CodeMemoryOwned, Running_OK
<1> QED BY <1>1, <1>3, <1>4 DEF IInv

-----------------------------------------------------------------------------
(* Steps of the compiler. *)

\* A call of AddDependency adds to both maps.
LEMMA AddDependenciesMirror ==
  ASSUME TypeOK, DependsMirror,
         NEW p \in CodePos, NEW D \in SUBSET Coord, AddDependencies(p, D)
  PROVE  /\ fwd' \in [Coord -> SUBSET CodePos] /\ rev' \in [CodePos -> SUBSET Coord]
         /\ DependsMirror'
         /\ rev'[p] = rev[p] \cup D
         /\ \A r \in CodePos \ {p} : rev'[r] = rev[r]
BY DEF TypeOK, DependsMirror, AddDependencies

\* Compiling a block: its thunk is resolved to the code and the cells it read are registered.
LEMMA ResolveThunkIInv ==
  ASSUME IInv, NEW a \in Addr, ResolveThunk(a)
  PROVE  IInv'
<1> USE DEF IInv
<1>1. /\ TypeOK /\ pos \in CodePos /\ mem \in Memory /\ caller = pos
      /\ ~is_resolved(pos) /\ ctl = "thunk" /\ heap[a] = None
  BY CallerIsPos DEF TypeOK, ResolveThunk, FreeAddr
<1>2. /\ AddDependencies(pos, Deps(mem, pos))
      /\ heap' = [heap EXCEPT ![a] = Compile(mem, pos)]
      /\ st' = [st EXCEPT ![pos] = resolve(a)]
      /\ pos' = pos /\ mem' = mem /\ ctl' = ctl /\ blk' = blk /\ ip' = ip
  BY <1>1 DEF ResolveThunk, control
<1>3. Deps(mem, pos) \in SUBSET Coord /\ Compile(mem, pos) \in Blocks
  BY <1>1, DepsType, CompileType
<1>4. TypeOK'
  <2>1. st' \in [CodePos -> Entries]
    BY <1>1, <1>2 DEF TypeOK, Entries
  <2>2. heap' \in [Addr -> Blocks \cup {None}]
    BY <1>2, <1>3 DEF TypeOK
  <2>3. fwd' \in [Coord -> SUBSET CodePos] /\ rev' \in [CodePos -> SUBSET Coord]
    BY <1>1, <1>2, <1>3, AddDependenciesMirror
  <2> QED BY <1>1, <1>2, <2>1, <2>2, <2>3 DEF TypeOK
<1>5. \A p \in CodePos : is_resolved(p)' <=> is_resolved(p) \/ p = pos
  BY <1>1, <1>2, PrefixOf DEF TypeOK, is_resolved
<1>6. CodeIsFresh'
  <2> SUFFICES ASSUME NEW p \in CodePos, is_resolved(p)'
               PROVE  heap'[st'[p].addr] = Compile(mem, p)
    BY <1>2 DEF CodeIsFresh
  <2>1. CASE p = pos
    <3>1. st'[p].addr = a
      BY <1>1, <1>2, <2>1, PrefixOf DEF TypeOK
    <3>2. heap'[a] = Compile(mem, pos)
      BY <1>1, <1>2 DEF TypeOK
    <3> QED BY <2>1, <3>1, <3>2
  <2>2. CASE p # pos
    <3>1. st'[p] = st[p] /\ is_resolved(p)
      BY <1>1, <1>2, <1>5, <2>2 DEF TypeOK
    <3>2. heap[st[p].addr] = Compile(mem, p) /\ st[p].addr \in Addr
      BY <3>1, EntryCases DEF CodeIsFresh
    <3>3. st[p].addr # a
      BY <1>1, <3>2, CompileType, AddrAssumption
    <3> QED BY <1>1, <1>2, <3>1, <3>2, <3>3 DEF TypeOK
  <2> QED BY <2>1, <2>2
<1>7. DependsMirror'
  BY <1>1, <1>2, <1>3, AddDependenciesMirror
<1>8. DependsExact'
  <2>1. rev[pos] = {}
    BY <1>1 DEF DependsExact
  <2>2. rev'[pos] = Deps(mem, pos) /\ \A p \in CodePos \ {pos} : rev'[p] = rev[p]
    BY <1>1, <1>2, <1>3, <2>1, AddDependenciesMirror
  <2> QED BY <1>1, <1>2, <1>5, <2>2 DEF DependsExact
<1>9. CodeMemoryOwned'
  <2>1. /\ st'[pos].addr = a
        /\ \A p \in CodePos \ {pos} : st'[p] = st[p]
    BY <1>1, <1>2, PrefixOf DEF TypeOK
  <2>2. ASSUME NEW p \in CodePos, is_resolved(p) PROVE st[p].addr # a
    BY <1>1, <2>2, CompileType, AddrAssumption DEF CodeIsFresh
  <2> QED BY <1>1, <1>2, <1>5, <2>1, <2>2 DEF CodeMemoryOwned
<1>10. Running_OK'
  BY <1>1, <1>2 DEF Running_OK
<1> QED BY <1>4, <1>6, <1>7, <1>8, <1>9, <1>10

\* A failed allocation leaves dependencies of a block that does not exist.
LEMMA OutOfCodeMemoryIInv ==
  ASSUME IInv, OutOfCodeMemory
  PROVE  IInv'
<1> USE DEF IInv
<1>1. /\ TypeOK /\ pos \in CodePos /\ mem \in Memory /\ caller = pos
  BY CallerIsPos DEF TypeOK
<1>2. Deps(mem, pos) \in SUBSET Coord
  BY <1>1, DepsType
<1>3. /\ AddDependencies(pos, Deps(mem, pos)) /\ ctl' = "abort"
      /\ UNCHANGED <<mem, st, heap, pos, blk, ip>>
  BY <1>1 DEF OutOfCodeMemory
<1>4. TypeOK'
  BY <1>1, <1>2, <1>3, AddDependenciesMirror DEF TypeOK
<1>5. DependsMirror'
  BY <1>1, <1>2, <1>3, AddDependenciesMirror
<1>6. CodeIsFresh'
  BY <1>3 DEF CodeIsFresh, is_resolved
<1>7. DependsExact' /\ CodeMemoryOwned' /\ Running_OK'
  BY <1>3 DEF DependsExact, CodeMemoryOwned, Running_OK, is_resolved
<1> QED BY <1>4, <1>5, <1>6, <1>7

-----------------------------------------------------------------------------
(* A store. *)

\* What InvalidateCoords leaves: nothing of the blocks that read c, all of the others.
LEMMA InvalidateEffect ==
  ASSUME IInv, NEW c \in Coord, InvalidateCoords(c), ctl # "abort"
  PROVE  /\ \A p \in CodePos : p \in fwd[c] <=> is_resolved(p) /\ c \in Deps(mem, p)
         /\ \A p \in fwd[c] : ~is_resolved(p)' /\ rev'[p] = {}
         /\ \A p \in CodePos \ fwd[c] :
              /\ st'[p] = st[p] /\ rev'[p] = rev[p]
              /\ is_resolved(p)' <=> is_resolved(p)
         /\ \A p \in CodePos :
              is_resolved(p)' <=> is_resolved(p) /\ c \notin Deps(mem, p)
<1> USE DEF IInv
<1>1. fwd[c] \subseteq CodePos
  BY DEF TypeOK
<1>2. \A p \in CodePos : p \in fwd[c] <=> is_resolved(p) /\ c \in Deps(mem, p)
  BY DEF DependsMirror, DependsExact
<1>3. /\ st' = [p \in CodePos |-> IF p \in fwd[c] THEN unresolve ELSE st[p]]
      /\ rev' = [p \in CodePos |-> IF p \in fwd[c] THEN {} ELSE rev[p]]
  BY DEF InvalidateCoords, Unresolve, ClearReverse
<1>4. \A p \in fwd[c] : ~is_resolved(p)' /\ rev'[p] = {}
  BY <1>1, <1>3, PrefixOf DEF is_resolved
<1>5. \A p \in CodePos \ fwd[c] :
        /\ st'[p] = st[p] /\ rev'[p] = rev[p]
        /\ is_resolved(p)' <=> is_resolved(p)
  BY <1>3 DEF is_resolved
<1>6. \A p \in CodePos : is_resolved(p)' <=> is_resolved(p) /\ c \notin Deps(mem, p)
  BY <1>2, <1>4, <1>5
<1> QED BY <1>2, <1>4, <1>5, <1>6

\* 'p' inside the playfield; by DepsComplete the blocks it leaves alone are still fresh.
LEMMA StoreIInv ==
  ASSUME IInv, NEW c \in Coord, NEW v \in StoreVals, Store(c, v)
  PROVE  IInv'
<1> USE DEF IInv
<1>1. /\ ctl = "code" /\ ctl' = ctl /\ pos' = pos /\ blk' = blk /\ heap' = heap /\ ip' = ip + 1
      /\ mem' = [mem EXCEPT ![c] = v] /\ InvalidateCoords(c)
  BY DEF Store, AtInstr, InvalidateCoords, ReleaseCode
<1>2. /\ \A p \in fwd[c] : ~is_resolved(p)' /\ rev'[p] = {}
      /\ \A p \in CodePos \ fwd[c] :
           /\ st'[p] = st[p] /\ rev'[p] = rev[p]
           /\ is_resolved(p)' <=> is_resolved(p)
      /\ \A p \in CodePos : is_resolved(p)' <=> is_resolved(p) /\ c \notin Deps(mem, p)
      /\ \A p \in CodePos : p \in fwd[c] <=> is_resolved(p) /\ c \in Deps(mem, p)
  BY <1>1, InvalidateEffect
<1>3. TypeOK'
  <2>1. mem' \in Memory
    BY <1>1, ProgramsAssumption DEF TypeOK, Memory
  <2>2. /\ st' \in [CodePos -> Entries] /\ fwd' \in [Coord -> SUBSET CodePos]
        /\ rev' \in [CodePos -> SUBSET Coord]
    BY <1>1 DEF TypeOK, InvalidateCoords, Entries, Unresolve, EraseForward, ClearReverse
  <2> QED BY <1>1, <2>1, <2>2 DEF TypeOK
<1>4. \A p \in CodePos : is_resolved(p)' =>
        Compile(mem', p) = Compile(mem, p) /\ Deps(mem', p) = Deps(mem, p)
  <2> SUFFICES ASSUME NEW p \in CodePos, is_resolved(p)'
               PROVE  Compile(mem', p) = Compile(mem, p) /\ Deps(mem', p) = Deps(mem, p)
    OBVIOUS
  <2>1. c \notin Deps(mem, p)
    BY <1>2
  <2>2. \A d \in Deps(mem, p) : mem'[d] = mem[d]
    BY <1>1, <2>1, DepsType DEF TypeOK, Memory
  <2> QED BY <2>2, DepsComplete
<1>5. CodeIsFresh'
  <2> SUFFICES ASSUME NEW p \in CodePos, is_resolved(p)'
               PROVE  heap'[st'[p].addr] = Compile(mem', p)
    BY DEF CodeIsFresh
  <2>1. p \in CodePos \ fwd[c] /\ is_resolved(p)
    BY <1>2
  <2>2. heap[st[p].addr] = Compile(mem, p)
    BY <2>1 DEF CodeIsFresh
  <2> QED BY <1>1, <1>2, <1>4, <2>1, <2>2
<1>6. DependsMirror'
  <2> SUFFICES ASSUME NEW d \in Coord, NEW p \in CodePos
               PROVE  p \in fwd'[d] <=> d \in rev'[p]
    BY DEF DependsMirror
  <2>1. p \in fwd[d] <=> d \in rev[p]
    BY DEF DependsMirror
  <2>2. p \in fwd[c] <=> c \in rev[p]
    BY DEF DependsMirror
  <2>3. fwd'[d] = IF d = c THEN {} ELSE {r \in fwd[d] : r \notin fwd[c] \/ d \notin rev[r]}
    BY <1>1 DEF InvalidateCoords, EraseForward
  <2> QED BY <1>2, <2>1, <2>2, <2>3
<1>7. DependsExact'
  <2> SUFFICES ASSUME NEW p \in CodePos
               PROVE  rev'[p] = IF is_resolved(p)' THEN Deps(mem', p) ELSE {}
    BY DEF DependsExact
  <2>1. rev[p] = IF is_resolved(p) THEN Deps(mem, p) ELSE {}
    BY <1>1 DEF DependsExact
  <2>2. CASE p \in fwd[c]
    BY <1>2, <2>2
  <2>3. CASE p \notin fwd[c]
    BY <1>2, <1>4, <2>1, <2>3
  <2> QED BY <2>2, <2>3
<1>8. CodeMemoryOwned'
  <2>1. \A p \in CodePos : is_resolved(p)' => is_resolved(p) /\ st'[p] = st[p]
    BY <1>2
  <2> QED BY <1>1, <2>1 DEF CodeMemoryOwned
<1>9. Running_OK'
  BY <1>1 DEF Running_OK
<1> QED BY <1>3, <1>5, <1>6, <1>7, <1>8, <1>9

-----------------------------------------------------------------------------
(* The other steps of the emitted code. *)

\* What a step that touches neither the playfield nor the code manager keeps.
LEMMA CacheUnchanged ==
  ASSUME IInv, UNCHANGED <<mem, managed>>, ctl # "abort"
  PROVE  CodeIsFresh' /\ DependsMirror' /\ DependsExact'
<1>1. mem' = mem /\ st' = st /\ fwd' = fwd /\ rev' = rev /\ heap' = heap
  BY DEF managed
<1> QED BY <1>1 DEF IInv, CodeIsFresh, DependsMirror, DependsExact, is_resolved

\* The jump of a resolved thunk.
LEMMA EnterBlockIInv ==
  ASSUME IInv, EnterBlock
  PROVE  IInv'
<1>1. /\ TypeOK /\ pos \in CodePos /\ mem \in Memory /\ is_resolved(pos)
      /\ ctl = "thunk" /\ ctl' = "code" /\ blk' = st[pos].addr /\ ip' = 1
      /\ UNCHANGED <<mem, managed, pos>> /\ CodeIsFresh
  BY DEF IInv, EnterBlock, TypeOK
<1>2. blk' \in Addr /\ heap[blk'] \in Blocks
  BY <1>1, EntryCases, CompileType DEF CodeIsFresh
<1>3. CodeMemoryOwned'
  <2>1. blk' = st[pos].addr /\ heap[blk'] # None /\ UNCHANGED <<st, heap, pos>>
    BY <1>1, <1>2, AddrAssumption DEF managed
  <2> QED BY <1>1, <2>1 DEF IInv, CodeMemoryOwned, is_resolved
<1>4. TypeOK' /\ Running_OK'
  BY <1>1, <1>2 DEF TypeOK, Running_OK, managed
<1> QED BY <1>1, <1>3, <1>4, CacheUnchanged DEF IInv

\* The jump that ends a block.
LEMMA LeaveIInv ==
  ASSUME IInv, NEW k \in 1..4, Leave(k)
  PROVE  IInv'
<1>1. /\ TypeOK /\ ctl = "code" /\ ctl' = "thunk" /\ pos' = code.exits[k] /\ blk' = None
      /\ ip' = 0 /\ k \in DOMAIN code.exits /\ UNCHANGED <<mem, managed>>
  BY DEF IInv, Leave
<1>2. pos' \in CodePos
  <2>1. heap[blk] \in Blocks
    BY <1>1 DEF IInv, Running_OK
  <2>2. code.exits \in Seq(CodePos)
    BY <2>1 DEF Blocks, code
  <2> QED BY <1>1, <2>2
<1>3. TypeOK' /\ CodeMemoryOwned' /\ Running_OK'
  BY <1>1, <1>2 DEF IInv, TypeOK, CodeMemoryOwned, Running_OK, managed, is_resolved
<1> QED BY <1>1, <1>3, CacheUnchanged DEF IInv

\* An instruction that stores nothing.
LEMMA NextInstructionIInv ==
  ASSUME IInv, Continue \/ StoreOutside
  PROVE  IInv'
<1>1. /\ TypeOK /\ ctl = "code" /\ ip' = ip + 1
      /\ UNCHANGED <<mem, managed, ctl, pos, blk>>
  BY DEF IInv, Continue, StoreOutside, AtInstr
<1>2. TypeOK' /\ CodeMemoryOwned' /\ Running_OK'
  BY <1>1 DEF IInv, TypeOK, CodeMemoryOwned, Running_OK, managed, is_resolved
<1> QED BY <1>1, <1>2, CacheUnchanged DEF IInv

\* '@'.
LEMMA StopIInv ==
  ASSUME IInv, Stop
  PROVE  IInv'
<1>1. /\ TypeOK /\ ctl = "code" /\ ctl' = "exit" /\ blk' = None /\ ip' = 0
      /\ UNCHANGED <<mem, managed, pos>>
  BY DEF IInv, Stop, AtInstr
<1>2. TypeOK' /\ CodeMemoryOwned' /\ Running_OK'
  BY <1>1 DEF IInv, TypeOK, CodeMemoryOwned, Running_OK, managed, is_resolved
<1> QED BY <1>1, <1>2, CacheUnchanged DEF IInv

\* A step of something else.
LEMMA StutterIInv ==
  ASSUME IInv, UNCHANGED vars
  PROVE  IInv'
BY DEF IInv, vars, managed, control, TypeOK, CodeIsFresh, DependsMirror, DependsExact,
       CodeMemoryOwned, Running_OK, is_resolved

\* All steps together.
LEMMA NextIInv == IInv /\ [Next]_vars => IInv'
<1> SUFFICES ASSUME IInv, [Next]_vars PROVE IInv'
  OBVIOUS
<1>1. ASSUME NEW a \in Addr, ResolveThunk(a) PROVE IInv'
  BY <1>1, ResolveThunkIInv
<1>2. CASE OutOfCodeMemory
  BY <1>2, OutOfCodeMemoryIInv
<1>3. CASE EnterBlock
  BY <1>3, EnterBlockIInv
<1>4. CASE Continue \/ StoreOutside
  BY <1>4, NextInstructionIInv
<1>5. ASSUME NEW c \in Coord, NEW v \in StoreVals, Store(c, v) PROVE IInv'
  BY <1>5, StoreIInv
<1>6. ASSUME NEW k \in 1..4, Leave(k) PROVE IInv'
  BY <1>6, LeaveIInv
<1>7. CASE Stop
  BY <1>7, StopIInv
<1>8. CASE Terminated \/ UNCHANGED vars
  BY <1>8, StutterIInv DEF Terminated
<1> QED BY <1>1, <1>2, <1>3, <1>4, <1>5, <1>6, <1>7, <1>8 DEF Next

\* The inductive invariant holds in every reachable state.
LEMMA Invariance == Spec => []IInv
BY InitIInv, NextIInv, PTL DEF Spec

-----------------------------------------------------------------------------
(***************************************************************************)
(* Every variable keeps its type; a thunk is a jump into code memory or a  *)
(* call to the dispatcher.                                                 *)
(***************************************************************************)
THEOREM TypeCorrect == Spec => []TypeOK
<1>1. IInv => TypeOK
  BY DEF IInv
<1> QED BY <1>1, Invariance, PTL

(***************************************************************************)
(* The code cache is coherent: no resolved thunk ever jumps to code that   *)
(* differs from what the compiler would produce from the playfield as it   *)
(* is now.                                                                 *)
(***************************************************************************)
THEOREM CacheCoherent == Spec => []CodeIsFresh
<1>1. IInv => CodeIsFresh
  BY DEF IInv
<1> QED BY <1>1, Invariance, PTL

(***************************************************************************)
(* _code_depends and _code_depends_reverse stay inverse to each other.     *)
(***************************************************************************)
THEOREM MapsMirror == Spec => []DependsMirror
<1>1. IInv => DependsMirror
  BY DEF IInv
<1> QED BY <1>1, Invariance, PTL

(***************************************************************************)
(* A position is registered for exactly the cells its present code read.   *)
(***************************************************************************)
THEOREM MapsExact == Spec => []DependsExact
<1>1. IInv => DependsExact
  BY DEF IInv
<1> QED BY <1>1, Invariance, PTL

(***************************************************************************)
(* No two thunks share code memory; that of the running block is its own   *)
(* until the block is left.                                                *)
(***************************************************************************)
THEOREM CodeMemoryStaysOwned == Spec => []CodeMemoryOwned
<1>1. IInv => CodeMemoryOwned
  BY DEF IInv
<1> QED BY <1>1, Invariance, PTL

(***************************************************************************)
(* A store into any cell leaves exactly those thunks resolved whose code   *)
(* did not read it.                                                        *)
(***************************************************************************)
THEOREM StoreExact == Spec => StoreInvalidatesExactly
<1> DEFINE A == \A c \in Coord, v \in StoreVals :
                  Store(c, v) =>
                    \A p \in CodePos :
                      is_resolved(p)' <=> is_resolved(p) /\ c \notin Deps(mem, p)
<1>1. IInv /\ [Next]_vars => [A]_vars
  <2> SUFFICES ASSUME IInv,
                      NEW c \in Coord, NEW v \in StoreVals, Store(c, v)
               PROVE  \A p \in CodePos :
                        is_resolved(p)' <=> is_resolved(p) /\ c \notin Deps(mem, p)
    OBVIOUS
  <2>1. InvalidateCoords(c) /\ ctl # "abort"
    BY DEF Store, AtInstr
  <2> QED BY <2>1, InvalidateEffect
<1>2. [][A]_vars <=> StoreInvalidatesExactly
  BY PTL DEF StoreInvalidatesExactly
<1> QED BY <1>1, <1>2, Invariance, PTL DEF Spec

-----------------------------------------------------------------------------
(***************************************************************************)
(* The just-in-time compiler implements the machine that translates every  *)
(* block afresh: thunks, dependency maps and code memory are invisible to  *)
(* the Befunge program.                                                    *)
(***************************************************************************)


(***************************************************************************)
(* The instance of BlockBefunge has its own copy of the definitions of     *)
(* modules Grid and Block; both copies are the same functions.             *)
(***************************************************************************)
LEMMA SameSets ==
  /\ Uncached!Coord = Coord
  /\ Uncached!CodePos = CodePos
  /\ Uncached!Memory = Memory
  /\ Uncached!Byte = Byte
  /\ Uncached!Blocks = Blocks
  /\ Uncached!EndsBlock = EndsBlock
  /\ Uncached!Put = Put
  /\ Uncached!Halt = Halt
  /\ Uncached!Start = Start
BY DEF Uncached!Coord, Coord, Uncached!CodePos, CodePos, Uncached!Memory, Memory,
       Uncached!Byte, Byte, Uncached!Blocks, Blocks, Uncached!EndsBlock, EndsBlock,
       Uncached!Put, Put, Uncached!Halt, Halt, Uncached!Dirs, Dirs, Uncached!Start, Start,
       Uncached!UP, Uncached!DOWN, Uncached!LEFT, Uncached!RIGHT, UP, DOWN, LEFT, RIGHT,
       Uncached!Quote, Quote, Uncached!Bridge, Bridge, Uncached!GoLeft, GoLeft,
       Uncached!GoRight, GoRight, Uncached!Random, Random, Uncached!GoUp, GoUp,
       Uncached!GoDown, GoDown, Uncached!IfHoriz, IfHoriz, Uncached!IfVert, IfVert

\* Both copies move over the torus alike.
LEMMA SameAdvance ==
  /\ \A p, d, i : Uncached!advance_pos(p, d, i) = advance_pos(p, d, i)
  /\ \A p : Uncached!to_coord(p) = to_coord(p)
  /\ \A p : Uncached!Step(p) = Step(p)
  /\ \A d : Uncached!Span(d) = Span(d)
<1> USE DEF Uncached!UP, Uncached!DOWN, Uncached!LEFT, Uncached!RIGHT, UP, DOWN, LEFT, RIGHT
<1>1. Uncached!codepos_from_dir = codepos_from_dir
  BY DEF Uncached!codepos_from_dir, codepos_from_dir, Uncached!Dirs, Dirs
<1>2. \A p, d, i : Uncached!advance_pos(p, d, i) = advance_pos(p, d, i)
  BY <1>1 DEF Uncached!advance_pos, advance_pos, Uncached!code_pos, code_pos,
              Uncached!loop_clamp, loop_clamp
<1>3. \A p : Uncached!to_coord(p) = to_coord(p)
  BY DEF Uncached!to_coord, to_coord
<1>4. \A p : Uncached!Step(p) = Step(p)
  BY <1>2 DEF Uncached!Step, Step
<1>5. \A d : Uncached!Span(d) = Span(d)
  BY DEF Uncached!Span, Span
<1> QED BY <1>2, <1>3, <1>4, <1>5

\* Both walk along a line alike,
LEMMA SameWalk ==
  /\ \A s, i : Uncached!At(s, i) = At(s, i)
  /\ \A m, p : Uncached!Fetch(m, p) = Fetch(m, p)
  /\ \A m, s, i : Uncached!Stops(m, s, i) = Stops(m, s, i)
  /\ \A m, s, q, j : Uncached!ScanStops(m, s, q, j) = ScanStops(m, s, q, j)
BY SameSets, SameAdvance
   DEF Uncached!At, At, Uncached!Fetch, Fetch, Uncached!Stops, Stops,
       Uncached!ScanStops, ScanStops, Uncached!Quote, Quote

\* stop at the same cells,
LEMMA SameEnds ==
  /\ \A m, s : Uncached!StopAt(m, s) = StopAt(m, s)
  /\ \A m, s, q : Uncached!ScanEnd(m, s, q) = ScanEnd(m, s, q)
BY SameWalk, SameAdvance DEF Uncached!StopAt, StopAt, Uncached!ScanEnd, ScanEnd

\* read the same string,
LEMMA SameString ==
  /\ \A m, s : Uncached!Length(m, s) = Length(m, s)
  /\ \A m, s : Uncached!Final(m, s) = Final(m, s)
  /\ \A m, s : Uncached!IsString(m, s) = IsString(m, s)
  /\ \A m, s, q : Uncached!Closed(m, s, q) = Closed(m, s, q)
  /\ \A m, s, q : Uncached!StringChars(m, s, q) = StringChars(m, s, q)
  /\ \A m, s, q : Uncached!AfterString(m, s, q) = AfterString(m, s, q)
<1>1. \A m, s : Uncached!Wraps(m, s) = Wraps(m, s)
  BY SameEnds, SameAdvance DEF Uncached!Wraps, Wraps
<1>2. \A m, s : Uncached!Length(m, s) = Length(m, s)
  BY <1>1, SameEnds, SameAdvance DEF Uncached!Length, Length
<1>3. \A m, s : Uncached!Final(m, s) = Final(m, s)
  BY <1>2, SameWalk DEF Uncached!Final, Final
<1>4. \A m, s : Uncached!IsString(m, s) = IsString(m, s)
  BY <1>1, <1>3, SameWalk DEF Uncached!IsString, IsString, Uncached!Quote, Quote
<1>5. \A m, s, q : Uncached!Closed(m, s, q) = Closed(m, s, q)
  BY SameWalk, SameEnds DEF Uncached!Closed, Closed, Uncached!Quote, Quote
<1>6. \A m, s, q : Uncached!StringChars(m, s, q) = StringChars(m, s, q)
  BY <1>5, SameWalk, SameEnds DEF Uncached!StringChars, StringChars
<1>7. \A m, s, q : Uncached!AfterString(m, s, q) = AfterString(m, s, q)
  BY <1>5, SameWalk, SameEnds, SameAdvance DEF Uncached!AfterString, AfterString
<1> QED BY <1>2, <1>3, <1>4, <1>5, <1>6, <1>7

\* go on to the same positions,
LEMMA SameTargets ==
  \A c, cur, s, after : Uncached!Targets(c, cur, s, after) = Targets(c, cur, s, after)
BY SameAdvance
   DEF Uncached!Targets, Targets, Uncached!UP, Uncached!DOWN, Uncached!LEFT, Uncached!RIGHT,
       UP, DOWN, LEFT, RIGHT, Uncached!Quote, Quote, Uncached!Bridge, Bridge,
       Uncached!GoLeft, GoLeft, Uncached!GoRight, GoRight, Uncached!Random, Random,
       Uncached!GoUp, GoUp, Uncached!GoDown, GoDown, Uncached!IfHoriz, IfHoriz,
       Uncached!IfVert, IfVert, Uncached!Halt, Halt

\* and so translate the same block.
LEMMA SameCompile == \A m, s : Uncached!Compile(m, s) = Compile(m, s)
BY SameWalk, SameString, SameTargets DEF Uncached!Compile, Compile

-----------------------------------------------------------------------------
\* The initial states map to initial states.
LEMMA RefinesInit == Init => Uncached!Init
BY SameSets DEF Init, Uncached!Init, Running

\* Every step maps to a step or to a stutter: compiling a block is invisible.
LEMMA RefinesNext ==
  ASSUME IInv, [Next]_vars
  PROVE  [Uncached!Next]_(Uncached!vars)
<1> USE DEF Running
<1>1. ASSUME NEW a \in Addr, ResolveThunk(a) PROVE UNCHANGED Uncached!vars
  BY <1>1 DEF ResolveThunk, control, Uncached!vars
<1>2. CASE OutOfCodeMemory
  <2>1. Uncached!GiveUp
    BY <1>2 DEF OutOfCodeMemory, Uncached!GiveUp
  <2> QED BY <2>1 DEF Uncached!Next
<1>3. CASE EnterBlock
  <2>1. heap[st[pos].addr] = Compile(mem, pos)
    BY <1>3 DEF EnterBlock, IInv, CodeIsFresh, TypeOK
  <2>2. Uncached!Enter
    BY <1>3, <2>1, SameCompile DEF EnterBlock, Uncached!Enter, managed
  <2> QED BY <2>2 DEF Uncached!Next
<1>4. \A S : AtInstr(S) => Uncached!AtInstr(S)
  BY DEF AtInstr, Uncached!AtInstr, code
<1>5. CASE Continue
  <2>1. Uncached!Continue
    BY <1>4, <1>5, SameSets DEF Continue, Uncached!Continue, managed
  <2> QED BY <2>1 DEF Uncached!Next
<1>6. ASSUME NEW c \in Coord, NEW v \in StoreVals, Store(c, v)
      PROVE  Uncached!Next
  <2>1. Uncached!Store(c, v)
    BY <1>4, <1>6, SameSets DEF Store, Uncached!Store, InvalidateCoords, ReleaseCode
  <2> QED BY <2>1, SameSets DEF Uncached!Next
<1>7. CASE StoreOutside
  <2>1. Uncached!StoreOutside
    BY <1>4, <1>7, SameSets DEF StoreOutside, Uncached!StoreOutside, managed
  <2> QED BY <2>1 DEF Uncached!Next
<1>8. ASSUME NEW k \in 1..4, Leave(k) PROVE Uncached!Next
  <2>1. Uncached!Leave(k)
    BY <1>4, <1>8, SameSets DEF Leave, Uncached!Leave, managed, code
  <2> QED BY <2>1 DEF Uncached!Next
<1>9. CASE Stop
  <2>1. Uncached!Stop
    BY <1>4, <1>9, SameSets DEF Stop, Uncached!Stop, managed
  <2> QED BY <2>1 DEF Uncached!Next
<1>10. CASE Terminated \/ UNCHANGED vars
  BY <1>10 DEF Terminated, vars, managed, control, Uncached!vars
<1> QED BY <1>1, <1>2, <1>3, <1>5, <1>6, <1>7, <1>8, <1>9, <1>10 DEF Next

(***************************************************************************)
(* The just-in-time compiler implements the machine without a cache.       *)
(***************************************************************************)
THEOREM CacheTransparent == Spec => ImplementsUncached
<1>1. Spec => Uncached!Spec
  BY RefinesInit, RefinesNext, Invariance, PTL DEF Spec, Uncached!Spec
<1> QED BY <1>1 DEF ImplementsUncached
=============================================================================
