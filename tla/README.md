# Verification of befunjit

befunjit is a just-in-time compiler for Befunge-93, an esoteric language whose
programs live on an 80 by 25 torus of characters and may overwrite themselves
while they run. This directory holds TLA+ modules that model the program, TLC
configurations that check them on small instances, and theorems that TLAPS
checks for every playfield size, every program, every input and every amount of
code memory. The last of them says that befunjit, with its blocks, thunks, cache
and machine stack, does what a machine does that reads the playfield one cell at
a time, but for three exceptions it names. That machine takes what a character
*means* (arithmetic, `p` and `g`, input and output) from the same modules `Words`
and `Externs`, which are translated from this code: the theorem is about control,
staleness and the stack, not about whether every character has the meaning the
Befunge-93 report gives it.

Paths below are relative to the repository (`src/` here is the repository's own
`src/` directory).

## 1. The system

The process has one thread. Control alternates between C++ and machine code the
program has emitted itself; there are no other processes, no persistence and no
messages. What is hard about it is not concurrency but *staleness*: code
compiled from cells that the program may overwrite at any time, the block that
is running included.

| Component | State | Operations | Talks to |
|---|---|---|---|
| **Playfield and table layout** (`include/typedefs.h`, `vec.h`, `utils.h`) | none: `coord_t`, `code_pos_t` (a cell and a direction), the layout `[dir][x][y]` of the thunk table | `loop_clamp`, `codepos_from_dir`, `codepos_to_offset`, `offset_to_codepos`, `idx_to_pos` | everything |
| **Compiler** (`src/compile.cpp`, `poc_compiler`) | its own locals; the code buffer `code_generator` | walks the line of a position, emits code, scans strings ahead, registers what it read | code manager (`AddDependency`, `GetThunkAddress`), code memory |
| **Thunk table and code manager** (`include/thunk.h`, `src/thunk.cpp`) | `st->entries`, `_code_depends`, `_code_depends_reverse` | `GetCodePos`, `AddDependency`, `ResolvePos`, `InvalidateCoords`, `GetThunkEntry`, `GetThunkAddress` | compiler, emitted code (which jumps into the table), externs |
| **Compilation on demand** (`src/compile.cpp`, `resolve_thunk`) | none of its own | called by an unresolved thunk; compiles, resolves, goes back to the thunk | code manager, compiler |
| **Code memory** (`src/compile.cpp`, tlsf) | a pool of 0x4000 bytes | `compiler_init`, `_rwx_malloc`; `_rwx_free` has no caller | compiler |
| **Emitted code** (`src/compile.cpp`) | the machine stack, which is the Befunge stack | one sequence of machine instructions for each character, the jump that ends a block | thunk table, externs |
| **Externs** (`src/externs.cpp`) | `G::static_memory`, stdin, stdout | `extern_read_val`, `extern_write_val`, `extern_getint`, `extern_getchar`, `extern_printint`, `extern_printchar`, `extern_rand`, `extern_exit` | called from emitted code; `extern_write_val` calls `InvalidateCoords` |
| **Dispatch stub and stack alignment** (`include/snippets.h`, `call_extern`, `trampoline_code`) | `rsp`, `rax`, `rbx` | align, call, restore, jump | emitted code, C++ |
| **Loader** (`src/main.cpp`) | `G::static_memory` | reads the file, rejects what does not fit | compiler (through the first thunk) |
| **Snippets** (`include/snippets.h`, `code.h`) | none | all but `compiler_dispatch` and `_jump_to` is dead code of an earlier generator | |
| **Debug dumps**, **vendored libraries** (xbyak, tlsf, Zydis) | | | |

A run of the program goes like this. `main` loads the playfield and jumps to the
thunk of (0, 0, RIGHT). A thunk is 12 bytes, `movabs rax, addr; call/jmp rax`.
Unresolved, it *calls* the dispatch stub, which hands the return address to
`resolve_thunk`; that recovers the position from the address, compiles the block
starting there, turns the thunk into a *jump* to the block, and returns to the
thunk. A block is a straight run of instructions up to one that moves control
(or a whole turn around the torus) and ends with a jump to a thunk, never
straight to another block. A `p` inside a block calls `extern_write_val`, which
stores the byte and reverts the thunk of every block that read that cell. The
code itself is neither freed nor patched: a block that has just invalidated
itself runs on to its end.

### What makes each component correct

* *Layout*: the two conversions between positions and thunk offsets are inverse
  to each other and stay inside the table; a move over an edge comes in at the
  opposite one.
* *Compiler*: both loops end on every playfield; the block is the one the line
  describes; every cell that was read is registered.
* *Code manager*: a resolved thunk always jumps to code that would be compiled
  the same way now; the two maps are inverse to each other and exact; a store
  reverts the thunks that depend on the cell and no others.
* *Compilation on demand*: the compiler resolves the thunk it was called from;
  control that reaches a thunk gets to compiled code.
* *Code memory*: every block has its memory to itself, and the one that is
  running keeps it.
* *All of them together*: the program behaves as if there were no cache.
* *Emitted code, dispatch stub*: each character does what it means, whatever
  code ran before it; every C++ call finds the stack aligned and leaves nothing
  of the alignment on the Befunge stack.
* *Externs*: a cell is read and written where the language says, whatever words
  are taken for coordinates; what is printed can be read back.
* *Loader*: the playfield is the file's; exactly the files that do not fit are
  rejected, before anything is stored outside the array.
* *The whole program*: it does, cell by cell, what Befunge does, except in the
  cases the code decides otherwise.

`PROJECT.json` lists under `hazards` the places in the code where these are hard
to test, each with the properties that would catch it going wrong.

## 2. The modules

| Module | What it is |
|---|---|
| `Grid` | `typedefs.h`, `vec.h` and the address arithmetic of `utils.h`, for any `N_COLS`, `N_ROWS` |
| `MCGrid` | a walk over the playfield; its instance is the real one, 80 by 25 |
| `GridProofs` | the walk on a playfield of any size |
| `Block` | what `poc_compiler` returns for a position, as a function of the playfield: `Compile(m, s)`, and the cells it registers, `Deps(m, s)` |
| `BlockProofs` | the layout's theorems; where the loops end, of what type a block is, and that it depends on no cell outside `Deps` |
| `Compiler` | the two loops of `poc_compiler`, one step for each iteration |
| `CodeSize` | the same, with the bytes assembled so far: does a block fit into `tmp_buf`? |
| `CompilerProofs` | the loops' invariants; they return what `Block` defines, in a buffer large enough |
| `MCCompiler` | the instances of `CodeSize` and `Compiler` |
| `BlockBefunge` | an abstract specification: a machine without a cache |
| `Jit` | thunk table, dependency maps, code memory, compilation on demand, emitted code, stores |
| `JitProofs` | the inductive invariant, the theorems on coherence, and that `Jit` implements `BlockBefunge` |
| `MCJit` | the instances of `Jit` |
| `Invalidation` | `Jit` with `InvalidateCoords` as the loop it is, one step for each iteration; its refinement mapping to `Jit` |
| `MCInvalidation` | its instance |
| `Words` | words of 64 bits, and what each character means for a stack of them |
| `Emitted` | the machine code of each character, and of an unresolved thunk with the dispatch stub, executed instruction by instruction on registers and the machine stack |
| `EmittedProofs` | its code's shape, types of registers and stack, alignment of every call, and that each code does what its character means |
| `MCEmitted` | its instance |
| `Externs` | the functions emitted code calls, as operators on the playfield, standard input and standard output |
| `MCExterns` | a program that prints, and one that reads what was printed |
| `ExternsProofs` | what is printed, is read back |
| `Befunge` | the abstract specification of everything: the language, which reads one cell at a time and knows no blocks |
| `Machine` | `Jit` with the Befunge stack, strings, input and output, faults; its refinement mapping to `Befunge` |
| `MachineProofs` | types of the machine; `Machine` implements `Jit`; how the running block and the playfield differ; what `p` and `g` do; `Machine` implements `Befunge` |
| `MCMachine` | the instances of `Machine` |
| `Loader` | `main` up to the start of the program |
| `MCLoader` | its instance |
| `LoaderProofs` | the loader's marks in the file; what it loads and what it rejects |

`Block` extends `Grid`; `Compiler`, `BlockBefunge` and `Jit` extend `Block`, and
`CodeSize` extends `Compiler`. `Jit` takes the result of a compilation from
`Block` in one step, since the compiler runs to its end before emitted code
continues, and `Compiler` is what justifies the definitions it takes. `Jit`
instantiates `BlockBefunge` with the running block read through `blk`. In the
same way `Jit` invalidates a cell in one step, and `Invalidation`, which extends
it, is what justifies that.

`Words` says what a character means; `Emitted` extends it and checks that the
machine code does just that, whatever ran before; `Externs` extends `Block` and
`Words`. `Machine` extends `Jit` and `Externs`: it is the whole program from the
first thunk on. Every action is one of `Jit` (or leaves `Jit`'s variables alone)
with what `Words` and `Externs` say happens to the stack, the input and the
output. `Befunge` extends `Externs` alone, and `Machine` instantiates it as
`Cells`.

### State and actions against the code

| Variable of `Jit` | In the code |
|---|---|
| `mem` | `G::static_memory` |
| `st` | `st->entries`; a record with `ins_prefix` and `addr` |
| `fwd`, `rev` | `_code_depends`, `_code_depends_reverse` |
| `heap` | the pool of `compiler_init`: at each place a block or nothing |
| `ctl`, `pos` | where the instruction pointer is: at the thunk of `pos`, in a block, gone after `exit` or a failed assertion |
| `blk`, `ip` | the block being executed, and which of its instructions is next |

| Action | In the code |
|---|---|
| `ResolveThunk(a)` | `call rax` of an unresolved thunk: `resolve_thunk`, `GetCodePos`, `compile`, `_rwx_malloc` returning `a`, `ResolvePos`, back to the thunk |
| `OutOfCodeMemory` | the same up to `assert(code_mem != nullptr)` |
| `EnterBlock` | `jmp rax` of a resolved thunk |
| `Continue` | the code of a character that neither stores nor moves control |
| `Store(c, v)` | `p` with a cell of the playfield: the store and `InvalidateCoords`, as `Unresolve`, `EraseForward`, `ClearReverse`, `ReleaseCode`; in `Invalidation` it is `Write(c, v)`, a `Visit(p)` for each position in the cell's set, and `Return` |
| `StoreOutside` | `p` outside: the early return of `extern_write_val` |
| `Leave(k)` | the jump that ends a block, to its `k`-th target |
| `Stop` | `@` |
| `Terminated` | the process is gone (so that TLC's deadlock check stays on) |

`Invalidation` adds `coords` (the cell whose set is walked), `visited` (what the
iterator of that set has passed) and a history variable `saved`: `Jit`'s view of
the state when the store began, which the refinement mapping shows until
`InvalidateCoords` returns. `Write` and `Visit` are stutters of `Jit`, and
`Return` is its `Store`.

| Action of `Compiler` | In `poc_compiler` |
|---|---|
| `Emit` | an iteration of the outer loop that goes on, with its test for a closed line |
| `EmitJump` | one that sets `jump_target` or `emitted_jump` |
| `OpenString` | the quote |
| `ScanPush`, `ScanClose` | an iteration of the inner loop on a character, on the closing quote |
| `Returned` | the call is over |

`CodeSize` has the same actions with `size` (`code_generator.getSize()`):
`Bytes` is the length of each case of the switch, `FinalBytes` that of the jump
after the loop.

`Emit` of `Emitted` is the table of what `poc_compiler` emits, character by
character; each action is an instruction (`PopReg`, `Div`, `Align`, ...).
`AlignRsp`, `Call`, `RestoreRsp` are the three parts of `call_extern`, which are
the stub's too. `reg`, `stk` and `flags` are the processor's; the stack pointer
is the length of `stk` over a bottom that is a multiple of 16 or is not (`odd`).

| Variable of `Machine` | In the code |
|---|---|
| those of `Jit` | as above |
| `stk` | the machine stack: the Befunge stack, the `buf` of `trampoline_code` (`Reserve` zeros) below it, and what lies above that (`FrameLen` words: frames, arguments, environment) |
| `str` | how far the pushes of the running block's string have come |
| `called` | the last C++ function called, with its arguments |
| `cin` | `std::cin`: the rest of the input, and whether an extraction has failed |
| `fault` | the signal that has ended the process |

| Action of `Machine` | In the code |
|---|---|
| `Resolve(a)`, `OutOfMemory`, `Enter` | `ResolveThunk(a)`, `OutOfCodeMemory`, `EnterBlock` of `Jit`, which leave the stack as it is |
| `Compute` | every character that neither stores nor moves control |
| `PutWord` | `p`: `extern_write_val` with the three words popped, inside the playfield or not |
| `Turn` | `< > ^ v # _ \| ?`: the jump, to the target the stack or `extern_rand` decides |
| `GoRound` | the jump of a line that closed on itself |
| `OpenString`, `PushChar`, `CloseString` | the quote, the `push imm` of each character, the jump behind the last |
| `Exit` | `@` |
| `FloatingPointException` | `div` by zero |
| `SegmentationFault` | a pop above the bottom of the stack, a push that leaves its room |
| `Gone` | the process is gone |

`Befunge` has `mem`, `pos` (a cell and a direction), `quoted`, `stk`, `called`,
`cin`, and an action for each way a cell is executed. Under the refinement
mapping, `pos` is `Cell`: the position of the thunk control is at, or the
`ip`-th cell of the running block's line, or the cell of the next character of
its string; `stk` is `BefungeStack`, everything below the frame, the zeros of
the reserve included; `ctl` is `Life`. The reserve is why `Befunge!Init` allows
any number of zeros on the empty stack. Compiling and entering a block are
stutters; every other action of `Machine` is one of `Befunge`.

`AgreesWithCells` says that of every step but the ones the code decides
differently:

* `Overwritten`: something left of the running block is no longer what the
  playfield says. `OverwrittenByItself` adds that only a `p` of that very block
  brings this about;
* `Unterminated`: the string has no closing quote, and the block goes back to
  its start;
* `Drained`: the instruction takes words from above the reserve.

| Action of `Loader` | In `main` |
|---|---|
| `NoFilename` | `argc < 2` |
| `Open`, `GetLine` | `fin.open`, the loop over `std::getline` |
| `CountLines` | the test of the number of lines |
| `NextLine`, `CopyChar`, `EndLine` | the loops over lines (with the test of a line's length) and characters |
| `Run` | on to `trampoline_code` |

`Externs` has no state: `extern_getint` and `extern_getchar` give the possible
results of an extraction from a stream, `extern_read_val` and `Truncated` say
what `g` and `p` do with words, `extern_printint` and `extern_printchar` which
bytes are printed.

### Abstractions

* In `Jit`, characters are their codes, but those that only compute (arithmetic,
  stack, input and output, digits, `g`) and those that do nothing are one class:
  they continue the block. The Befunge stack is left out there: a `p` stores any
  value of `StoreVals` anywhere, inside the playfield or not, and a conditional
  jump goes either way. That is more behaviours than the program has, so what
  holds here holds there; `MachineRunsJit` is the proof that it does.
* In `Machine`, a character is one step, with the effect `Words` gives it;
  `Emitted` is what justifies that. Words above the reserve (`FrameWords`) are
  never written by a C++ function: a program that has eaten its own frame and
  calls C++ may do worse than the model.
* `std::cin`, `std::getline` and `std::fstream` are the standard's: `>>` skips
  blanks and sets the failure bit at the end of input, for good. An uninitialised
  local variable holds any value of `Garbage`. The output is the sequence of
  calls (`called`); `Externs` says which bytes each is.
* `CodeSize` takes every address as a full 64-bit immediate, as the `(uint64)`
  operands of the generator are when they do not fit into 32 bits; so it counts
  the longest code.
* In `Loader`, a file that cannot be opened has no lines. `init_rand` and
  `print_mem` are left out.
* In `Emitted`, a register or stack slot that nobody has set, or that a call may
  have destroyed, holds `Junk`; a comparison or a division that reads it may find
  any word there. A jump's target is its number, not its address. `rbx` counts
  words in the alignment, not bytes. The C++ functions are what the calling
  convention says: they preserve `rbx` and return any word in `rax`. The
  characters of a string and the digits push a literal alike.
* `_code_depends_reverse` holds vectors, in which a cell may occur twice (a
  string that runs over its own start); the code only iterates over them to
  erase from sets, so the model has sets.
* `InvalidateCoords` iterates over a hash set in an unspecified order. `Jit`
  does all the iterations at once; that the order is invisible, and that the loop
  leaves the set it walks alone, is what `Invalidation` checks.
* A place of `Addr` holds one block, whatever its size: the pool runs out of
  places, not of bytes.
* A thunk's address is its offset from the table's base; the return address a
  thunk pushes is that plus `THUNK_ENTRY_SIZE`, and `GetCodePos` computes the
  position back from it, as the code does.

## 3. The runs

| Run | Instance | States | What it shows |
|---|---|---|---|
| `grid` | 80 by 25, the program's own size | 8 000 | every position reachable by moves of one or two cells has its own thunk inside the table (`ThunkNamesPosition`, `ThunkInBounds`) and moves are on a torus (`MovesOnTorus`) |
| `compiler` | 4 by 3; all lines over {`g`, `"`, `#`, `_`, `?`, a byte above 127} in the first row or column; all 48 starts; a buffer of 206 bytes | 291 484 | the loops return (`Returns`) the block (`ReturnsCompile`) and dependencies (`RegistersDeps`) of `Block`, within the buffer (`FitsBuffer`) |
| `jit` | 3 by 2; 42 self-modifying programs, stored values `"` and blank, 3 places for code | 131 362 | `CodeIsFresh`, `DependsMirror`, `DependsExact`, `CodeMemoryOwned`, `StoreInvalidatesExactly`, `ImplementsUncached` |
| `invalidation` | 3 by 2; a program whose blocks share cells they store into, and 7 others, whose blocks all fit into 4 places; stored value `@` | 24 560 | in whatever order the set of a cell is walked, nothing is erased from it meanwhile (`IteratorValid`), and the loop ends where `Jit`'s single step does (`ImplementsJit`); control that has jumped to a thunk gets to code (`ReachesCode`) |
| `emitted` | words of 4 bits, values 0, 1, 7, 8, 14; all 24 kinds of code on all stacks of 3 such words, of either alignment, with any of the values returned by C++ | 751 250 | each character's code does what it means (`MeansCharacter`), traps for a zero divisor only (`TrapsOnZeroOnly`), and calls C++ with the stack aligned (`CallsAligned`) |
| `machine` | 6 by 2; words of 10 bits; every line of four over the characters that read and write the program, every line of three over those that compute and move, the samples `p0`, `p1`, `g0`, and four programs that put or get at -1; two inputs; a reserve of 4 words, a frame of 1, room for 7; 3 places for code | 135 209 | befunjit does what the cell-by-cell machine does (`AgreesWithCells`), a block goes stale by itself only (`OverwrittenByItself`), `g` finds what `p` wrote (`PutThenGet`) |
| `externs` | words of 10 bits; all texts of three words printed with `.` or `,` | 17 116 | all words come back as they were printed (`ReadsBack`) |
| `loader` | 3 by 2; every file of up to 7 bytes over newline, blank and a byte above 127 | 31 231 | `LoadsFile`, `RejectsTooLarge` |
| `jit_assert` | 3 by 2; one program, 4 places | | finding: the assertion on code memory fails |
| `compiler_start` | 4 by 3 | | finding: the scan passes the start |
| `externs_cat` | texts of three characters | | finding: `~` skips blanks |
| `machine_cat` | 9 by 2; `samples/cat.txt`, one letter of input | | finding: the sample never ends |

Why these bounds are enough to be interesting:

* *Compiler.* A line of four cells holds an instruction before a quote, a string
  with a character in it and its closing quote; with every start on it the
  strings wrap, are unterminated, begin at the start, or have their opening
  quote just before it. The line of three is the same in the other axis. `#` and
  `_` stand for the instructions with one and two targets, `?` for the one with
  four, `g` for those that continue: its code is the longest there is. The byte
  above 127 has the longest push. 206 bytes (four times 28 for a line of `g`, four
  times 5 for a string, 74 for the end) are the room `LargestBlock` asks for; the
  longest block that occurs is 158 long (three `g` and a `?`), so this run
  finds code that grows beyond a line rather than the last byte, and the theorem
  `EveryBlockFits` bounds it for all sizes. The real buffer has 4 096 and by the
  same bound needs 80 * 28 + 80 * 5 + 74 = 2 714.
* *Jit.* In a playfield of 3 by 2 blocks in all four directions share cells, a
  block reads its whole line, strings read ahead of it, and stores hit cells of
  the running block, of other blocks and of none. Storing a quote opens or
  closes strings and so *changes which cells* a block depends on; storing a
  blank erases instructions. Three places let a block be compiled, invalidated,
  compiled again and the old code still be around, and let memory run out.
  `Addr` is a symmetry set (places are interchangeable, and no property of that
  run depends on which one the allocator picks; the run has no liveness
  property).
* *Invalidation.* `|p_` above `p@` comes to have three blocks
  registered for one cell, each of them for others too; the run reaches sets of
  three walked in all their orders, with the running block in them. Storing only
  `@` lets these programs end with the places they have, which `ReachesCode`
  needs. The run has a liveness property, so `Addr` is no symmetry set here.
* *Grid.* Nothing is scaled down.
* *Emitted.* Sums, differences, products and comparisons at the edges of a word
  (0 and 1, the largest and the smallest signed word, and -2) are at the edges
  whatever the width; 4 bits are enough for all four directions to be words. No
  character reads more than three words, and its code never looks below them, so
  one of a depth of three stands for all stacks. Registers begin as `Junk`, so
  any character may have run before.

* *Machine.* Words of 10 bits hold every byte, coordinates, and negative
  numbers; `300` above the reserve is no byte, so that it is seen when it gets
  onto the Befunge stack or into a cell. The programs store over cells of their
  own line before and behind the `p`, over quotes, over the block they come to
  next and outside the playfield, beyond the end and before the beginning; they are few enough instructions to drain the
  reserve, overflow the stack and divide by zero on the way. Three places let
  code memory run out and be used again in a different order.
* *Externs.* The words are at the edges of signed and unsigned; three prints are
  two neighbours with something before or behind.
* *Loader.* Seven bytes make a playfield of 3 by 2 too wide, too long, exactly
  full with and without a newline at the end, or empty with blank lines.

The programs and characters are given in the `MC` modules. Every property
of a passing run has a mutant in `PROJECT.json`: a plausible slip of the code
(a dropped registration, a map not cleared, code freed too early, a wrong
stride, a missing decrement) under which TLC finds the property violated. Their
definitions stand in the modules before the definition they replace, with a
comment starting with `Bug:`.

### Fairness

`LoopFairSpec` of `Invalidation`, `SizedFairSpec` of `CodeSize` and
`MachineFairSpec` of `Machine` ask for weak fairness of the whole next-state
relation: the process has one thread that never waits for another, and the
processor keeps executing it. In particular no action is
favoured over another; which target a conditional jump takes stays open. The
counterexample of `machine_cat` is one under this fairness: the program does
take step after step, and never comes to `@`.

`ReachesCode` is checked on programs whose blocks fit into code memory. Where
they do not, `OutOfCodeMemory` ends the process, which is what `jit_assert`
shows.

## 4. What is proved

For every `N_COLS, N_ROWS >= 2` (`GridAssumption`; the program has 80 and 25),
every set of initial playfields of bytes and every set of stored bytes
(`ProgramsAssumption`), every set of places in code memory, finite or not, that
does not contain the dispatcher (`AddrAssumption`); and, for the modules that
have them, every width of words
(`SignBitAssumption`; in `Machine` a word holds a byte and a coordinate,
`WidthAssumption`), every set of inputs (`InputsAssumption`), every value of an
uninitialised variable (`GarbageAssumption`), every set of files of bytes
(`TextsAssumption`), every set of words to print and any number of prints
(`PrintsAssumption`), every reserve, frame and room for
the stack (`StackAssumption`), every buffer large enough for `LargestBlock`
(`BufferAssumption`). `Machine` stores all bytes (`StoresAssumption`), since
which one a `p` stores is for the stack to say.

| Theorem | Statement |
|---|---|
| `BlockProofs!TableRoundTrip`, `ThunkInTable` | the conversions are inverse to each other, every thunk is inside the table |
| `BlockProofs!DepsComplete` | if no cell of `Deps(m, s)` changes, neither does `Compile(m, s)`, nor `Deps(m, s)` itself |
| `CompilerProofs!CompilerTypeCorrect`, `CompilerReturnsBlock`, `CompilerRegistersDeps` | `Spec => []TypeOK`, `[]ReturnsCompile`, `[]RegistersDeps` |
| `JitProofs!TypeCorrect`, `CacheCoherent`, `MapsMirror`, `MapsExact`, `CodeMemoryStaysOwned` | `Spec => []TypeOK`, `[]CodeIsFresh`, `[]DependsMirror`, `[]DependsExact`, `[]CodeMemoryOwned` |
| `JitProofs!StoreExact` | `Spec => StoreInvalidatesExactly`: every `Store(c, v)` leaves resolved just the thunks whose code did not read `c` |
| `JitProofs!CacheTransparent` | `Spec => ImplementsUncached` |
| `CompilerProofs!EveryBlockFits` | `SizedSpec => []FitsBuffer` |
| `EmittedProofs!EmittedTypeCorrect`, `EveryCallAligned`, `CodeMeansCharacter`, `OnlyZeroTraps` | `Spec => []TypeOK`, `[]CallsAligned`, `[]MeansCharacter`, `[]TrapsOnZeroOnly` |
| `MachineProofs!MachineRunsJit` | `MachineSpec => Spec`: what is proved of `Jit` holds of `Machine` |
| `MachineProofs!MachineTypeCorrect` | `MachineSpec => []MachineTypeOK` |
| `MachineProofs!OnlyByItself`, `PutThenGetAgrees` | `MachineSpec => OverwrittenByItself`, `PutThenGet` |
| `MachineProofs!RunsBefunge` | `MachineSpec => AgreesWithCells` |
| `GridProofs!WalkNamesPosition`, `WalkStaysInTable`, `WalkOnTorus` | `Spec => []ThunkNamesPosition`, `[]ThunkInBounds`, `MovesOnTorus` |
| `LoaderProofs!LoadsTheFile`, `RejectsExactly` | `Spec => []LoadsFile`, `[]RejectsTooLarge` |
| `ExternsProofs!PrintsReadBack` | `Spec => []ReadsBack` |

### The argument

*The layout.* A position in direction `d` is entry `d * N_ROWS_COLS + r`, with
`r = x * N_ROWS + y` smaller than `N_ROWS_COLS` (`PlaneIndex`); division and
remainder recover `d`, `x` and `y` (`DivMod`). It needs nothing of the sizes
but that they are positive. The bound of two comes from `loop_clamp`: it
corrects by one turn, and `#` moves two cells (`AdvanceType`).

*The walk.* `loop_clamp` adds or takes away one turn; for a coordinate inside
and a move of at most two cells that is the remainder (`ClampIsModulo`), for
which the bound of two is needed again. A walk therefore stays on the playfield,
where the two theorems on the layout hold.

*The compiler.* `Block` defines where each loop ends with `CHOOSE`, as the first
index at which a condition holds. `StopAtFirst` and `ScanEndFirst` show it
exists (a walk of a whole turn is back at the start; a scan of a whole turn is
back at its opening quote), from the well-foundedness of the naturals. The loop
invariant `LoopInv` says that the outer loop, after `i` iterations, stands at
`At(start, i)`, has compiled the `i` cells before it, and that none of them ends
the block; and the same for the inner loop behind the quote. Neither
`ReturnsCompile` nor `RegistersDeps` is inductive without it: they speak of the
end only. `OnlyFullTurn` is what makes the code's two different tests
for the start (by cell in the outer loop, by position in the inner) agree with
the index.

*The cache.* `CodeIsFresh` alone is not inductive. A store to cell `c` must
revert every thunk whose code read `c`; the code reverts those in
`_code_depends[c]`. So the invariant `IInv` also has `DependsExact` (a position
is registered for exactly the cells its present code read) and `DependsMirror`
(the two maps are inverse). By these two, a thunk that survives the
store has `c \notin Deps(mem, p)`, and by `DepsComplete` its code is what would
be compiled now, and its dependencies are what they were, so `DependsExact`
survives too. The failed allocation is the one state where
`DependsExact` does not hold (the dependencies of a compilation without code are
left); the process ends there, and the property says so. `CallerIsPos`, by
`TableRoundTrip`, shows that `resolve_thunk` compiles the position control came
through.

*The refinement.* A block runs to its end as it was when it was entered, since
code is never freed or overwritten; that is a step-by-step match with
`BlockBefunge`, in which `ResolveThunk` is a stutter and `EnterBlock` is the
step that translates the playfield as it is: by `CodeIsFresh` the code found in
the cache is that very translation.

*The size of a block.* `SizeInv`, on top of `LoopInv`: after `n` instructions
and `k` characters there are at most `28 n + 5 k` bytes, 28 being the longest
case that continues a line (`BytesBound`); the cases that end one may be longer,
but there is one of them (`EmittedJumpEnds`), and 74 bytes cover it. That `n` and
`k` are at most a line long is `LoopInv`.

*The machine.* `MInv` adds to `IInv` that the stack holds words and has room.
Neither `OverwrittenByItself` nor `AgreesWithCells` can be proved from it: they
need that the running block is what *some* playfield compiles to (`InLine`), at
an instruction of that block, and in a string exactly at its quote
(`InQuotes`); together `LInv`. With it, `LineOfBlock` and `StringOfBlock` give
the cell of every instruction and every character, and `LineInvariance` says
that a store into no cell of the block leaves it as it is.

*Befunge.* `RunsBefunge` maps steps one by one. `Resolve` and `Enter` do not
move `Cell`; neither does `GoRound`, since a whole turn leads back to the same
position (`FullTurn`). For the others, `ReadsCell` shows that the instruction
about to run is the character of its cell, unless the block is `Overwritten`,
and `NextCell` that the next instruction is in the next cell. What the
instruction does depends on the words it pops and on no others
(`OperandsOnly`, `ReadsOperands`), so it is the same with the frame above the
reserve cut off, if it is not `Drained` (`Operands`, `OnTop`). A trap is a trap,
and a lack of code memory or of stack is `GiveUp`.

*The emitted code.* `EmitShape` reads the table of codes once and for all: a
pop is among the first three instructions, only `/` and `%` divide, a call
stands right behind the alignment and the restoration right behind the call, the
one branch skips a `mov`. The invariant says how deep the stack is at each of the first three
instructions (`Deep`) and what `rbx` and the stack pointer are between the
alignment and its restoration (`Padded`); `CallsAligned` alone says nothing of
the step before the call. That registers hold words needs `DivFits` (a dividend
of two words, the upper less than the divisor, has a quotient of one word) and
`MulFits`.

*What the code means.* `MeansCharacter` speaks of the last instruction only. The
invariant `Meant` says what registers, flags and stack hold before each one:
`Popping`, common to all characters that take operands (the first `n` words are
in their registers, the rest is on the stack); then one conjunct for each group,
up to the one word that is left to push (`Result`) or the target that is left to
jump to (`Target`). `Calling` is where the argument is needed most: before the
call the operands are in `rdi`, `rsi`, `rdx` in that order (`Ready`), after it
only `rax` and `rbx` are known (`Answered`), and `rbx` still says whether a word
of padding lies above the stack (`Padding`), so that the restoration takes
exactly what the alignment put there. `GoesForward` and `Elsewhere` leave to
each step only its own group. A quotient fits because `xor rdx, rdx` stands
before `div`: the dividend has an upper half of zero, which is less than any
divisor but zero (`DividingStep`).

*The loader.* `LoadsFile` says nothing before the program starts, and names the
row and the column of a character by counting newlines, which the loader never
does. The invariant `LoaderInv` therefore has *marks*: where in the file each
line that has been read began (`ReadInv`; the marks grow strictly, each line
read is what stands between two of them, and what is left of the file begins at
the last one), and the playfield as a function of the lines and the loop
counters (`CopyInv`). `NewlinesBefore` is what ties the marks to the file: the
newlines before a position are exactly the ends of the lines before it, so that
their number is the row and the last of them gives the column (`CharacterPlace`,
`PlaceCharacter`). With `EveryRow` (every line of the file is the
row of some position, an empty one of its newline) the loader's two tests decide `FitsPlayfield`.

*What is printed is read back.* For one number: `Spells(D, n)` says that the
digits `D` fold to `n`, by giving the values on the way. That `Decimal` spells
its argument is shown for the least number for which it might not
(`DecimalExists`, `DecimalSpells`; `SpellsMore` is the step by one digit);
`Number` folds digits wherever they stand (`NumberIs`, `NumberAt`), and the
blank that `.` prints is where they end (`EndOfIs`). The sign is the step that
`SignedWord` justifies: a word and its negative are each other's complement
modulo 2^64, also for the smallest signed word. For a sequence of prints
`ReadsBack` is not inductive, as it says nothing of what is still to be read.
The invariant `EchoInv` has the *tails* of the text, what each print and the ones
after it have added; the input is always the tail behind what has been read, or
that with the one blank a number has left in front of it (`Follows`).

The theorems and the runs check the same definitions. Every `IInv` conjunct but
`Running_OK` (by which the running block is in code memory) is an invariant of
run `jit`.

### What is only model-checked

* The loop of `InvalidateCoords`: `IteratorValid`, `ImplementsJit`. The proofs
  about `Jit` take its effect in one step.
* Liveness: `Returns`, `ReachesCode`. TLAPS has no proof rules here for
  fairness and `ENABLED`.
* The properties of the runs that expect a violation, which do not hold.

Everything else a run checks is also a theorem. What needs an induction over data
(the digits of a number, the lines of a file, the prints of a program) is proved
without the library's induction theorems, which take an operator as a parameter
that no prover here can instantiate: by the least counterexample, or by an
invariant of the steps that has the whole sequence of values in it.

## 5. Findings

1. *The assertion on code memory fails* (`jit_assert`). README.md:18 says the
   thunk table is used for "freeing the allocated code based on checking addr".
   `InvalidateCoords` overwrites `addr` and frees nothing; a comment at
   thunk.cpp:60 knows of it. One block of one line that stores a blank over a
   blank is compiled on every turn, until `assert(code_mem != nullptr)` at
   compile.cpp:339 fails; in a build without assertions the next statement is a
   copy to address 0. `CodeMemoryOwned` and its mutant say what a fix has to take
   care of: the block that executes the `p` may be among those to be freed.
2. *The scan of a string can pass its start* (`compiler_start`). The comment at
   compile.cpp:292 says it stops there; the test comes after a push, so a quote
   in the last cell before the start has its first scanned cell there. The call
   still returns, since the scan comes round to its own opening quote
   (`Returns`), with the whole line pushed.
3. *A text loses its blanks* (`externs_cat`). `samples/cat.txt` copies its input
   character by character; `std::cin >> c` skips blanks and newlines.
4. *The same sample never ends* (`machine_cat`). Its loop waits for `~` to give
   -1 at the end of input; `extern_getchar` returns its uninitialised variable.

## 6. What is not modelled

* Sizes in bytes of what is allocated. A block's code has its bytes (`CodeSize`),
  but what a block of that size costs in the pool is tlsf's choice, which is not
  in the repository: `Jit` and `Machine` have places.
* The members of `coord_t` and `code_pos_t` no code calls (`Add`, `Sub`,
  `Scale`, ...), `dir_from_ascii`, `extern_put`, the snippets of the earlier
  generator, class `CodeObject`, `_rwx_free`: dead code.
* `__DebugDumpCode`, `__DebugDumpDependencies`, `print_mem` and the other writes
  to stderr: they change no state.
* xbyak, tlsf and Zydis: third-party code, taken to do what they say. The
  amalgamated header `zydis/Zydis.h` alone is 12 113 of the repository's 13 641
  lines of C++; it is used by the debug dump only. The modules cover a good part
  of the remaining 1 500, which are declarations, includes, dumps and dead code
  for the rest.

## 7. Plan

The modules were written in the order of section 2: the layout, the compiler and
its proofs, the cache, the machine without a cache, the machine code, then words
and externs, the machine with its stack against the language, the loader, code
sizes. All of that is done. What is left:

1. The run `machine` with more than three places of code or longer lines takes
   TLC too long; `RunsBefunge` covers what the instance cannot.
2. Should the code free what it invalidates, `Jit` has the place for it
   (`ReleaseCode`), and `CodeMemoryOwned` is the property to keep.
3. That `Invalidation` implements `Jit` could be a theorem: by induction on the
   steps, what the loop has done so far is `Jit`'s store for the positions visited.
4. `Returns` is checked under fairness only. Its safety part, that every step of
   the two loops decreases a measure bounded by the playfield, could be a theorem.
