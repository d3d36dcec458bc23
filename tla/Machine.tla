------------------------------ MODULE Machine ------------------------------
(***************************************************************************)
(* A Befunge program running under befunjit: module Jit with the values    *)
(* the program computes.  The Befunge stack is the machine stack, on top   *)
(* of the frame of trampoline_code and of whatever lies above it.  What a  *)
(* 'p' stores and where, which way '_', '|' and '?' go, what 'g' finds and *)
(* what is read and printed follow from it.                                *)
(*                                                                         *)
(* Every action is one of Jit's, or leaves Jit's variables alone, together *)
(* with what the instruction does to the stack, the input and the output.  *)
(***************************************************************************)
EXTENDS Jit, Externs

CONSTANTS
  Inputs,      \* the texts standard input may hold
  Reserve,     \* the words of trampoline_code's buf (512)
  FrameLen,    \* the words above it: frames, arguments, environment
  FrameWords,  \* what these hold
  StackLimit   \* the words the stack has room for

ASSUME StackAssumption ==
  /\ Reserve \in Nat /\ FrameLen \in Nat
  /\ FrameWords \subseteq Word
  /\ StackLimit \in Nat /\ StackLimit >= Reserve + FrameLen

\* A word holds a byte, and every coordinate as a positive number.
ASSUME WidthAssumption == SignBit >= 128 /\ N_COLS <= SignBit /\ N_ROWS <= SignBit

ASSUME InputsAssumption == Inputs \subseteq Seq(Byte)

\* A 'p' may store any byte.
ASSUME StoresAssumption == StoreVals = Byte

VARIABLES
  stk,      \* the words above the stack pointer, the top first
  str,      \* the next character of the block's string, 0 while none is being pushed
  called,   \* the last instruction's call of C++: function and arguments
  cin,      \* std::cin
  fault     \* the signal that has ended the process, or "none"

outside == <<stk, str, called, cin, fault>>
allvars == <<vars, outside>>

\* byte buf[1024 * 4] = {0}
Buf == [i \in 1..Reserve |-> 0]

MachineInit ==
  /\ Init
  /\ \E f \in [1..FrameLen -> FrameWords] : stk = Buf \o f
  /\ str = 0
  /\ called = << >>
  /\ cin \in {[rest |-> i, failed |-> FALSE] : i \in Inputs}
  /\ fault = "none"

-----------------------------------------------------------------------------
char == code.ins[ip]

kind == Kind(char)

\* The block is at an instruction of S, not in the middle of a string.
AtChar(S) == fault = "none" /\ str = 0 /\ AtInstr(S)

\* There are operands, there is room for the result, and the processor does not trap.
Possible ==
  /\ Len(stk) >= Pops(kind)
  /\ kind \in {":", "0", "&", "~"} => Len(stk) < StackLimit
  /\ ~Traps(kind, stk)

\* What the instruction does when the function it calls, if any, gives r.
Execute(r) ==
  /\ stk' = After(kind, stk, Digit(char), r.val)
  /\ called' = Asks(kind, stk, Digit(char))
  /\ cin' = r.cin
  /\ UNCHANGED <<str, fault>>

Results == Returns(kind, stk, mem, cin)

-----------------------------------------------------------------------------
\* Thunks, resolve_thunk and the compiler do nothing to the words on the stack.
Resolve(a) == fault = "none" /\ ResolveThunk(a) /\ UNCHANGED outside

OutOfMemory == fault = "none" /\ OutOfCodeMemory /\ UNCHANGED outside

Enter == fault = "none" /\ EnterBlock /\ UNCHANGED outside

\* Arithmetic, the stack, input, output, 'g', digits, and what does nothing.
Compute ==
  /\ AtChar(Byte \ (EndsBlock \cup {Put})) /\ Possible
  /\ Continue
  /\ \E r \in Results : Execute(r)

\* Bug: the coordinates are taken from the stack in the wrong order.
PutSwapped ==
  /\ AtChar({Put}) /\ Possible
  /\ \/ /\ Inside(stk[1], stk[2])
        /\ Store([x |-> stk[1], y |-> stk[2]], Truncated(stk[3]))
     \/ ~Inside(stk[1], stk[2]) /\ StoreOutside
  /\ \E r \in Results : Execute(r)

\* 'p': extern_write_val(y, x, v), the arguments popped in this order.
PutWord ==
  /\ AtChar({Put}) /\ Possible
  /\ \/ /\ Inside(stk[2], stk[1])
        /\ Store([x |-> stk[2], y |-> stk[1]], Truncated(stk[3]))
     \/ ~Inside(stk[2], stk[1]) /\ StoreOutside
  /\ \E r \in Results : Execute(r)

\* < > ^ v # _ | ?
Turn ==
  /\ AtChar(EndsBlock \ {Quote, Halt}) /\ Possible
  /\ \E r \in Results : Execute(r) /\ Leave(Way(kind, stk, r.val))

\* The line closed on itself: jmp to the block's own thunk.
GoRound ==
  /\ fault = "none" /\ ctl = "code" /\ str = 0 /\ ip > Len(code.ins)
  /\ Leave(1)
  /\ UNCHANGED outside

\* A quote has no code of its own.
OpenString ==
  /\ AtChar({Quote})
  /\ str' = 1
  /\ called' = << >>
  /\ UNCHANGED <<vars, stk, cin, fault>>

InString == fault = "none" /\ ctl = "code" /\ str # 0

\* push imm
PushChar ==
  /\ InString /\ str <= Len(code.str) /\ Len(stk) < StackLimit
  /\ stk' = << code.str[str] >> \o stk
  /\ str' = str + 1
  /\ called' = << >>
  /\ UNCHANGED <<vars, cin, fault>>

CloseString ==
  /\ InString /\ str > Len(code.str)
  /\ Leave(1)
  /\ str' = 0
  /\ called' = << >>
  /\ UNCHANGED <<stk, cin, fault>>

Exit == AtChar({Halt}) /\ Stop /\ UNCHANGED outside

\* div by zero
FloatingPointException ==
  /\ AtChar(Byte) /\ Len(stk) >= Pops(kind) /\ Traps(kind, stk)
  /\ fault' = "SIGFPE"
  /\ UNCHANGED <<vars, stk, str, called, cin>>

\* A pop above the bottom of the stack, or a push that leaves its room.
SegmentationFault ==
  /\ \/ /\ AtChar(Byte)
        /\ \/ Len(stk) < Pops(kind)
           \/ kind \in {":", "0", "&", "~"} /\ Len(stk) = StackLimit
     \/ InString /\ str <= Len(code.str) /\ Len(stk) = StackLimit
  /\ fault' = "SIGSEGV"
  /\ UNCHANGED <<vars, stk, str, called, cin>>

Gone == (fault # "none" \/ ctl \in {"exit", "abort"}) /\ UNCHANGED allvars

MachineNext ==
  \/ \E a \in Addr : Resolve(a)
  \/ OutOfMemory \/ Enter
  \/ Compute \/ PutWord \/ Turn \/ GoRound
  \/ OpenString \/ PushChar \/ CloseString
  \/ Exit \/ FloatingPointException \/ SegmentationFault
  \/ Gone

MachineSpec == MachineInit /\ [][MachineNext]_allvars

\* The processor keeps executing.
MachineFairSpec == MachineSpec /\ WF_allvars(MachineNext)
-----------------------------------------------------------------------------
(* The machine against the language: where it is on the playfield, and     *)
(* what is on the Befunge stack.                                           *)

\* The last instruction of the running block, and the cell after its string.
LastCell == At(pos, Len(code.ins) - 1)
StringEnd == At(LastCell, Len(code.str) + 1)

Cell ==
  IF ctl # "code" THEN pos
  ELSE IF str = 0 THEN At(pos, ip - 1)
  ELSE At(LastCell, str)

Life ==
  CASE fault = "SIGFPE"  -> "trap"
    [] fault = "SIGSEGV" -> "abort"
    [] fault = "none"    -> IF ctl \in {"thunk", "code"} THEN "run" ELSE ctl

BefungeStack == SubSeq(stk, 1, Len(stk) - FrameLen)

Cells == INSTANCE Befunge WITH ctl <- Life, pos <- Cell, quoted <- str # 0, stk <- BefungeStack

\* The block ends in a string; that string has a closing quote.
HasString == Len(code.ins) > 0 /\ code.ins[Len(code.ins)] = Quote

IsClosed == code.exits[1] # StringEnd

\* What is left to run of the block is no longer what the playfield says.
Overwritten ==
  /\ ctl = "code"
  /\ \/ str = 0 /\ \E i \in ip..Len(code.ins) : code.ins[i] # Fetch(mem, At(pos, i - 1))
     \/ /\ HasString
        /\ \/ \E j \in 1..Len(code.str) : j >= str /\ code.str[j] # Fetch(mem, At(LastCell, j))
           \/ IsClosed /\ Fetch(mem, StringEnd) # Quote

\* All of a string without a closing quote has been pushed.
Unterminated == InString /\ str > Len(code.str) /\ ~IsClosed

\* The next instruction takes words from above the reserve.
Drained == Len(stk) < FrameLen + (IF AtChar(Byte) THEN Pops(kind) ELSE 0)

-----------------------------------------------------------------------------
(* Properties. *)

MachineTypeOK ==
  /\ TypeOK
  /\ stk \in Seq(Word) /\ Len(stk) <= StackLimit
  /\ str \in Nat
  /\ cin \in Stream
  /\ fault \in {"none", "SIGFPE", "SIGSEGV"}

(* befunjit runs Befunge: every step is one of the language, in which each *)
(* cell is read when control reaches it, with the same words on the stack, *)
(* the same calls of the outside and the same playfield; the reserve       *)
(* counts as the zeros an empty stack gives.  There are three exceptions,  *)
(* each a choice of the code: what is left of a block whose cells have     *)
(* been overwritten since it was compiled; "Unterminated string; jump back *)
(* to start"; and words from above the reserve ("underflow protection" is  *)
(* a todo).                                                                *)
AgreesWithCells ==
  /\ Cells!Init
  /\ [][~Overwritten /\ ~Unterminated /\ ~Drained => Cells!Next]_(Cells!vars)

(* The first of these exceptions has one cause: a block is entered as the  *)
(* playfield has it, and what is left of it goes stale only by a store     *)
(* that block executes itself.                                             *)
OverwrittenByItself ==
  [][Overwritten' => Overwritten \/ (ctl = "code" /\ blk' = blk /\ mem' # mem)]_allvars

(* What 'p' has written, 'g' finds: the low byte, if the coordinates are   *)
(* those of a cell as signed words, and otherwise nothing; and no other    *)
(* cell changes (extern_write_val, extern_read_val, which compare unsigned *)
(* words).                                                                 *)
PutThenGet ==
  [][mem' # mem \/ called' # called =>
       IF called' # << >> /\ called'[1] = "write_val"
       THEN LET y == called'[2][1]
                x == called'[2][2]
                v == called'[2][3]
                hit == Signed(x) \in 0..N_COLS-1 /\ Signed(y) \in 0..N_ROWS-1
            IN  /\ extern_read_val(mem', y, x) = IF hit THEN v % 256 ELSE 0
                /\ \A c \in Coord : (hit /\ c = [x |-> x, y |-> y]) \/ mem'[c] = mem[c]
       ELSE mem' = mem]_allvars

-----------------------------------------------------------------------------
(* What a sample of the repository relies on, and the code does not do.    *)

(* samples/cat.txt ends when '~' gives -1.                                 *)
ProgramEnds == <>(ctl = "exit")
=============================================================================
