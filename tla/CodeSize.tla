------------------------------ MODULE CodeSize ------------------------------
(***************************************************************************)
(* One call of poc_compiler with the number of bytes it has assembled: the *)
(* code generator's buffer, tmp_buf, is one page, whatever the block.      *)
(*                                                                         *)
(* The lengths are those of the x86-64 instructions the generator emits,   *)
(* addresses taken as full 64-bit immediates.                              *)
(***************************************************************************)
EXTENDS Compiler, Words

CONSTANT
  BufferSize    \* sizeof(tmp_buf)

VARIABLE
  size          \* code_generator.getSize()

sizedvars == <<vars, size>>

\* mov rax, addr; mov rbx, rsp; and rbx, 8; sub rsp, rbx; call rax; add rsp, rbx
CallExtern == 10 + 3 + 4 + 3 + 2 + 3

\* mov rax, jump_target; jmp rax
JumpToThunk == 10 + 2

\* push imm8, sign-extended, or push imm32
PushBytes(c) == IF c < 128 THEN 2 ELSE 5

\* The code of one case of the switch.
Bytes(kind) ==
  CASE kind = "$"                       -> 1
    [] kind = "0"                       -> PushBytes(0)
    [] kind = ":"                       -> 3
    [] kind = "\\"                      -> 4
    [] kind \in {"+", "-", "*"}         -> 2 + 3 + 1
    [] kind \in {"/", "%"}              -> 2 + 3 + 3 + 1
    [] kind = "!"                       -> 1 + 3 + 4 + 3 + 1
    [] kind = "gt"                      -> 2 + 3 + 3 + 3 + 1
    [] kind \in {"&", "~", ".", ","}    -> CallExtern + 1
    [] kind = "@"                       -> CallExtern + 2
    [] kind \in {"g", "p"}              -> CallExtern + 3
    [] kind \in {"_", "|"}              -> 1 + 4 + 10 + 2 + 10 + 2
    [] kind = "?"                       -> CallExtern + 4 + 7 + 4 + 2 + 4 * 8
    [] OTHER                            -> 0

\* The cases that set emitted_jump.
EmittedJump == {"@", "_", "|", "?"}

\* if (!emitted_jump), after the loop
FinalBytes(kind) == IF phase' = "done" /\ kind \notin EmittedJump THEN JumpToThunk ELSE 0

instr == Fetch(mem, cur)

SizedEmit ==
  /\ Emit \/ EmitJump
  /\ size' = size + Bytes(Kind(instr)) + FinalBytes(Kind(instr))

SizedOpenString == OpenString /\ UNCHANGED size

SizedScan ==
  \/ ScanPush  /\ size' = size + PushBytes(Fetch(mem, scan)) + FinalBytes(">")
  \/ ScanClose /\ size' = size + FinalBytes(">")

SizedReturned == Returned /\ UNCHANGED size

\* code_generator.reset()
SizedInit == Init /\ size = 0

SizedNext == SizedEmit \/ SizedOpenString \/ SizedScan \/ SizedReturned

SizedSpec == SizedInit /\ [][SizedNext]_sizedvars

SizedFairSpec == SizedSpec /\ WF_sizedvars(SizedNext)

-----------------------------------------------------------------------------
\* A line of calls with three operands, a string of bytes of five over all of it, and the end.
LargestBlock(d) == 28 * Span(d) + 5 * Span(d) + 74

ASSUME BufferAssumption ==
  BufferSize \in Nat /\ \A d \in Dirs : LargestBlock(d) <= BufferSize

(* Whatever is on the playfield, a block fits into tmp_buf: a whole line   *)
(* of the longest instructions, and a string that goes on over the line    *)
(* again, up to its own opening quote (poc_compiler bounds neither).       *)
FitsBuffer == size <= BufferSize
=============================================================================
