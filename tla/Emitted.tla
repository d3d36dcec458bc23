------------------------------ MODULE Emitted ------------------------------
(***************************************************************************)
(* The machine code poc_compiler emits for one character, executed         *)
(* instruction by instruction: what it does to the registers and to the    *)
(* machine stack, which is the Befunge stack.  Also the code every         *)
(* unresolved thunk runs: its call and the dispatch stub compiler_dispatch *)
(* (snippets.h).                                                           *)
(*                                                                         *)
(* Any character's code may follow any other's, so nothing is known of the *)
(* registers when one begins.  The C++ functions are external: a call      *)
(* needs a stack aligned to 16 bytes, preserves rbx, and may destroy the   *)
(* other registers and everything below the stack pointer.                 *)
(***************************************************************************)
EXTENDS Words

CONSTANTS
  StackWords,  \* the words on the stack and returned by C++, at first
  Junk         \* the content of a register or a stack slot nobody has set

ASSUME WordsAssumption == StackWords \subseteq Word /\ Junk \notin Word

Reg == {"rax", "rbx", "rcx", "rdx", "rdi", "rsi"}

-----------------------------------------------------------------------------
(* Instructions: an operation, its destination, its source.                *)

I(op, d, s) == [op |-> op, d |-> d, s |-> s]

Pop(r)  == I("pop", r, "")
Push(r) == I("push", r, "")

\* call_extern and compiler_dispatch: mov rbx, rsp; and rbx, 8; sub rsp, rbx ...
AlignRsp == I("align", "rbx", "")

\* ... call rax ...
Call(f) == I("call", "rax", f)

\* ... add rsp, rbx.
RestoreRsp == I("restore", "rbx", "")

\* Bug: rdx, the upper half of the dividend, is not cleared.
DivisionUncleared(r) == << Pop("rbx"), Pop("rax"), I("div", "rax", "rbx"), Push(r) >>

\* div leaves the quotient in rax and the remainder in rdx.
Division(r) ==
  << Pop("rbx"), Pop("rax"), I("xor", "rdx", "rdx"), I("div", "rax", "rbx"), Push(r) >>

\* Bug: the jump is taken on the wrong condition.
JumpOnZeroSwapped ==
  << Pop("rax"), I("cmp0", "rax", ""), I("mov", "rax", "target2"), I("je", "", ""),
     I("mov", "rax", "target1"), I("jmp", "rax", "") >>

JumpOnZero ==
  << Pop("rax"), I("cmp0", "rax", ""), I("mov", "rax", "target1"), I("je", "", ""),
     I("mov", "rax", "target2"), I("jmp", "rax", "") >>

\* The call of an unresolved thunk, and the stub it calls.
compiler_dispatch ==
  << I("callstub", "", ""), Pop("rdi"), AlignRsp, Call("resolve_thunk"), RestoreRsp,
     I("jmp", "rax", "") >>

\* The code of each kind of character.
Emit ==
  [c \in Kinds |->
    CASE c = "+"  -> << Pop("rax"), Pop("rbx"), I("add", "rax", "rbx"), Push("rax") >>
      [] c = "-"  -> << Pop("rax"), Pop("rbx"), I("sub", "rbx", "rax"), Push("rbx") >>
      [] c = "*"  -> << Pop("rax"), Pop("rbx"), I("mul", "rax", "rbx"), Push("rax") >>
      [] c = "/"  -> Division("rax")
      [] c = "%"  -> Division("rdx")
      [] c = ":"  -> << Pop("rax"), Push("rax"), Push("rax") >>
      [] c = "\\" -> << Pop("rax"), Pop("rbx"), Push("rax"), Push("rbx") >>
      [] c = "$"  -> << Pop("rax") >>
      [] c = "!"  -> << Pop("rax"), I("xor", "rcx", "rcx"), I("cmp0", "rax", ""),
                        I("sete", "rcx", ""), Push("rcx") >>
      [] c = "gt"  -> << Pop("rax"), Pop("rbx"), I("xor", "rcx", "rcx"), I("cmp", "rbx", "rax"),
                        I("setg", "rcx", ""), Push("rcx") >>
      [] c = "&"  -> << AlignRsp, Call("getint"), RestoreRsp, Push("rax") >>
      [] c = "~"  -> << AlignRsp, Call("getchar"), RestoreRsp, Push("rax") >>
      [] c = "."  -> << Pop("rdi"), AlignRsp, Call("printint"), RestoreRsp >>
      [] c = ","  -> << Pop("rdi"), AlignRsp, Call("printchar"), RestoreRsp >>
      [] c = "@"  -> << AlignRsp, Call("exit"), RestoreRsp, I("ud2", "", "") >>
      [] c = "g"  -> << Pop("rdi"), Pop("rsi"), AlignRsp, Call("read_val"), RestoreRsp,
                        Push("rax") >>
      [] c = "p"  -> << Pop("rdi"), Pop("rsi"), Pop("rdx"), AlignRsp, Call("write_val"),
                        RestoreRsp >>
      [] c = "_"  -> JumpOnZero
      [] c = "|"  -> JumpOnZero
      [] c = "?"  -> << AlignRsp, Call("rand"), RestoreRsp, I("table", "rax", ""),
                        I("jmp", "rax", "") >>
      [] c = ">"  -> << I("mov", "rax", "target1"), I("jmp", "rax", "") >>
      [] c = "0"  -> << I("pushimm", "", "") >>
      [] c = "nop" -> << >>
      [] c = "thunk" -> compiler_dispatch]

-----------------------------------------------------------------------------
VARIABLES
  char,     \* the character whose code runs
  imm,      \* the literal it pushes, or the return address the thunk's call pushes
  stk0,     \* the stack at the beginning, its top first
  odd,      \* 1 if the bottom of the stack is not a multiple of 16
  ret,      \* what the C++ function returns
  pc,       \* the index of the next instruction
  stk,      \* the stack now
  reg,
  flags,    \* what the last comparison found: equal, greater
  called,   \* the call made: the function and its arguments
  went,     \* the target jumped to, 0 for none
  state     \* "run", "trap" (SIGFPE), "exit"

inputs == <<char, imm, stk0, odd, ret>>
vars == <<inputs, pc, stk, reg, flags, called, went, state>>

Init ==
  /\ char \in Kinds
  /\ imm \in StackWords
  /\ stk0 \in [1..3 -> StackWords]
  /\ odd \in {0, 1}
  /\ ret \in StackWords
  /\ pc = 1
  /\ stk = stk0
  /\ reg = [r \in Reg |-> Junk]
  /\ flags = [equal |-> FALSE, greater |-> FALSE]
  /\ called = << >>
  /\ went = 0
  /\ state = "run"

Finished == state = "run" /\ pc > Len(Emit[char])

ins == Emit[char][pc]

\* The next instruction is one of ops.
At(ops) == state = "run" /\ ~Finished /\ ins.op \in ops

Advance == pc' = pc + 1 /\ UNCHANGED <<inputs, state>>

PopReg ==
  /\ At({"pop"})
  /\ reg' = [reg EXCEPT ![ins.d] = Head(stk)]
  /\ stk' = Tail(stk)
  /\ Advance /\ UNCHANGED <<flags, called, went>>

PushReg ==
  /\ At({"push"})
  /\ stk' = << reg[ins.d] >> \o stk
  /\ Advance /\ UNCHANGED <<reg, flags, called, went>>

\* push with an immediate operand, and the return address of call.
PushImm ==
  /\ At({"pushimm", "callstub"})
  /\ stk' = << imm >> \o stk
  /\ Advance /\ UNCHANGED <<reg, flags, called, went>>

\* The result w of an operation on a and b, if they are known.
Known(a, b, w) == IF Junk \in {a, b} THEN Junk ELSE w

\* Bug: a difference below zero does not wrap around.
MinusUnwrapped(a, b) == Known(a, b, a - b)

Plus(a, b)  == Known(a, b, (a + b) % Modulus)
Minus(a, b) == Known(a, b, (a - b) % Modulus)

\* (The flags these leave are never read.)
AddOrSub ==
  /\ At({"add", "sub"})
  /\ reg' = [reg EXCEPT ![ins.d] =
               IF ins.op = "add" THEN Plus(@, reg[ins.s]) ELSE Minus(@, reg[ins.s])]
  /\ Advance /\ UNCHANGED <<stk, flags, called, went>>

Mul ==
  /\ At({"mul"})
  /\ LET a == reg["rax"]
         b == reg[ins.s]
     IN  reg' = [reg EXCEPT !["rax"] = Known(a, b, (a * b) % Modulus),
                            !["rdx"] = Known(a, b, (a * b) \div Modulus)]
  /\ Advance /\ UNCHANGED <<stk, flags, called, went>>

\* xor r, r
Clear ==
  /\ At({"xor"})
  /\ reg' = [reg EXCEPT ![ins.d] = 0]
  /\ flags' = [equal |-> TRUE, greater |-> FALSE]
  /\ Advance /\ UNCHANGED <<stk, called, went>>

\* The words a register may hold.
Read(r) == IF reg[r] = Junk THEN Word ELSE {reg[r]}

\* The dividend is rdx:rax; a divisor of zero, or a quotient that does not fit, traps.
Div ==
  /\ At({"div"})
  /\ \E high \in Read("rdx"), low \in Read("rax"), divisor \in Read(ins.s) :
       \/ /\ high < divisor
          /\ reg' = [reg EXCEPT !["rax"] = (high * Modulus + low) \div divisor,
                                !["rdx"] = (high * Modulus + low) % divisor]
          /\ Advance
       \/ /\ high >= divisor
          /\ state' = "trap"
          /\ UNCHANGED <<inputs, pc, reg>>
  /\ UNCHANGED <<stk, flags, called, went>>

Compare ==
  /\ At({"cmp", "cmp0"})
  /\ \E a \in Read(ins.d), b \in IF ins.op = "cmp0" THEN {0} ELSE Read(ins.s) :
       flags' = [equal |-> a = b, greater |-> Signed(a) > Signed(b)]
  /\ Advance /\ UNCHANGED <<stk, reg, called, went>>

\* Only the low byte is written.
SetByte ==
  /\ At({"sete", "setg"})
  /\ LET holds == IF ins.op = "sete" THEN flags.equal ELSE flags.greater
     IN  reg' = [reg EXCEPT ![ins.d] = IF @ # 0 THEN Junk ELSE IF holds THEN 1 ELSE 0]
  /\ Advance /\ UNCHANGED <<stk, flags, called, went>>

LoadTarget ==
  /\ At({"mov"})
  /\ reg' = [reg EXCEPT ![ins.d] = IF ins.s = "target1" THEN 1 ELSE 2]
  /\ Advance /\ UNCHANGED <<stk, flags, called, went>>

\* je over the next instruction
JumpIfEqual ==
  /\ At({"je"})
  /\ pc' = IF flags.equal THEN pc + 2 ELSE pc + 1
  /\ UNCHANGED <<inputs, state, stk, reg, flags, called, went>>

\* and rax, 3; mov rax, [jpt + rax * 8]; rbx gets the table's address.
LookUp ==
  /\ At({"table"})
  /\ reg' = [reg EXCEPT !["rax"] = Known(@, @, (@ % 4) + 1), !["rbx"] = Junk]
  /\ Advance /\ UNCHANGED <<stk, flags, called, went>>

Jump ==
  /\ At({"jmp"})
  /\ went' = reg[ins.d]
  /\ Advance /\ UNCHANGED <<stk, reg, flags, called>>

\* The stack pointer is a multiple of 8; this is 1 if it is not one of 16.
Misaligned == (Len(stk) + odd) % 2

\* Bug: the stack pointer is moved whether or not it has to be.
AlignAlways ==
  /\ At({"align"})
  /\ reg' = [reg EXCEPT !["rbx"] = 1]
  /\ stk' = << Junk >> \o stk
  /\ Advance /\ UNCHANGED <<flags, called, went>>

\* rbx counts words here, not bytes.
Align ==
  /\ At({"align"})
  /\ reg' = [reg EXCEPT !["rbx"] = Misaligned]
  /\ stk' = IF Misaligned = 1 THEN << Junk >> \o stk ELSE stk
  /\ Advance /\ UNCHANGED <<flags, called, went>>

Restore ==
  /\ At({"restore"})
  /\ stk' = SubSeq(stk, reg["rbx"] + 1, Len(stk))
  /\ Advance /\ UNCHANGED <<reg, flags, called, went>>

\* How many of rdi, rsi, rdx a function takes.
Arity(f) ==
  CASE f \in {"getint", "getchar", "rand", "exit"} -> 0
    [] f \in {"printint", "printchar", "resolve_thunk"} -> 1
    [] f = "read_val" -> 2
    [] f = "write_val" -> 3

CallFunction ==
  /\ At({"call"}) /\ ins.s # "exit"
  /\ called' = << ins.s, SubSeq(<< reg["rdi"], reg["rsi"], reg["rdx"] >>, 1, Arity(ins.s)) >>
  /\ reg' = [r \in Reg |-> IF r = "rax" THEN ret ELSE IF r = "rbx" THEN reg["rbx"] ELSE Junk]
  /\ Advance /\ UNCHANGED <<stk, flags, went>>

\* extern_exit does not return: the ud2 behind the call is never reached.
CallExit ==
  /\ At({"call"}) /\ ins.s = "exit"
  /\ state' = "exit"
  /\ UNCHANGED <<inputs, pc, stk, reg, flags, called, went>>

Ended == (Finished \/ state # "run") /\ UNCHANGED vars

Next ==
  \/ PopReg \/ PushReg \/ PushImm
  \/ AddOrSub \/ Mul \/ Clear \/ Div \/ Compare \/ SetByte
  \/ LoadTarget \/ JumpIfEqual \/ LookUp \/ Jump
  \/ Align \/ CallFunction \/ CallExit \/ Restore
  \/ Ended

Spec == Init /\ [][Next]_vars

-----------------------------------------------------------------------------
(* Properties. *)

(* Registers and stack hold words of 64 bits, or what nobody has set.      *)
TypeOK ==
  /\ stk \in Seq(Word \cup {Junk})
  /\ reg \in [Reg -> Word \cup {Junk}]
  /\ went \in Word \cup {Junk}
  /\ pc \in Nat
  /\ state \in {"run", "trap", "exit"}

(* "Preserve stack alignment for external C calls": a call finds the stack *)
(* pointer at a multiple of 16, whatever was on the Befunge stack before,  *)
(* and whether the call is a block's or the dispatch stub's.               *)
CallsAligned == At({"call"}) => Misaligned = 0

(* When its code has run, a character has done what it means: the operands *)
(* in their order, the words wrapped around, the arguments in the          *)
(* registers of the calling convention, nothing of the alignment left on   *)
(* the stack, and no use made of what a register held before or what a     *)
(* call has destroyed.                                                     *)
MeansCharacter ==
  Finished =>
    /\ stk = After(char, stk0, imm, ret)
    /\ called = Asks(char, stk0, imm)
    /\ went = Way(char, stk0, ret)

(* Only a division by zero traps: never a quotient that does not fit, by   *)
(* what happened to be in rdx.                                             *)
TrapsOnZeroOnly == state = "trap" => Traps(char, stk0)
=============================================================================
