--------------------------- MODULE EmittedProofs ---------------------------
(***************************************************************************)
(* For words of any width and any stack: registers and stack keep their    *)
(* types, every call finds the stack aligned, the code of a character does *)
(* what the character means, and only a division by zero traps.            *)
(***************************************************************************)
EXTENDS Emitted, SequenceTheorems, TLAPS

Value == Word \cup {Junk}

\* A quotient of two words, and of a double word that does not overflow, is a word.
LEMMA DivFits ==
  ASSUME NEW R \in Nat \ {0}, NEW h \in Nat, NEW l \in Nat, NEW d \in Nat, l < R, h < d
  PROVE  /\ (h * R + l) \div d \in 0..R-1
         /\ (h * R + l) % d \in 0..d-1
<1> DEFINE n == h * R + l
           q == n \div d
<1>1. n \in Nat /\ d \in Nat \ {0} /\ h + 1 <= d
  BY Z3
<1>2. q \in Nat /\ n % d \in 0..d-1 /\ q * d <= n
  BY <1>1, Z3
<1>3. n < d * R
  <2>1. n < (h + 1) * R
    BY Z3
  <2>2. (h + 1) * R <= d * R
    BY <1>1, Z3
  <2> QED BY <2>1, <2>2, <1>1, Z3
<1>4. q < R
  <2>1. SUFFICES ASSUME q >= R PROVE FALSE
    BY <1>2
  <2>2. q * d >= R * d
    BY <2>1, <1>1, <1>2, Z3
  <2>3. R * d = d * R /\ R * d \in Nat
    BY Z3
  <2> QED BY <2>2, <2>3, <1>2, <1>3, <1>1, Z3
<1> HIDE DEF q
<1>5. q \in 0..R-1
  BY <1>2, <1>4
<1> QED BY <1>2, <1>5 DEF q

\* The high half of a product of two words is a word.
LEMMA MulFits ==
  ASSUME NEW R \in Nat \ {0}, NEW a \in 0..R-1, NEW b \in 0..R-1
  PROVE  (a * b) \div R \in 0..R-1
<1>1. a * b \in Nat /\ a * b <= b * R
  BY Z3
<1>2. a * b < R * R
  BY Z3
<1>3. (a * b) \div R \in Nat /\ ((a * b) \div R) * R <= a * b
  BY <1>1, Z3
<1>4. (a * b) \div R < R
  <2> DEFINE q == (a * b) \div R
  <2>1. SUFFICES ASSUME q >= R PROVE FALSE
    BY <1>3
  <2>2. q * R >= R * R
    BY <2>1, <1>3, Z3
  <2> QED BY <2>2, <1>2, <1>3, <1>1, Z3
<1> QED BY <1>3, <1>4

-----------------------------------------------------------------------------
(***************************************************************************)
(* The shape of the code of every character: operands are registers, only  *)
(* the first three instructions take from the stack, only / and % divide,  *)
(* a call stands between the alignment and its restoration, and the one    *)
(* branch skips a mov.                                                     *)
(***************************************************************************)
ShapeAt(c, code, k) ==
  k <= Len(code) =>
    /\ code[k].op \in {"push", "pop", "add", "sub", "mul", "div", "xor", "cmp", "cmp0", "sete",
                        "setg", "mov", "table", "jmp"} => code[k].d \in Reg
    /\ code[k].op \in {"add", "sub", "mul", "div", "cmp"} => code[k].s \in Reg
    /\ code[k].op = "div" => c \in {"/", "%"}
    /\ code[k].op = "pop" => k <= 3
    /\ code[k].op = "call" => k > 1 /\ code[k-1].op = "align"
    /\ code[k].op = "restore" => k > 2 /\ code[k-1].op = "call"
    /\ code[k].op = "je" => k = 4 /\ Len(code) = 6 /\ code[5].op = "mov"

Shape(c, code) ==
  /\ Len(code) \in 0..6
  /\ ShapeAt(c, code, 1) /\ ShapeAt(c, code, 2) /\ ShapeAt(c, code, 3)
  /\ ShapeAt(c, code, 4) /\ ShapeAt(c, code, 5) /\ ShapeAt(c, code, 6)

\* Every code the compiler emits has this shape.
LEMMA EmitShape == \A c \in Kinds : Shape(c, Emit[c])
<1> SUFFICES ASSUME NEW c \in Kinds PROVE Shape(c, Emit[c])
  OBVIOUS
<1>1. CASE c = "+"
  <2> DEFINE code == << Pop("rax"), Pop("rbx"), I("add", "rax", "rbx"), Push("rax") >>
  <2>1. Emit[c] = code
    BY <1>1 DEF Emit, Kinds
  <2>2. /\ Len(code) = 4
        /\ code[1].op = "pop" /\ code[1].d = "rax"
        /\ code[2].op = "pop" /\ code[2].d = "rbx"
        /\ code[3].op = "add" /\ code[3].d = "rax" /\ code[3].s = "rbx"
        /\ code[4].op = "push" /\ code[4].d = "rax"
    BY DEF Pop, Push, I
  <2> HIDE DEF code
  <2>3. Shape(c, code)
    BY <2>2 DEF Shape, ShapeAt, Reg
  <2> QED BY <2>1, <2>3
<1>2. CASE c = "-"
  <2> DEFINE code == << Pop("rax"), Pop("rbx"), I("sub", "rbx", "rax"), Push("rbx") >>
  <2>1. Emit[c] = code
    BY <1>2 DEF Emit, Kinds
  <2>2. /\ Len(code) = 4
        /\ code[1].op = "pop" /\ code[1].d = "rax"
        /\ code[2].op = "pop" /\ code[2].d = "rbx"
        /\ code[3].op = "sub" /\ code[3].d = "rbx" /\ code[3].s = "rax"
        /\ code[4].op = "push" /\ code[4].d = "rbx"
    BY DEF Pop, Push, I
  <2> HIDE DEF code
  <2>3. Shape(c, code)
    BY <2>2 DEF Shape, ShapeAt, Reg
  <2> QED BY <2>1, <2>3
<1>3. CASE c = "*"
  <2> DEFINE code == << Pop("rax"), Pop("rbx"), I("mul", "rax", "rbx"), Push("rax") >>
  <2>1. Emit[c] = code
    BY <1>3 DEF Emit, Kinds
  <2>2. /\ Len(code) = 4
        /\ code[1].op = "pop" /\ code[1].d = "rax"
        /\ code[2].op = "pop" /\ code[2].d = "rbx"
        /\ code[3].op = "mul" /\ code[3].d = "rax" /\ code[3].s = "rbx"
        /\ code[4].op = "push" /\ code[4].d = "rax"
    BY DEF Pop, Push, I
  <2> HIDE DEF code
  <2>3. Shape(c, code)
    BY <2>2 DEF Shape, ShapeAt, Reg
  <2> QED BY <2>1, <2>3
<1>4. CASE c = "/"
  <2> DEFINE code == << Pop("rbx"), Pop("rax"), I("xor", "rdx", "rdx"),
                    I("div", "rax", "rbx"), Push("rax") >>
  <2>1. Emit[c] = code
    BY <1>4 DEF Emit, Kinds, Division
  <2>2. /\ Len(code) = 5
        /\ code[1].op = "pop" /\ code[1].d = "rbx"
        /\ code[2].op = "pop" /\ code[2].d = "rax"
        /\ code[3].op = "xor" /\ code[3].d = "rdx"
        /\ code[4].op = "div" /\ code[4].d = "rax" /\ code[4].s = "rbx"
        /\ code[5].op = "push" /\ code[5].d = "rax"
    BY DEF Pop, Push, I
  <2> HIDE DEF code
  <2>3. Shape(c, code)
    BY <1>4, <2>2 DEF Shape, ShapeAt, Reg
  <2> QED BY <2>1, <2>3
<1>5. CASE c = "%"
  <2> DEFINE code == << Pop("rbx"), Pop("rax"), I("xor", "rdx", "rdx"),
                    I("div", "rax", "rbx"), Push("rdx") >>
  <2>1. Emit[c] = code
    BY <1>5 DEF Emit, Kinds, Division
  <2>2. /\ Len(code) = 5
        /\ code[1].op = "pop" /\ code[1].d = "rbx"
        /\ code[2].op = "pop" /\ code[2].d = "rax"
        /\ code[3].op = "xor" /\ code[3].d = "rdx"
        /\ code[4].op = "div" /\ code[4].d = "rax" /\ code[4].s = "rbx"
        /\ code[5].op = "push" /\ code[5].d = "rdx"
    BY DEF Pop, Push, I
  <2> HIDE DEF code
  <2>3. Shape(c, code)
    BY <1>5, <2>2 DEF Shape, ShapeAt, Reg
  <2> QED BY <2>1, <2>3
<1>6. CASE c = ":"
  <2> DEFINE code == << Pop("rax"), Push("rax"), Push("rax") >>
  <2>1. Emit[c] = code
    BY <1>6 DEF Emit, Kinds
  <2>2. /\ Len(code) = 3
        /\ code[1].op = "pop" /\ code[1].d = "rax"
        /\ code[2].op = "push" /\ code[2].d = "rax"
        /\ code[3].op = "push" /\ code[3].d = "rax"
    BY DEF Pop, Push, I
  <2> HIDE DEF code
  <2>3. Shape(c, code)
    BY <2>2 DEF Shape, ShapeAt, Reg
  <2> QED BY <2>1, <2>3
<1>7. CASE c = "\\"
  <2> DEFINE code == << Pop("rax"), Pop("rbx"), Push("rax"), Push("rbx") >>
  <2>1. Emit[c] = code
    BY <1>7 DEF Emit, Kinds
  <2>2. /\ Len(code) = 4
        /\ code[1].op = "pop" /\ code[1].d = "rax"
        /\ code[2].op = "pop" /\ code[2].d = "rbx"
        /\ code[3].op = "push" /\ code[3].d = "rax"
        /\ code[4].op = "push" /\ code[4].d = "rbx"
    BY DEF Pop, Push, I
  <2> HIDE DEF code
  <2>3. Shape(c, code)
    BY <2>2 DEF Shape, ShapeAt, Reg
  <2> QED BY <2>1, <2>3
<1>8. CASE c = "$"
  <2> DEFINE code == << Pop("rax") >>
  <2>1. Emit[c] = code
    BY <1>8 DEF Emit, Kinds
  <2>2. /\ Len(code) = 1
        /\ code[1].op = "pop" /\ code[1].d = "rax"
    BY DEF Pop, I
  <2> HIDE DEF code
  <2>3. Shape(c, code)
    BY <2>2 DEF Shape, ShapeAt, Reg
  <2> QED BY <2>1, <2>3
<1>9. CASE c = "!"
  <2> DEFINE code == << Pop("rax"), I("xor", "rcx", "rcx"), I("cmp0", "rax", ""),
                    I("sete", "rcx", ""), Push("rcx") >>
  <2>1. Emit[c] = code
    BY <1>9 DEF Emit, Kinds
  <2>2. /\ Len(code) = 5
        /\ code[1].op = "pop" /\ code[1].d = "rax"
        /\ code[2].op = "xor" /\ code[2].d = "rcx"
        /\ code[3].op = "cmp0" /\ code[3].d = "rax"
        /\ code[4].op = "sete" /\ code[4].d = "rcx"
        /\ code[5].op = "push" /\ code[5].d = "rcx"
    BY DEF Pop, Push, I
  <2> HIDE DEF code
  <2>3. Shape(c, code)
    BY <2>2 DEF Shape, ShapeAt, Reg
  <2> QED BY <2>1, <2>3
<1>10. CASE c = "gt"
  <2> DEFINE code == << Pop("rax"), Pop("rbx"), I("xor", "rcx", "rcx"), I("cmp", "rbx", "rax"),
                    I("setg", "rcx", ""), Push("rcx") >>
  <2>1. Emit[c] = code
    BY <1>10 DEF Emit, Kinds
  <2>2. /\ Len(code) = 6
        /\ code[1].op = "pop" /\ code[1].d = "rax"
        /\ code[2].op = "pop" /\ code[2].d = "rbx"
        /\ code[3].op = "xor" /\ code[3].d = "rcx"
        /\ code[4].op = "cmp" /\ code[4].d = "rbx" /\ code[4].s = "rax"
        /\ code[5].op = "setg" /\ code[5].d = "rcx"
        /\ code[6].op = "push" /\ code[6].d = "rcx"
    BY DEF Pop, Push, I
  <2> HIDE DEF code
  <2>3. Shape(c, code)
    BY <2>2 DEF Shape, ShapeAt, Reg
  <2> QED BY <2>1, <2>3
<1>11. CASE c = "&"
  <2> DEFINE code == << AlignRsp, Call("getint"), RestoreRsp, Push("rax") >>
  <2>1. Emit[c] = code
    BY <1>11 DEF Emit, Kinds
  <2>2. /\ Len(code) = 4
        /\ code[1].op = "align"
        /\ code[2].op = "call"
        /\ code[3].op = "restore"
        /\ code[4].op = "push" /\ code[4].d = "rax"
    BY DEF AlignRsp, Call, Push, RestoreRsp, I
  <2> HIDE DEF code
  <2>3. Shape(c, code)
    BY <2>2 DEF Shape, ShapeAt, Reg
  <2> QED BY <2>1, <2>3
<1>12. CASE c = "~"
  <2> DEFINE code == << AlignRsp, Call("getchar"), RestoreRsp, Push("rax") >>
  <2>1. Emit[c] = code
    BY <1>12 DEF Emit, Kinds
  <2>2. /\ Len(code) = 4
        /\ code[1].op = "align"
        /\ code[2].op = "call"
        /\ code[3].op = "restore"
        /\ code[4].op = "push" /\ code[4].d = "rax"
    BY DEF AlignRsp, Call, Push, RestoreRsp, I
  <2> HIDE DEF code
  <2>3. Shape(c, code)
    BY <2>2 DEF Shape, ShapeAt, Reg
  <2> QED BY <2>1, <2>3
<1>13. CASE c = "."
  <2> DEFINE code == << Pop("rdi"), AlignRsp, Call("printint"), RestoreRsp >>
  <2>1. Emit[c] = code
    BY <1>13 DEF Emit, Kinds
  <2>2. /\ Len(code) = 4
        /\ code[1].op = "pop" /\ code[1].d = "rdi"
        /\ code[2].op = "align"
        /\ code[3].op = "call"
        /\ code[4].op = "restore"
    BY DEF AlignRsp, Call, Pop, RestoreRsp, I
  <2> HIDE DEF code
  <2>3. Shape(c, code)
    BY <2>2 DEF Shape, ShapeAt, Reg
  <2> QED BY <2>1, <2>3
<1>14. CASE c = ","
  <2> DEFINE code == << Pop("rdi"), AlignRsp, Call("printchar"), RestoreRsp >>
  <2>1. Emit[c] = code
    BY <1>14 DEF Emit, Kinds
  <2>2. /\ Len(code) = 4
        /\ code[1].op = "pop" /\ code[1].d = "rdi"
        /\ code[2].op = "align"
        /\ code[3].op = "call"
        /\ code[4].op = "restore"
    BY DEF AlignRsp, Call, Pop, RestoreRsp, I
  <2> HIDE DEF code
  <2>3. Shape(c, code)
    BY <2>2 DEF Shape, ShapeAt, Reg
  <2> QED BY <2>1, <2>3
<1>15. CASE c = "@"
  <2> DEFINE code == << AlignRsp, Call("exit"), RestoreRsp, I("ud2", "", "") >>
  <2>1. Emit[c] = code
    BY <1>15 DEF Emit, Kinds
  <2>2. /\ Len(code) = 4
        /\ code[1].op = "align"
        /\ code[2].op = "call"
        /\ code[3].op = "restore"
        /\ code[4].op = "ud2"
    BY DEF AlignRsp, Call, RestoreRsp, I
  <2> HIDE DEF code
  <2>3. Shape(c, code)
    BY <2>2 DEF Shape, ShapeAt, Reg
  <2> QED BY <2>1, <2>3
<1>16. CASE c = "g"
  <2> DEFINE code == << Pop("rdi"), Pop("rsi"), AlignRsp, Call("read_val"),
                    RestoreRsp, Push("rax") >>
  <2>1. Emit[c] = code
    BY <1>16 DEF Emit, Kinds
  <2>2. /\ Len(code) = 6
        /\ code[1].op = "pop" /\ code[1].d = "rdi"
        /\ code[2].op = "pop" /\ code[2].d = "rsi"
        /\ code[3].op = "align"
        /\ code[4].op = "call"
        /\ code[5].op = "restore"
        /\ code[6].op = "push" /\ code[6].d = "rax"
    BY DEF AlignRsp, Call, Pop, Push, RestoreRsp, I
  <2> HIDE DEF code
  <2>3. Shape(c, code)
    BY <2>2 DEF Shape, ShapeAt, Reg
  <2> QED BY <2>1, <2>3
<1>17. CASE c = "p"
  <2> DEFINE code == << Pop("rdi"), Pop("rsi"), Pop("rdx"), AlignRsp,
                    Call("write_val"), RestoreRsp >>
  <2>1. Emit[c] = code
    BY <1>17 DEF Emit, Kinds
  <2>2. /\ Len(code) = 6
        /\ code[1].op = "pop" /\ code[1].d = "rdi"
        /\ code[2].op = "pop" /\ code[2].d = "rsi"
        /\ code[3].op = "pop" /\ code[3].d = "rdx"
        /\ code[4].op = "align"
        /\ code[5].op = "call"
        /\ code[6].op = "restore"
    BY DEF AlignRsp, Call, Pop, RestoreRsp, I
  <2> HIDE DEF code
  <2>3. Shape(c, code)
    BY <2>2 DEF Shape, ShapeAt, Reg
  <2> QED BY <2>1, <2>3
<1>18. CASE c = "_"
  <2> DEFINE code == << Pop("rax"), I("cmp0", "rax", ""), I("mov", "rax", "target1"), I("je", "", ""),
                    I("mov", "rax", "target2"), I("jmp", "rax", "") >>
  <2>1. Emit[c] = code
    BY <1>18 DEF Emit, Kinds, JumpOnZero
  <2>2. /\ Len(code) = 6
        /\ code[1].op = "pop" /\ code[1].d = "rax"
        /\ code[2].op = "cmp0" /\ code[2].d = "rax"
        /\ code[3].op = "mov" /\ code[3].d = "rax"
        /\ code[4].op = "je"
        /\ code[5].op = "mov" /\ code[5].d = "rax"
        /\ code[6].op = "jmp" /\ code[6].d = "rax"
    BY DEF Pop, I
  <2> HIDE DEF code
  <2>3. Shape(c, code)
    BY <2>2 DEF Shape, ShapeAt, Reg
  <2> QED BY <2>1, <2>3
<1>19. CASE c = "|"
  <2> DEFINE code == << Pop("rax"), I("cmp0", "rax", ""), I("mov", "rax", "target1"), I("je", "", ""),
                    I("mov", "rax", "target2"), I("jmp", "rax", "") >>
  <2>1. Emit[c] = code
    BY <1>19 DEF Emit, Kinds, JumpOnZero
  <2>2. /\ Len(code) = 6
        /\ code[1].op = "pop" /\ code[1].d = "rax"
        /\ code[2].op = "cmp0" /\ code[2].d = "rax"
        /\ code[3].op = "mov" /\ code[3].d = "rax"
        /\ code[4].op = "je"
        /\ code[5].op = "mov" /\ code[5].d = "rax"
        /\ code[6].op = "jmp" /\ code[6].d = "rax"
    BY DEF Pop, I
  <2> HIDE DEF code
  <2>3. Shape(c, code)
    BY <2>2 DEF Shape, ShapeAt, Reg
  <2> QED BY <2>1, <2>3
<1>20. CASE c = "?"
  <2> DEFINE code == << AlignRsp, Call("rand"), RestoreRsp,
                    I("table", "rax", ""), I("jmp", "rax", "") >>
  <2>1. Emit[c] = code
    BY <1>20 DEF Emit, Kinds
  <2>2. /\ Len(code) = 5
        /\ code[1].op = "align"
        /\ code[2].op = "call"
        /\ code[3].op = "restore"
        /\ code[4].op = "table" /\ code[4].d = "rax"
        /\ code[5].op = "jmp" /\ code[5].d = "rax"
    BY DEF AlignRsp, Call, RestoreRsp, I
  <2> HIDE DEF code
  <2>3. Shape(c, code)
    BY <2>2 DEF Shape, ShapeAt, Reg
  <2> QED BY <2>1, <2>3
<1>21. CASE c = ">"
  <2> DEFINE code == << I("mov", "rax", "target1"), I("jmp", "rax", "") >>
  <2>1. Emit[c] = code
    BY <1>21 DEF Emit, Kinds
  <2>2. /\ Len(code) = 2
        /\ code[1].op = "mov" /\ code[1].d = "rax"
        /\ code[2].op = "jmp" /\ code[2].d = "rax"
    BY DEF I
  <2> HIDE DEF code
  <2>3. Shape(c, code)
    BY <2>2 DEF Shape, ShapeAt, Reg
  <2> QED BY <2>1, <2>3
<1>22. CASE c = "0"
  <2> DEFINE code == << I("pushimm", "", "") >>
  <2>1. Emit[c] = code
    BY <1>22 DEF Emit, Kinds
  <2>2. /\ Len(code) = 1
        /\ code[1].op = "pushimm"
    BY DEF I
  <2> HIDE DEF code
  <2>3. Shape(c, code)
    BY <2>2 DEF Shape, ShapeAt, Reg
  <2> QED BY <2>1, <2>3
<1>23. CASE c = "thunk"
  <2> DEFINE code == << I("callstub", "", ""), Pop("rdi"), AlignRsp, Call("resolve_thunk"),
                    RestoreRsp, I("jmp", "rax", "") >>
  <2>1. Emit[c] = code
    BY <1>23 DEF Emit, Kinds, compiler_dispatch
  <2>2. /\ Len(code) = 6
        /\ code[1].op = "callstub"
        /\ code[2].op = "pop" /\ code[2].d = "rdi"
        /\ code[3].op = "align"
        /\ code[4].op = "call"
        /\ code[5].op = "restore"
        /\ code[6].op = "jmp" /\ code[6].d = "rax"
    BY DEF AlignRsp, Call, Pop, RestoreRsp, I
  <2> HIDE DEF code
  <2>3. Shape(c, code)
    BY <2>2 DEF Shape, ShapeAt, Reg
  <2> QED BY <2>1, <2>3
<1>24. CASE c = "nop"
  <2>1. Emit[c] = << >>
    BY <1>24 DEF Emit, Kinds
  <2> QED BY <2>1 DEF Shape, ShapeAt
<1> QED
  BY <1>1, <1>2, <1>3, <1>4, <1>5, <1>6, <1>7, <1>8, <1>9, <1>10, <1>11, <1>12, <1>13, <1>14, <1>15, <1>16, <1>17, <1>18, <1>19, <1>20, <1>21, <1>22, <1>23, <1>24 DEF Kinds

\* The shape, read at any instruction.
LEMMA ShapeEverywhere ==
  ASSUME NEW c, NEW code, Shape(c, code), NEW k \in Nat \ {0}, k <= Len(code)
  PROVE  ShapeAt(c, code, k) /\ k \in 1..6
<1> DEFINE n == Len(code)
<1>1. n \in 0..6 /\ k <= n
  BY DEF Shape
<1> HIDE DEF n
<1>2. k = 1 \/ k = 2 \/ k = 3 \/ k = 4 \/ k = 5 \/ k = 6
  BY <1>1
<1> QED BY <1>2 DEF Shape

\* The shape, read at the instruction to execute.
LEMMA InsShape ==
  ASSUME char \in Kinds, pc \in Nat \ {0}, state = "run", ~Finished
  PROVE  ShapeAt(char, Emit[char], pc) /\ pc \in 1..6 /\ pc <= Len(Emit[char])
<1>1. Shape(char, Emit[char])
  BY EmitShape
<1>2. pc <= Len(Emit[char])
  BY <1>1 DEF Finished, Shape
<1> QED BY <1>1, <1>2, ShapeEverywhere

-----------------------------------------------------------------------------
Typed ==
  /\ char \in Kinds /\ imm \in Word /\ ret \in Word /\ odd \in {0, 1}
  /\ stk \in Seq(Value)
  /\ reg \in [Reg -> Value]
  /\ went \in Value
  /\ pc \in Nat \ {0}
  /\ state \in {"run", "trap", "exit"}

\* Three words to begin with, and at most one taken by each of the first three instructions.
Deep ==
  /\ pc = 1 => Len(stk) >= 3
  /\ pc = 2 => Len(stk) >= 2
  /\ pc = 3 => Len(stk) >= 1

Before(ops) == pc > 1 /\ Emit[char][pc-1].op \in ops

\* From the alignment to its restoration, rbx says what was added to the stack.
Padded ==
  /\ Before({"align"}) => Misaligned = 0
  /\ Before({"align", "call"}) => reg["rbx"] \in {0, 1} /\ Len(stk) >= reg["rbx"]

IInv == Typed /\ Deep /\ Padded

\* The constants: words, and the numbers used as words.
LEMMA WordFacts == /\ Modulus \in Nat /\ Modulus > 4 /\ StackWords \subseteq Word
               /\ {0, 1, 2, 3, 4} \subseteq Word /\ Junk \notin Word
<1>1. SignBit \in Nat /\ SignBit > 2
  BY SignBitAssumption
<1> QED BY <1>1, WordsAssumption DEF Modulus, Word

\* The invariant holds at first.
LEMMA InitIInv == Init => IInv
<1> SUFFICES ASSUME Init PROVE IInv
  OBVIOUS
<1>1. stk \in Seq(Value) /\ Len(stk) = 3
  <2>1. stk \in [1..3 -> Value]
    BY WordFacts DEF Init, Value
  <2>2. stk \in Seq(Value)
    BY <2>1, SeqDef
  <2>3. DOMAIN stk = 1..Len(stk) /\ Len(stk) \in Nat
    BY <2>2, LenProperties
  <2>4. 1..Len(stk) = 1..3
    BY <2>1, <2>3
  <2> QED BY <2>2, <2>3, <2>4
<1>2. reg \in [Reg -> Value]
  BY DEF Init, Value
<1> QED BY <1>1, <1>2, WordFacts DEF Init, IInv, Typed, Deep, Padded, Before, Value

\* The invariant implies that calls are aligned.
LEMMA IInvAligned == IInv => CallsAligned
<1> SUFFICES ASSUME IInv, At({"call"}) PROVE Misaligned = 0
  BY DEF CallsAligned
<1>1. ShapeAt(char, Emit[char], pc) /\ pc <= Len(Emit[char])
  BY InsShape DEF IInv, Typed, At
<1> QED BY <1>1 DEF IInv, Typed, At, ins, ShapeAt, Padded, Before

\* A step to the next instruction, which keeps types, the depth of the stack from the third
\* instruction on, and is no alignment and no call, preserves the invariant.
LEMMA Ordinary ==
  ASSUME IInv, state = "run", ~Finished, ins.op \notin {"align", "call"},
         pc' = pc + 1, UNCHANGED <<inputs, state>>,
         stk' \in Seq(Value), reg' \in [Reg -> Value], went' \in Value,
         Len(stk') >= Len(stk) \/ pc >= 3 \/ Len(stk') = Len(stk) - 1
  PROVE  IInv'
<1>1. Typed'
  BY DEF IInv, Typed, inputs
<1>2. Deep'
  <2>1. Len(stk) \in Nat /\ Len(stk') \in Nat
    BY DEF IInv, Typed
  <2> QED BY <2>1 DEF IInv, Typed, Deep
<1>3. Padded'
  <2>1. Emit[char]'[pc'-1].op = ins.op
    BY DEF inputs, ins, IInv, Typed
  <2> QED BY <2>1 DEF Padded, Before
<1> QED BY <1>1, <1>2, <1>3 DEF IInv

\* Every step preserves the invariant.
LEMMA StepIInv == IInv /\ [Next]_vars => IInv'
<1> SUFFICES ASSUME IInv, [Next]_vars PROVE IInv'
  OBVIOUS
<1> USE DEF At
<1>1. /\ Typed /\ Deep /\ Padded
      /\ Len(stk) \in Nat
      /\ pc \in Nat /\ pc >= 1
  BY DEF IInv, Typed
\* What is known of the instruction a step executes.
<1>2. ASSUME state = "run", ~Finished
      PROVE  /\ ShapeAt(char, Emit[char], pc) /\ pc \in 1..6 /\ pc <= Len(Emit[char])
             /\ ins = Emit[char][pc]
  <2>1. char \in Kinds /\ pc \in Nat \ {0}
    BY <1>1 DEF Typed
  <2>2. ins = Emit[char][pc]
    BY DEF ins
  <2> QED BY <1>2, <2>1, <2>2, InsShape
<1>3. ASSUME state = "run", ~Finished,
             ins.op \in {"push", "pop", "add", "sub", "mul", "div", "xor", "cmp", "cmp0", "sete",
                         "setg", "mov", "table", "jmp"}
      PROVE  ins.d \in Reg
  BY <1>2, <1>3 DEF ShapeAt
<1>4. ASSUME state = "run", ~Finished, ins.op \in {"add", "sub", "mul", "div", "cmp"}
      PROVE  ins.s \in Reg
  BY <1>2, <1>4 DEF ShapeAt
<1>5. CASE PopReg
  <2>1. ins.d \in Reg /\ pc <= 3
    BY <1>2, <1>3, <1>5 DEF PopReg, ShapeAt
  <2>2. Len(stk) >= 1
    <3>1. pc = 1 \/ pc = 2 \/ pc = 3
      BY <1>1, <2>1
    <3> QED BY <3>1, <1>1 DEF Deep
  <2>3. Head(stk) \in Value /\ Tail(stk) \in Seq(Value) /\ Len(Tail(stk)) = Len(stk) - 1
    <3>1. stk # << >>
      BY <2>2
    <3> QED BY <3>1, <1>1, HeadTailProperties DEF Typed
  <2>4. reg' \in [Reg -> Value]
    BY <1>1, <1>5, <2>1, <2>3 DEF PopReg, Typed
  <2> QED BY <1>1, <1>5, <2>3, <2>4, Ordinary DEF PopReg, Advance, Typed
<1>6. CASE PushReg
  <2>1. << reg[ins.d] >> \in Seq(Value)
    BY <1>1, <1>3, <1>6 DEF PushReg, Typed
  <2>2. stk' \in Seq(Value) /\ Len(stk') = Len(stk) + 1
    BY <1>1, <1>6, <2>1, ConcatProperties DEF PushReg, Typed
  <2> QED BY <1>1, <1>6, <2>2, Ordinary DEF PushReg, Advance, Typed
<1>7. CASE PushImm
  <2>1. << imm >> \in Seq(Value)
    BY <1>1 DEF Typed, Value
  <2>2. stk' \in Seq(Value) /\ Len(stk') = Len(stk) + 1
    BY <1>1, <1>7, <2>1, ConcatProperties DEF PushImm, Typed
  <2> QED BY <1>1, <1>7, <2>2, Ordinary DEF PushImm, Advance, Typed
<1>8. CASE AddOrSub
  <2>1. \A a, b \in Value : Plus(a, b) \in Value /\ Minus(a, b) \in Value
    <3>1. SUFFICES ASSUME NEW a \in Word, NEW b \in Word
                   PROVE  (a + b) % Modulus \in Word /\ (a - b) % Modulus \in Word
      BY DEF Plus, Minus, Known, Value
    <3> QED BY WordFacts DEF Word
  <2>2. reg' \in [Reg -> Value]
    BY <1>1, <1>3, <1>4, <1>8, <2>1 DEF AddOrSub, Typed
  <2> QED BY <1>1, <1>8, <2>2, Ordinary DEF AddOrSub, Advance, Typed
<1>9. CASE Mul
  <2> DEFINE a == reg["rax"]
             b == reg[ins.s]
             low  == Known(a, b, (a * b) % Modulus)
             high == Known(a, b, (a * b) \div Modulus)
  <2>1. a \in Value /\ b \in Value
    BY <1>1, <1>4, <1>9 DEF Mul, Typed, Reg
  <2>2. low \in Value /\ high \in Value
    <3>1. SUFFICES ASSUME NEW x \in Word, NEW y \in Word
                   PROVE  (x * y) % Modulus \in Word /\ (x * y) \div Modulus \in Word
      BY <2>1 DEF Known, Value
    <3>2. (x * y) \div Modulus \in Word
      <4>1. Modulus \in Nat \ {0} /\ x \in 0..Modulus-1 /\ y \in 0..Modulus-1
        BY WordFacts DEF Word
      <4>2. (x * y) \div Modulus \in 0..Modulus-1
        BY <4>1, MulFits
      <4> QED BY <4>2 DEF Word
    <3>3. x * y \in Nat
      BY WordFacts, Z3 DEF Word
    <3>4. (x * y) % Modulus \in Word
      BY <3>3, WordFacts DEF Word
    <3> QED BY <3>2, <3>4
  <2>3. reg' = [reg EXCEPT !["rax"] = low, !["rdx"] = high]
    BY <1>9 DEF Mul
  <2> HIDE DEF low, high
  <2>4. reg' \in [Reg -> Value]
    BY <1>1, <2>2, <2>3 DEF Typed
  <2> QED BY <1>1, <1>9, <2>4, Ordinary DEF Mul, Advance, Typed
<1>10. CASE Clear
  <2>1. reg' \in [Reg -> Value]
    BY <1>1, <1>10, WordFacts DEF Clear, Typed, Value
  <2> QED BY <1>1, <1>10, <2>1, Ordinary DEF Clear, Advance, Typed
<1>11. CASE Div
  <2>1. \A r \in Reg : Read(r) \subseteq Word
    BY <1>1 DEF Read, Typed, Value
  <2>2. PICK high \in Read("rdx"), low \in Read("rax"), divisor \in Read(ins.s) :
           \/ /\ high < divisor
              /\ reg' = [reg EXCEPT !["rax"] = (high * Modulus + low) \div divisor,
                                    !["rdx"] = (high * Modulus + low) % divisor]
              /\ Advance
           \/ /\ high >= divisor
              /\ state' = "trap"
              /\ UNCHANGED <<inputs, pc, reg>>
    BY <1>11 DEF Div
  <2>3. high \in Word /\ low \in Word /\ divisor \in Word
    BY <1>4, <1>11, <2>1 DEF Div, Reg
  <2>4. CASE high < divisor /\ Advance
    <3> DEFINE quotient == (high * Modulus + low) \div divisor
               rest == (high * Modulus + low) % divisor
    <3>1. quotient \in Word /\ rest \in Word
      <4>1. /\ Modulus \in Nat \ {0} /\ high \in Nat /\ low \in Nat /\ divisor \in Nat
            /\ low < Modulus /\ divisor < Modulus
        BY <2>3, WordFacts DEF Word
      <4>2. quotient \in 0..Modulus-1 /\ rest \in 0..divisor-1
        BY <2>4, <4>1, DivFits
      <4> HIDE DEF quotient, rest
      <4> QED BY <4>1, <4>2 DEF Word
    <3>2. reg' = [reg EXCEPT !["rax"] = quotient, !["rdx"] = rest]
      BY <2>2, <2>3, <2>4, WordFacts DEF Word
    <3> HIDE DEF quotient, rest
    <3>3. reg' \in [Reg -> Value]
      BY <1>1, <3>1, <3>2 DEF Typed, Value
    <3> QED BY <1>1, <1>11, <2>4, <3>3, Ordinary DEF Div, Advance, Typed
  <2>5. CASE state' = "trap" /\ UNCHANGED <<inputs, pc, reg>>
    BY <1>1, <1>11, <2>5 DEF Div, IInv, Typed, Deep, Padded, Before, Misaligned, inputs
  <2> QED BY <2>2, <2>4, <2>5
<1>12. CASE Compare
  BY <1>1, <1>12, Ordinary DEF Compare, Advance, Typed
<1>13. CASE SetByte
  <2>1. reg' \in [Reg -> Value]
    BY <1>1, <1>13, WordFacts DEF SetByte, Typed, Value
  <2> QED BY <1>1, <1>13, <2>1, Ordinary DEF SetByte, Advance, Typed
<1>14. CASE LoadTarget
  <2>1. reg' \in [Reg -> Value]
    BY <1>1, <1>14, WordFacts DEF LoadTarget, Typed, Value
  <2> QED BY <1>1, <1>14, <2>1, Ordinary DEF LoadTarget, Advance, Typed
<1>15. CASE JumpIfEqual
  <2>1. pc = 4 /\ Emit[char][5].op = "mov" /\ Emit[char][4].op = "je"
    BY <1>2, <1>15 DEF JumpIfEqual, ShapeAt
  <2>2. pc' = 5 \/ pc' = 6
    BY <1>15, <2>1 DEF JumpIfEqual
  <2>3. Typed' /\ Deep'
    BY <1>1, <1>15, <2>2 DEF JumpIfEqual, Typed, Deep, inputs
  <2>4. Emit[char]'[pc'-1].op \notin {"align", "call"}
    BY <1>15, <2>1, <2>2 DEF JumpIfEqual, inputs
  <2> QED BY <2>3, <2>4 DEF IInv, Padded, Before
<1>16. CASE LookUp
  <2>1. \A w \in Value : Known(w, w, (w % 4) + 1) \in Value
    BY WordFacts DEF Known, Value, Word
  <2>2. reg' \in [Reg -> Value]
    BY <1>1, <1>16, <2>1 DEF LookUp, Typed, Value, Reg
  <2> QED BY <1>1, <1>16, <2>2, Ordinary DEF LookUp, Advance, Typed
<1>17. CASE Jump
  <2>1. went' \in Value
    BY <1>1, <1>3, <1>17 DEF Jump, Typed
  <2> QED BY <1>1, <1>17, <2>1, Ordinary DEF Jump, Advance, Typed
<1>18. CASE Align
  <2>1. Misaligned \in {0, 1}
    BY <1>1 DEF Misaligned, Typed
  <2>2. << Junk >> \in Seq(Value)
    BY DEF Value
  <2>3. /\ stk' \in Seq(Value)
        /\ Len(stk') = Len(stk) + Misaligned
    BY <1>1, <1>18, <2>1, <2>2, ConcatProperties DEF Align, Typed
  <2>4. reg' \in [Reg -> Value] /\ reg'["rbx"] = Misaligned
    BY <1>1, <1>18, <2>1, WordFacts DEF Align, Typed, Value, Reg
  <2>5. Typed'
    BY <1>1, <1>18, <2>3, <2>4 DEF Align, Advance, Typed, inputs
  <2>6. Deep'
    BY <1>1, <1>18, <2>1, <2>3 DEF Align, Advance, Deep
  <2>7. Misaligned' = 0
    <3>1. Misaligned' = (Len(stk) + Misaligned + odd) % 2
      BY <1>18, <2>3 DEF Misaligned, Align, Advance, inputs
    <3> QED BY <1>1, <3>1 DEF Misaligned, Typed
  <2>8. Len(stk') >= reg'["rbx"]
    BY <1>1, <2>1, <2>3, <2>4
  <2> QED BY <2>1, <2>4, <2>5, <2>6, <2>7, <2>8 DEF IInv, Padded
<1>19. CASE CallFunction
  <2>1. Emit[char][pc-1].op = "align" /\ pc > 1
    BY <1>2, <1>19 DEF CallFunction, ShapeAt
  <2>2. reg["rbx"] \in {0, 1} /\ Len(stk) >= reg["rbx"]
    BY <1>1, <2>1 DEF Padded, Before
  <2>3. reg' \in [Reg -> Value] /\ reg'["rbx"] = reg["rbx"]
    BY <1>1, <1>19 DEF CallFunction, Typed, Value, Reg
  <2>4. Typed' /\ Deep'
    BY <1>1, <1>19, <2>3 DEF CallFunction, Advance, Typed, Deep, inputs
  <2>5. Emit[char]'[pc'-1].op = "call"
    BY <1>1, <1>2, <1>19 DEF CallFunction, Advance, inputs
  <2> QED BY <1>19, <2>2, <2>3, <2>4, <2>5 DEF IInv, Padded, Before, CallFunction
<1>20. CASE CallExit
  BY <1>1, <1>20 DEF CallExit, IInv, Typed, Deep, Padded, Before, Misaligned, inputs
<1>21. CASE Restore
  <2>1. pc > 2 /\ Emit[char][pc-1].op = "call"
    BY <1>2, <1>21 DEF Restore, ShapeAt
  <2>2. reg["rbx"] \in {0, 1} /\ Len(stk) >= reg["rbx"]
    BY <1>1, <2>1 DEF Padded, Before
  <2>3. stk' \in Seq(Value)
    <3>1. \A i \in reg["rbx"] + 1 .. Len(stk) : stk[i] \in Value
      BY <1>1, <2>2, ElementOfSeq DEF Typed
    <3>2. SubSeq(stk, reg["rbx"] + 1, Len(stk)) \in Seq(Value)
      BY <1>1, <2>2, <3>1, SubSeqProperties
    <3> QED BY <1>21, <3>2 DEF Restore
  <2> QED BY <1>1, <1>21, <2>1, <2>3, Ordinary DEF Restore, Advance, Typed
<1>22. CASE UNCHANGED vars
  BY <1>1, <1>22 DEF vars, inputs, IInv, Typed, Deep, Padded, Before, Misaligned
<1> QED
  BY <1>5, <1>6, <1>7, <1>8, <1>9, <1>10, <1>11, <1>12, <1>13, <1>14, <1>15, <1>16, <1>17,
     <1>18, <1>19, <1>20, <1>21, <1>22 DEF Next, Ended

-----------------------------------------------------------------------------
(* Registers and stack hold words, or what nobody has set, at every        *)
(* instruction of every code poc_compiler emits.                           *)
THEOREM EmittedTypeCorrect == Spec => []TypeOK
<1>1. IInv => TypeOK
  BY DEF IInv, Typed, TypeOK, Value
<1> QED BY <1>1, InitIInv, StepIInv, PTL DEF Spec

(* call_extern's "Preserve stack alignment for external C calls", for words *)
(* of any width: whatever the stack holds, and whichever way it is aligned. *)
THEOREM EveryCallAligned == Spec => []CallsAligned
BY InitIInv, StepIInv, IInvAligned, PTL DEF Spec
-----------------------------------------------------------------------------
(***************************************************************************)
(* What the code of a character computes.  The stack at the beginning is   *)
(* stk0; when n words have been taken from it, Below(n) is left.           *)
(***************************************************************************)
Given == char \in Kinds /\ imm \in Word /\ ret \in Word /\ stk0 \in [1..3 -> Word]

Below(n) == SubSeq(stk0, n + 1, Len(stk0))

\* The operands, one after the other, and what is below them.
LEMMA BelowIs ==
  ASSUME stk0 \in [1..3 -> Word]
  PROVE  /\ Below(0) = stk0
         /\ \A n \in 0..3 : Below(n) \in Seq(Value)
         /\ \A n \in 0..2 : Head(Below(n)) = stk0[n+1] /\ Tail(Below(n)) = Below(n+1)
<1>1. stk0 \in Seq(Value) /\ Len(stk0) = 3
  <2>1. stk0 \in Seq(Value)
    <3>1. stk0 \in [1..3 -> Value]
      BY DEF Value
    <3> QED BY <3>1, SeqDef
  <2>2. DOMAIN stk0 = 1..Len(stk0) /\ Len(stk0) \in Nat
    BY <2>1, LenProperties
  <2>3. 1..Len(stk0) = 1..3
    BY <2>2
  <2> QED BY <2>1, <2>2, <2>3
<1>2. Below(0) = stk0
  BY <1>1, SubSeqFull DEF Below
<1>3. ASSUME NEW n \in 0..3 PROVE Below(n) \in Seq(Value)
  <2>1. \A i \in n+1..3 : stk0[i] \in Value
    BY DEF Value
  <2> QED BY <1>1, <2>1, SubSeqProperties DEF Below
<1>4. ASSUME NEW n \in 0..2
      PROVE  Head(Below(n)) = stk0[n+1] /\ Tail(Below(n)) = Below(n+1)
  <2>1. n + 1 \in 1..Len(stk0) /\ Len(stk0) \in n+1..Len(stk0)
    BY <1>1
  <2> QED BY <1>1, <2>1, HeadTailOfSubSeq DEF Below
<1> QED BY <1>2, <1>3, <1>4

\* Two words in a row.
LEMMA PushedTwo ==
  ASSUME NEW x \in Value, NEW y \in Value
  PROVE  << x >> \o << y >> = << x, y >> /\ << x >> \in Seq(Value) /\ << y >> \in Seq(Value)
<1>1. << x >> \in Seq(Value) /\ << y >> \in Seq(Value) /\ Len(<< x >>) = 1
  OBVIOUS
<1>2. /\ << x >> \o << y >> \in Seq(Value) /\ Len(<< x >> \o << y >>) = 2
      /\ (<< x >> \o << y >>)[1] = x /\ (<< x >> \o << y >>)[2] = y
  BY <1>1, ConcatProperties
<1>3. << x, y >> \in Seq(Value) /\ Len(<< x, y >>) = 2 /\ << x, y >>[1] = x /\ << x, y >>[2] = y
  OBVIOUS
<1>4. 1..2 = {1, 2}
  OBVIOUS
<1> DEFINE u == << x >> \o << y >>
           v == << x, y >>
<1> HIDE DEF u, v
<1>5. u \in Seq(Value) /\ v \in Seq(Value) /\ Len(u) = Len(v) /\ \A i \in 1..Len(u) : u[i] = v[i]
  BY <1>2, <1>3, <1>4 DEF u, v
<1>6. u = v
  BY <1>5, SeqEqual
<1> QED BY <1>1, <1>6 DEF u, v

\* A word pushed onto a stack.
LEMMA PushedOn ==
  ASSUME NEW s \in Seq(Value), NEW x \in Value
  PROVE  /\ << >> \o s = s
         /\ Head(<< x >> \o s) = x /\ Tail(<< x >> \o s) = s
         /\ SubSeq(s, 1, Len(s)) = s
         /\ SubSeq(<< x >> \o s, 2, Len(<< x >> \o s)) = s
<1> DEFINE t == << x >> \o s
<1>1. << x >> \in Seq(Value) /\ Len(<< x >>) = 1
  OBVIOUS
<1>2. << >> \o s = s /\ SubSeq(s, 1, Len(s)) = s
  BY ConcatEmptySeq, SubSeqFull
<1>3. t \in Seq(Value) /\ Len(t) = 1 + Len(s) /\ t[1] = x /\ \A i \in 1..Len(s) : t[i + 1] = s[i]
  <2>1. t \in Seq(Value) /\ Len(t) = 1 + Len(s)
    BY <1>1, ConcatProperties
  <2>2. \A i \in 1..1+Len(s) : t[i] = IF i <= 1 THEN << x >>[i] ELSE s[i - 1]
    BY <1>1, ConcatProperties
  <2> HIDE DEF t
  <2>3. Len(s) \in Nat
    OBVIOUS
  <2>4. t[1] = x
    BY <2>2, <2>3
  <2>5. \A i \in 1..Len(s) : t[i + 1] = s[i]
    BY <2>2, <2>3
  <2> QED BY <2>1, <2>4, <2>5
<1> HIDE DEF t
<1>4. t # << >>
  BY <1>3
<1>5. Head(t) = x
  BY <1>3, <1>4
<1>6. Tail(t) = s
  <2>1. Tail(t) \in Seq(Value) /\ Len(Tail(t)) = Len(s) /\ \A i \in 1..Len(s) : Tail(t)[i] = s[i]
    BY <1>3, <1>4, HeadTailProperties
  <2> QED BY <2>1, SeqEqual
<1>7. SubSeq(t, 2, Len(t)) = s
  BY <1>3, <1>4, <1>6, TailIsSubSeq
<1> QED BY <1>2, <1>5, <1>6, <1>7 DEF t

\* The arguments of a call.
LEMMA Arguments ==
  ASSUME NEW x \in Value, NEW y \in Value, NEW z \in Value
  PROVE  /\ SubSeq(<< x, y, z >>, 1, 0) = << >>
         /\ SubSeq(<< x, y, z >>, 1, 1) = << x >>
         /\ SubSeq(<< x, y, z >>, 1, 2) = << x, y >>
         /\ SubSeq(<< x, y, z >>, 1, 3) = << x, y, z >>
<1> DEFINE t == << x, y, z >>
<1>1. t \in Seq(Value) /\ Len(t) = 3 /\ t[1] = x /\ t[2] = y /\ t[3] = z
  OBVIOUS
<1> HIDE DEF t
<1>2. ASSUME NEW n \in 1..3
      PROVE  /\ SubSeq(t, 1, n) \in Seq(Value) /\ Len(SubSeq(t, 1, n)) = n
             /\ \A i \in 1..n : SubSeq(t, 1, n)[i] = t[i]
  <2>1. \A i \in 1..n : t[i] \in Value
    BY <1>1
  <2>2. n \in Int /\ 1 <= n /\ n - 1 + 1 = n
    OBVIOUS
  <2>3. /\ SubSeq(t, 1, n) \in Seq(Value) /\ Len(SubSeq(t, 1, n)) = n - 1 + 1
        /\ \A i \in 1..n-1+1 : SubSeq(t, 1, n)[i] = t[1 + i - 1]
    BY <2>1, <2>2, SubSeqProperties
  <2> QED BY <2>2, <2>3
<1>3. SubSeq(t, 1, 0) = << >>
  BY SubSeqEmpty
<1>4. PICK u : u = SubSeq(t, 1, 1)
  OBVIOUS
<1>5. PICK v : v = SubSeq(t, 1, 2)
  OBVIOUS
<1>6. u = << x >>
  <2>1. u \in Seq(Value) /\ Len(u) = 1 /\ u[1] = x
    BY <1>1, <1>2, <1>4
  <2> QED BY <2>1
<1>7. v = << x, y >>
  <2>1. v \in Seq(Value) /\ Len(v) = 2 /\ v[1] = x /\ v[2] = y
    BY <1>1, <1>2, <1>5
  <2> QED BY <2>1
<1>8. SubSeq(t, 1, 3) = t
  BY <1>1, SubSeqFull
<1> QED BY <1>3, <1>4, <1>5, <1>6, <1>7, <1>8 DEF t

\* The instruction says which action a step is.
LEMMA Executes ==
  ASSUME Next, state = "run", ~Finished
  PROVE  /\ ins.op = "pop" => PopReg
         /\ ins.op = "push" => PushReg
         /\ ins.op \in {"pushimm", "callstub"} => PushImm
         /\ ins.op \in {"add", "sub"} => AddOrSub
         /\ ins.op = "mul" => Mul
         /\ ins.op = "xor" => Clear
         /\ ins.op = "div" => Div
         /\ ins.op \in {"cmp", "cmp0"} => Compare
         /\ ins.op \in {"sete", "setg"} => SetByte
         /\ ins.op = "mov" => LoadTarget
         /\ ins.op = "je" => JumpIfEqual
         /\ ins.op = "table" => LookUp
         /\ ins.op = "jmp" => Jump
         /\ ins.op = "align" => Align
         /\ ins.op = "call" => CallFunction \/ CallExit
         /\ ins.op = "restore" => Restore
<1> USE DEF At
<1>1. PopReg => ins.op = "pop"
  BY DEF PopReg
<1>2. PushReg => ins.op = "push"
  BY DEF PushReg
<1>3. PushImm => ins.op \in {"pushimm", "callstub"}
  BY DEF PushImm
<1>4. AddOrSub => ins.op \in {"add", "sub"}
  BY DEF AddOrSub
<1>5. Mul => ins.op = "mul"
  BY DEF Mul
<1>6. Clear => ins.op = "xor"
  BY DEF Clear
<1>7. Div => ins.op = "div"
  BY DEF Div
<1>8. Compare => ins.op \in {"cmp", "cmp0"}
  BY DEF Compare
<1>9. SetByte => ins.op \in {"sete", "setg"}
  BY DEF SetByte
<1>10. LoadTarget => ins.op = "mov"
  BY DEF LoadTarget
<1>11. JumpIfEqual => ins.op = "je"
  BY DEF JumpIfEqual
<1>12. LookUp => ins.op = "table"
  BY DEF LookUp
<1>13. Jump => ins.op = "jmp"
  BY DEF Jump
<1>14. Align => ins.op = "align"
  BY DEF Align
<1>15. CallFunction => ins.op = "call"
  BY DEF CallFunction
<1>16. CallExit => ins.op = "call"
  BY DEF CallExit
<1>17. Restore => ins.op = "restore"
  BY DEF Restore
<1>18. ~Ended
  BY DEF Ended
<1> HIDE DEF At
<1> QED BY <1>1, <1>2, <1>3, <1>4, <1>5, <1>6, <1>7, <1>8, <1>9, <1>10, <1>11, <1>12, <1>13,
           <1>14, <1>15, <1>16, <1>17, <1>18 DEF Next

-----------------------------------------------------------------------------
(***************************************************************************)
(* The invariant: what stack and registers hold at each instruction.       *)
(***************************************************************************)
Quiet == called = << >> /\ went = 0

\* n operands have been popped into their registers.
Taken(n) == stk = Below(n) /\ (\A i \in 1..n : reg[Emit[char][i].d] = stk0[i]) /\ Quiet

Popping == char # "thunk" /\ pc <= Pops(char) + 1 => Taken(pc - 1)

\* The register the next instruction pushes holds what the character puts onto the stack.
Result ==
  /\ stk = Below(Pops(char))
  /\ << reg[ins.d] >> = Pushes(char, stk0, imm, ret)
  /\ called = Asks(char, stk0, imm) /\ went = 0

\* The register the next instruction jumps to holds where the character goes.
Target ==
  /\ stk = Below(Pops(char))
  /\ reg["rax"] = Way(char, stk0, ret)
  /\ called = Asks(char, stk0, imm)

Arithmetic == char \in {"+", "-", "*"} /\ pc = 4 => Result

Dividing ==
  char \in {"/", "%"} =>
    /\ pc = 4 => Taken(2) /\ reg["rdx"] = 0
    /\ pc = 5 => Result

Comparing ==
  char = "gt" =>
    /\ pc = 4 => Taken(2) /\ reg["rcx"] = 0
    /\ pc = 5 => /\ stk = Below(2) /\ reg["rcx"] = 0 /\ Quiet
                 /\ flags.greater = (Signed(stk0[2]) > Signed(stk0[1]))
    /\ pc = 6 => Result

Negating ==
  char = "!" =>
    /\ pc = 3 => Taken(1) /\ reg["rcx"] = 0
    /\ pc = 4 => stk = Below(1) /\ reg["rcx"] = 0 /\ Quiet /\ flags.equal = (stk0[1] = 0)
    /\ pc = 5 => Result

Copying ==
  char = ":" /\ pc = 3 => stk = << stk0[1] >> \o Below(1) /\ reg["rax"] = stk0[1] /\ Quiet

Swapping ==
  char = "\\" /\ pc = 4 => stk = << stk0[1] >> \o Below(2) /\ reg["rbx"] = stk0[2] /\ Quiet

Branches == {"_", "|"}

Branching ==
  char \in Branches =>
    /\ pc \in 3..5 => stk = Below(1) /\ Quiet /\ flags.equal = (stk0[1] = 0)
    /\ pc = 4 => reg["rax"] = 1
    /\ pc = 5 => stk0[1] # 0
    /\ pc = 6 => Target

Going == char = ">" /\ pc = 2 => Target

Callers == {"&", "~", ".", ",", "g", "p", "?", "thunk"}

\* Where the stack is aligned.
AlignAt == IF char = "thunk" THEN 3 ELSE Pops(char) + 1

\* Below the top there may be a word for the alignment.
Padding ==
  \/ reg["rbx"] = 0 /\ stk = Below(Pops(char))
  \/ reg["rbx"] = 1 /\ stk = << Junk >> \o Below(Pops(char))

\* The arguments are in their registers.
Ready(f) ==
  Asks(char, stk0, imm) = << f, SubSeq(<< reg["rdi"], reg["rsi"], reg["rdx"] >>, 1, Arity(f)) >>

Answered == called = Asks(char, stk0, imm) /\ reg["rax"] = ret /\ went = 0

Calling ==
  char \in Callers =>
    /\ pc = AlignAt + 1 => Padding /\ Ready(ins.s) /\ Quiet
    /\ pc = AlignAt + 2 => Padding /\ Answered
    /\ pc = AlignAt + 3 => stk = Below(Pops(char)) /\ Answered

Dispatching ==
  char = "thunk" =>
    /\ pc = 1 => stk = Below(0) /\ Quiet
    /\ pc = 2 => stk = << imm >> \o Below(0) /\ Quiet
    /\ pc = 3 => stk = Below(0) /\ reg["rdi"] = imm /\ Quiet

Rolling == char = "?" /\ pc = 5 => Target

Exiting == char = "@" => pc <= 2

Progress ==
  /\ Popping
  /\ Arithmetic /\ Dividing /\ Comparing /\ Negating /\ Copying /\ Swapping
  /\ Branching /\ Going
  /\ Calling /\ Dispatching /\ Rolling /\ Exiting

Meant == Given /\ Typed /\ (state = "run" => Progress) /\ MeansCharacter /\ TrapsOnZeroOnly

-----------------------------------------------------------------------------
\* A character takes no more than three words.
LEMMA PopsBound == Pops(char) \in 0..3
<1>1. Pops(char) \in {0, 1, 2, 3}
  BY DEF Pops
<1> QED BY <1>1

\* Running code, about to execute an instruction.
Running == Meant /\ state = "run" /\ ~Finished /\ Next

\* What is known at every step.
LEMMA RunningFacts ==
  ASSUME Running
  PROVE  /\ Given /\ Progress /\ state = "run" /\ ~Finished /\ Next
         /\ pc \in Nat \ {0} /\ pc <= Len(Emit[char]) /\ ins = Emit[char][pc]
         /\ stk0[1] \in Word /\ stk0[2] \in Word /\ stk0[3] \in Word
         /\ reg \in [Reg -> Value] /\ Reg = {"rax", "rbx", "rcx", "rdx", "rdi", "rsi"}
<1>1. Given /\ Typed /\ Progress /\ state = "run" /\ ~Finished /\ Next
  BY DEF Running, Meant
<1>2. pc \in Nat \ {0} /\ reg \in [Reg -> Value] /\ char \in Kinds
  BY <1>1 DEF Typed
<1>3. pc <= Len(Emit[char])
  BY <1>1, <1>2, InsShape
<1> QED BY <1>1, <1>2, <1>3 DEF Given, ins, Reg

\* The last instruction has left what the character means.
LEMMA Leaves ==
  ASSUME UNCHANGED inputs, stk' = After(char, stk0, imm, ret),
         called' = Asks(char, stk0, imm), went' = Way(char, stk0, ret)
  PROVE  MeansCharacter'
BY DEF MeansCharacter, inputs

\* Pushing the result is the last instruction.
LEMMA PushesResult ==
  ASSUME PushReg, Result, Way(char, stk0, ret) = 0
  PROVE  MeansCharacter'
<1>1. stk' = After(char, stk0, imm, ret)
  BY DEF PushReg, Result, After, Below
<1> QED BY <1>1, Leaves DEF PushReg, Advance, Result

\* So is the jump to the target.
LEMMA JumpsToTarget ==
  ASSUME Running, Jump, ins.d = "rax", Target, Pushes(char, stk0, imm, ret) = << >>
  PROVE  MeansCharacter'
<1>1. Pops(char) \in 0..3
  BY PopsBound
<1>2. Below(Pops(char)) \in Seq(Value)
  BY <1>1, RunningFacts, BelowIs DEF Given
<1>3. << >> \o Below(Pops(char)) = Below(Pops(char))
  BY <1>2, ConcatEmptySeq
<1>4. stk' = After(char, stk0, imm, ret)
  BY <1>3 DEF Jump, Target, After, Below
<1> QED BY <1>4, Leaves DEF Jump, Advance, Target

\* The operands, when all of them have been popped.
LEMMA Operands ==
  ASSUME Running, char # "thunk", pc = Pops(char) + 1
  PROVE  Taken(Pops(char))
<1>1. Pops(char) \in 0..3
  BY PopsBound
<1>2. Taken(pc - 1)
  BY <1>1, RunningFacts DEF Progress, Popping
<1>3. pc - 1 = Pops(char)
  BY <1>1
<1> QED BY <1>2, <1>3

\* + - *
LEMMA ArithmeticStep ==
  ASSUME Running, char \in {"+", "-", "*"}, pc > 2
  PROVE  Arithmetic' /\ MeansCharacter'
<1>1. /\ Pops(char) = 2 /\ Way(char, stk0, ret) = 0 /\ Asks(char, stk0, imm) = << >>
      /\ Len(Emit[char]) = 4 /\ Emit[char][4].op = "push"
      /\ Emit[char][1].d = "rax" /\ Emit[char][2].d = "rbx"
      /\ char = "+" => Emit[char][3] = I("add", "rax", "rbx") /\ Emit[char][4].d = "rax"
      /\ char = "-" => Emit[char][3] = I("sub", "rbx", "rax") /\ Emit[char][4].d = "rbx"
      /\ char = "*" => Emit[char][3] = I("mul", "rax", "rbx") /\ Emit[char][4].d = "rax"
  BY DEF Emit, Kinds, Pops, Way, Asks, Push, Pop, I
<1>2. pc \in 3..4 /\ ins = Emit[char][pc] /\ stk0[1] \in Word /\ stk0[2] \in Word
  BY <1>1, RunningFacts
<1>3. CASE pc = 3
  <2>1. /\ stk = Below(2) /\ reg["rax"] = stk0[1] /\ reg["rbx"] = stk0[2] /\ Quiet
    BY <1>1, <1>3, Operands DEF Taken
  <2>2. stk0[1] # Junk /\ stk0[2] # Junk
    BY <1>2, WordFacts
  <2>3. UNCHANGED <<inputs, stk, called, went>> /\ pc' = 4
    <3>1. AddOrSub \/ Mul
      BY <1>1, <1>2, <1>3, RunningFacts, Executes DEF I
    <3> QED BY <3>1, <1>3 DEF AddOrSub, Mul, Advance
  <2>4. << reg'[Emit[char][4].d] >> = Pushes(char, stk0, imm, ret)
    <3>1. CASE char = "+"
      <4>1. AddOrSub /\ ins.op = "add" /\ ins.d = "rax" /\ ins.s = "rbx"
        BY <1>1, <1>2, <1>3, <3>1, RunningFacts, Executes DEF I
      <4>2. reg'["rax"] = (stk0[1] + stk0[2]) % Modulus
        BY <4>1, <2>1, <2>2, RunningFacts DEF AddOrSub, Plus, Known
      <4>3. stk0[1] + stk0[2] = stk0[2] + stk0[1]
        BY <1>2 DEF Word
      <4> QED BY <1>1, <3>1, <4>2, <4>3 DEF Pushes
    <3>2. CASE char = "-"
      <4>1. AddOrSub /\ ins.op = "sub" /\ ins.d = "rbx" /\ ins.s = "rax"
        BY <1>1, <1>2, <1>3, <3>2, RunningFacts, Executes DEF I
      <4>2. reg'["rbx"] = (stk0[2] - stk0[1]) % Modulus
        BY <4>1, <2>1, <2>2, RunningFacts DEF AddOrSub, Minus, Known
      <4> QED BY <1>1, <3>2, <4>2 DEF Pushes
    <3>3. CASE char = "*"
      <4>1. Mul /\ ins.s = "rbx"
        BY <1>1, <1>2, <1>3, <3>3, RunningFacts, Executes DEF I
      <4>2. reg'["rax"] = (stk0[1] * stk0[2]) % Modulus
        BY <4>1, <2>1, <2>2, RunningFacts DEF Mul, Known
      <4>3. stk0[1] * stk0[2] = stk0[2] * stk0[1]
        BY <1>2, Z3 DEF Word
      <4> QED BY <1>1, <3>3, <4>2, <4>3 DEF Pushes
    <3> QED BY <3>1, <3>2, <3>3
  <2>5. Arithmetic'
    <3>1. ins' = Emit[char][4]
      BY <2>3 DEF ins, inputs
    <3> QED BY <1>1, <2>1, <2>3, <2>4, <3>1 DEF Arithmetic, Result, inputs, Quiet, Below
  <2>6. ~Finished'
    BY <1>1, <2>3 DEF Finished, inputs
  <2> QED BY <2>5, <2>6 DEF MeansCharacter
<1>4. CASE pc = 4
  <2>1. PushReg
    BY <1>1, <1>2, <1>4, RunningFacts, Executes
  <2>2. Result
    BY <1>4, RunningFacts DEF Progress, Arithmetic
  <2>3. pc' = 5
    BY <1>4, <2>1 DEF PushReg, Advance
  <2> QED BY <1>1, <2>1, <2>2, <2>3, PushesResult DEF Arithmetic
<1> QED BY <1>2, <1>3, <1>4

\* / %
LEMMA DividingStep ==
  ASSUME Running, char \in {"/", "%"}, pc > 2
  PROVE  Dividing' /\ MeansCharacter' /\ TrapsOnZeroOnly'
<1>1. /\ Pops(char) = 2 /\ Way(char, stk0, ret) = 0 /\ Asks(char, stk0, imm) = << >>
      /\ Len(Emit[char]) = 5 /\ Emit[char][1].d = "rbx" /\ Emit[char][2].d = "rax"
      /\ Emit[char][3] = I("xor", "rdx", "rdx") /\ Emit[char][4] = I("div", "rax", "rbx")
      /\ Emit[char][5].op = "push"
      /\ char = "/" => Emit[char][5].d = "rax"
      /\ char = "%" => Emit[char][5].d = "rdx"
  BY DEF Emit, Kinds, Division, Pops, Way, Asks, Push, Pop, I
<1>2. pc \in 3..5 /\ ins = Emit[char][pc] /\ stk0[1] \in Word /\ stk0[2] \in Word /\ state = "run"
  BY <1>1, RunningFacts
<1>3. CASE pc = 3
  <2>1. stk = Below(2) /\ reg["rbx"] = stk0[1] /\ reg["rax"] = stk0[2] /\ Quiet
    BY <1>1, <1>3, Operands DEF Taken
  <2>2. Clear /\ ins.d = "rdx"
    BY <1>1, <1>2, <1>3, RunningFacts, Executes DEF I
  <2>3. UNCHANGED <<inputs, state, stk, called, went>> /\ pc' = 4
    BY <1>3, <2>2 DEF Clear, Advance
  <2>4. reg'["rdx"] = 0 /\ reg'["rax"] = reg["rax"] /\ reg'["rbx"] = reg["rbx"]
    BY <2>2, RunningFacts DEF Clear
  <2>5. Dividing'
    BY <1>1, <2>1, <2>3, <2>4 DEF Dividing, Taken, inputs, Quiet, Below
  <2>6. ~Finished' /\ state' # "trap"
    BY <1>1, <1>2, <2>3 DEF Finished, inputs
  <2> QED BY <2>5, <2>6 DEF MeansCharacter, TrapsOnZeroOnly
<1>4. CASE pc = 4
  <2>1. Taken(2) /\ reg["rdx"] = 0
    BY <1>4, RunningFacts DEF Progress, Dividing
  <2>2. stk = Below(2) /\ reg["rbx"] = stk0[1] /\ reg["rax"] = stk0[2] /\ Quiet
    BY <1>1, <2>1 DEF Taken
  <2>3. Div /\ ins.s = "rbx"
    BY <1>1, <1>2, <1>4, RunningFacts, Executes DEF I
  <2>4. Read("rdx") = {0} /\ Read("rax") = {stk0[2]} /\ Read("rbx") = {stk0[1]}
    BY <1>2, <2>1, <2>2, WordFacts DEF Read
  <2>5. /\ UNCHANGED <<stk, called, went>>
        /\ \/ /\ 0 < stk0[1]
              /\ reg' = [reg EXCEPT !["rax"] = (0 * Modulus + stk0[2]) \div stk0[1],
                                    !["rdx"] = (0 * Modulus + stk0[2]) % stk0[1]]
              /\ Advance
           \/ 0 >= stk0[1] /\ state' = "trap" /\ UNCHANGED <<inputs, pc, reg>>
    BY <2>3, <2>4 DEF Div
  <2>6. CASE 0 < stk0[1] /\ Advance
    <3>1. 0 * Modulus + stk0[2] = stk0[2]
      BY <1>2, WordFacts DEF Word
    <3>2. ~(0 >= stk0[1])
      BY <1>2, <2>6 DEF Word
    <3>3. reg'["rax"] = stk0[2] \div stk0[1] /\ reg'["rdx"] = stk0[2] % stk0[1]
      BY <2>5, <3>1, <3>2, RunningFacts
    <3>4. UNCHANGED <<inputs, state>> /\ pc' = 5 /\ ins' = Emit[char][5]
      BY <1>4, <2>6 DEF Advance, ins, inputs
    <3>5. << reg'[Emit[char][5].d] >> = Pushes(char, stk0, imm, ret)
      <4>1. CASE char = "/"
        BY <1>1, <3>3, <4>1 DEF Pushes
      <4>2. CASE char = "%"
        BY <1>1, <3>3, <4>2 DEF Pushes
      <4> QED BY <4>1, <4>2
    <3>6. Result'
      BY <1>1, <2>2, <2>5, <3>4, <3>5 DEF Result, inputs, Quiet, Below
    <3>7. ~Finished' /\ state' # "trap"
      BY <1>1, <1>2, <3>4 DEF Finished, inputs
    <3> QED BY <3>4, <3>6, <3>7 DEF Dividing, MeansCharacter, TrapsOnZeroOnly
  <2>7. CASE 0 >= stk0[1] /\ state' = "trap" /\ UNCHANGED <<inputs, pc, reg>>
    <3>1. stk0[1] = 0
      BY <1>2, <2>7 DEF Word
    <3>2. TrapsOnZeroOnly'
      BY <2>7, <3>1 DEF TrapsOnZeroOnly, Traps, inputs
    <3>3. Dividing'
      BY <1>4, <2>1, <2>5, <2>7 DEF Dividing, Taken, Quiet, inputs, Below
    <3> QED BY <2>7, <3>2, <3>3 DEF MeansCharacter, Finished
  <2> QED BY <2>5, <2>6, <2>7
<1>5. CASE pc = 5
  <2>1. PushReg
    BY <1>1, <1>2, <1>5, RunningFacts, Executes
  <2>2. Result
    BY <1>5, RunningFacts DEF Progress, Dividing
  <2>3. pc' = 6 /\ state' = state
    BY <1>5, <2>1 DEF PushReg, Advance
  <2> QED BY <1>1, <1>2, <2>1, <2>2, <2>3, PushesResult DEF Dividing, TrapsOnZeroOnly
<1> QED BY <1>2, <1>3, <1>4, <1>5

\* `
LEMMA ComparingStep ==
  ASSUME Running, char = "gt", pc > 2
  PROVE  Comparing' /\ MeansCharacter'
<1>1. /\ Pops(char) = 2 /\ Way(char, stk0, ret) = 0 /\ Asks(char, stk0, imm) = << >>
      /\ Len(Emit[char]) = 6 /\ Emit[char][1].d = "rax" /\ Emit[char][2].d = "rbx"
      /\ Emit[char][3].op = "xor" /\ Emit[char][3].d = "rcx" /\ Emit[char][3].s = "rcx"
      /\ Emit[char][4].op = "cmp" /\ Emit[char][4].d = "rbx" /\ Emit[char][4].s = "rax"
      /\ Emit[char][5].op = "setg" /\ Emit[char][5].d = "rcx"
      /\ Emit[char][6].op = "push" /\ Emit[char][6].d = "rcx"
  BY DEF Emit, Kinds, Pops, Way, Asks, Push, Pop, I
<1>2. pc \in 3..6 /\ ins = Emit[char][pc] /\ stk0[1] \in Word /\ stk0[2] \in Word
  BY <1>1, RunningFacts
<1>3. CASE pc = 3
  <2>1. stk = Below(2) /\ reg["rax"] = stk0[1] /\ reg["rbx"] = stk0[2] /\ Quiet
    BY <1>1, <1>3, Operands DEF Taken
  <2>2. Clear /\ ins.d = "rcx"
    BY <1>1, <1>2, <1>3, RunningFacts, Executes
  <2>3. UNCHANGED <<inputs, stk, called, went>> /\ pc' = 4
    BY <1>3, <2>2 DEF Clear, Advance
  <2>4. reg'["rcx"] = 0 /\ reg'["rax"] = reg["rax"] /\ reg'["rbx"] = reg["rbx"]
    BY <2>2, RunningFacts DEF Clear
  <2>5. Comparing'
    BY <1>1, <2>1, <2>3, <2>4 DEF Comparing, Taken, inputs, Quiet, Below
  <2>6. ~Finished'
    BY <1>1, <2>3 DEF Finished, inputs
  <2> QED BY <2>5, <2>6 DEF MeansCharacter
<1>4. CASE pc = 4
  <2>1. Taken(2) /\ reg["rcx"] = 0
    BY <1>4, RunningFacts DEF Progress, Comparing
  <2>2. stk = Below(2) /\ reg["rax"] = stk0[1] /\ reg["rbx"] = stk0[2] /\ Quiet
    BY <1>1, <2>1 DEF Taken
  <2>3. Compare /\ ins.op = "cmp" /\ ins.d = "rbx" /\ ins.s = "rax"
    BY <1>1, <1>2, <1>4, RunningFacts, Executes
  <2>4. Read("rax") = {stk0[1]} /\ Read("rbx") = {stk0[2]}
    BY <1>2, <2>2, WordFacts DEF Read
  <2>5. /\ flags' = [equal |-> stk0[2] = stk0[1], greater |-> Signed(stk0[2]) > Signed(stk0[1])]
        /\ UNCHANGED <<inputs, stk, reg, called, went>> /\ pc' = 5
    BY <1>4, <2>3, <2>4 DEF Compare, Advance
  <2>6. Comparing'
    BY <2>1, <2>2, <2>5 DEF Comparing, inputs, Quiet, Below
  <2>7. ~Finished'
    BY <1>1, <2>5 DEF Finished, inputs
  <2> QED BY <2>6, <2>7 DEF MeansCharacter
<1>5. CASE pc = 5
  <2>1. /\ stk = Below(2) /\ reg["rcx"] = 0 /\ Quiet
        /\ flags.greater = (Signed(stk0[2]) > Signed(stk0[1]))
    BY <1>5, RunningFacts DEF Progress, Comparing
  <2>2. SetByte /\ ins.op = "setg" /\ ins.d = "rcx"
    BY <1>1, <1>2, <1>5, RunningFacts, Executes
  <2>3. UNCHANGED <<inputs, stk, called, went>> /\ pc' = 6 /\ ins' = Emit[char][6]
    BY <1>5, <2>2 DEF SetByte, Advance, ins, inputs
  <2>4. reg'["rcx"] = IF flags.greater THEN 1 ELSE 0
    BY <2>1, <2>2, RunningFacts DEF SetByte
  <2>5. << reg'["rcx"] >> = Pushes(char, stk0, imm, ret)
    BY <2>1, <2>4 DEF Pushes
  <2>6. Result'
    BY <1>1, <2>1, <2>3, <2>5 DEF Result, inputs, Quiet, Below
  <2>7. ~Finished'
    BY <1>1, <2>3 DEF Finished, inputs
  <2> QED BY <2>3, <2>6, <2>7 DEF Comparing, MeansCharacter
<1>6. CASE pc = 6
  <2>1. PushReg
    BY <1>1, <1>2, <1>6, RunningFacts, Executes
  <2>2. Result
    BY <1>6, RunningFacts DEF Progress, Comparing
  <2>3. pc' = 7
    BY <1>6, <2>1 DEF PushReg, Advance
  <2> QED BY <1>1, <2>1, <2>2, <2>3, PushesResult DEF Comparing
<1> QED BY <1>2, <1>3, <1>4, <1>5, <1>6

\* !
LEMMA NegatingStep ==
  ASSUME Running, char = "!", pc > 1
  PROVE  Negating' /\ MeansCharacter'
<1>1. /\ Pops(char) = 1 /\ Way(char, stk0, ret) = 0 /\ Asks(char, stk0, imm) = << >>
      /\ Len(Emit[char]) = 5 /\ Emit[char][1].d = "rax"
      /\ Emit[char][2].op = "xor" /\ Emit[char][2].d = "rcx" /\ Emit[char][2].s = "rcx"
      /\ Emit[char][3].op = "cmp0" /\ Emit[char][3].d = "rax"
      /\ Emit[char][4].op = "sete" /\ Emit[char][4].d = "rcx"
      /\ Emit[char][5].op = "push" /\ Emit[char][5].d = "rcx"
  BY DEF Emit, Kinds, Pops, Way, Asks, Push, Pop, I
<1>2. pc \in 2..5 /\ ins = Emit[char][pc] /\ stk0[1] \in Word
  BY <1>1, RunningFacts
<1>3. CASE pc = 2
  <2>1. stk = Below(1) /\ reg["rax"] = stk0[1] /\ Quiet
    BY <1>1, <1>3, Operands DEF Taken
  <2>2. Clear /\ ins.d = "rcx"
    BY <1>1, <1>2, <1>3, RunningFacts, Executes
  <2>3. UNCHANGED <<inputs, stk, called, went>> /\ pc' = 3
    BY <1>3, <2>2 DEF Clear, Advance
  <2>4. reg'["rcx"] = 0 /\ reg'["rax"] = reg["rax"]
    BY <2>2, RunningFacts DEF Clear
  <2>5. Negating'
    BY <1>1, <2>1, <2>3, <2>4 DEF Negating, Taken, inputs, Quiet, Below
  <2>6. ~Finished'
    BY <1>1, <2>3 DEF Finished, inputs
  <2> QED BY <2>5, <2>6 DEF MeansCharacter
<1>4. CASE pc = 3
  <2>1. Taken(1) /\ reg["rcx"] = 0
    BY <1>4, RunningFacts DEF Progress, Negating
  <2>2. stk = Below(1) /\ reg["rax"] = stk0[1] /\ Quiet
    BY <1>1, <2>1 DEF Taken
  <2>3. Compare /\ ins.op = "cmp0" /\ ins.d = "rax"
    BY <1>1, <1>2, <1>4, RunningFacts, Executes
  <2>4. Read("rax") = {stk0[1]}
    BY <1>2, <2>2, WordFacts DEF Read
  <2>5. /\ flags' = [equal |-> stk0[1] = 0, greater |-> Signed(stk0[1]) > Signed(0)]
        /\ UNCHANGED <<inputs, stk, reg, called, went>> /\ pc' = 4
    BY <1>4, <2>3, <2>4 DEF Compare, Advance
  <2>6. Negating'
    BY <2>1, <2>2, <2>5 DEF Negating, inputs, Quiet, Below
  <2>7. ~Finished'
    BY <1>1, <2>5 DEF Finished, inputs
  <2> QED BY <2>6, <2>7 DEF MeansCharacter
<1>5. CASE pc = 4
  <2>1. stk = Below(1) /\ reg["rcx"] = 0 /\ Quiet /\ flags.equal = (stk0[1] = 0)
    BY <1>5, RunningFacts DEF Progress, Negating
  <2>2. SetByte /\ ins.op = "sete" /\ ins.d = "rcx"
    BY <1>1, <1>2, <1>5, RunningFacts, Executes
  <2>3. UNCHANGED <<inputs, stk, called, went>> /\ pc' = 5 /\ ins' = Emit[char][5]
    BY <1>5, <2>2 DEF SetByte, Advance, ins, inputs
  <2>4. reg'["rcx"] = IF flags.equal THEN 1 ELSE 0
    BY <2>1, <2>2, RunningFacts DEF SetByte
  <2>5. << reg'["rcx"] >> = Pushes(char, stk0, imm, ret)
    BY <2>1, <2>4 DEF Pushes
  <2>6. Result'
    BY <1>1, <2>1, <2>3, <2>5 DEF Result, inputs, Quiet, Below
  <2>7. ~Finished'
    BY <1>1, <2>3 DEF Finished, inputs
  <2> QED BY <2>3, <2>6, <2>7 DEF Negating, MeansCharacter
<1>6. CASE pc = 5
  <2>1. PushReg
    BY <1>1, <1>2, <1>6, RunningFacts, Executes
  <2>2. Result
    BY <1>6, RunningFacts DEF Progress, Negating
  <2>3. pc' = 6
    BY <1>6, <2>1 DEF PushReg, Advance
  <2> QED BY <1>1, <2>1, <2>2, <2>3, PushesResult DEF Negating
<1> QED BY <1>2, <1>3, <1>4, <1>5, <1>6

\* The second of two pushes: x is on top of y.
LEMMA PushesTwo ==
  ASSUME Running, PushReg, NEW n \in 0..3, NEW x \in Word, NEW y \in Word,
         stk = << y >> \o Below(n), reg[ins.d] = x, Quiet, Pops(char) = n,
         Pushes(char, stk0, imm, ret) = << x, y >>,
         Way(char, stk0, ret) = 0, Asks(char, stk0, imm) = << >>
  PROVE  MeansCharacter'
<1>1. Below(n) \in Seq(Value) /\ x \in Value /\ y \in Value
  BY RunningFacts, BelowIs DEF Given, Value
<1>2. << x >> \o (<< y >> \o Below(n)) = << x, y >> \o Below(n)
  <2>1. PICK s : s = Below(n)
    OBVIOUS
  <2>2. s \in Seq(Value)
    BY <1>1, <2>1
  <2>3. << x >> \o << y >> = << x, y >> /\ << x >> \in Seq(Value) /\ << y >> \in Seq(Value)
    BY <1>1, PushedTwo
  <2>4. (<< x >> \o << y >>) \o s = << x >> \o (<< y >> \o s)
    BY <2>2, <2>3, ConcatAssociative
  <2> QED BY <2>1, <2>3, <2>4
<1>3. stk' = After(char, stk0, imm, ret)
  BY <1>2 DEF PushReg, After, Below
<1> QED BY <1>3, Leaves DEF PushReg, Advance, Quiet

\* :
LEMMA CopyingStep ==
  ASSUME Running, char = ":", pc > 1
  PROVE  Copying' /\ MeansCharacter'
<1>1. /\ Pops(char) = 1 /\ Way(char, stk0, ret) = 0 /\ Asks(char, stk0, imm) = << >>
      /\ Pushes(char, stk0, imm, ret) = << stk0[1], stk0[1] >>
      /\ Len(Emit[char]) = 3 /\ Emit[char][1].d = "rax"
      /\ Emit[char][2].op = "push" /\ Emit[char][2].d = "rax"
      /\ Emit[char][3].op = "push" /\ Emit[char][3].d = "rax"
  BY DEF Emit, Kinds, Pops, Way, Asks, Pushes, Push, Pop, I
<1>2. pc \in 2..3 /\ ins = Emit[char][pc] /\ stk0[1] \in Word
  BY <1>1, RunningFacts
<1>3. PushReg /\ ins.d = "rax"
  BY <1>1, <1>2, RunningFacts, Executes
<1>4. CASE pc = 2
  <2>1. stk = Below(1) /\ reg["rax"] = stk0[1] /\ Quiet
    BY <1>1, <1>4, Operands DEF Taken
  <2>2. UNCHANGED <<inputs, reg, called, went>> /\ pc' = 3 /\ stk' = << stk0[1] >> \o stk
    BY <1>3, <1>4, <2>1 DEF PushReg, Advance
  <2>3. Copying'
    BY <2>1, <2>2 DEF Copying, inputs, Quiet, Below
  <2>4. ~Finished'
    BY <1>1, <2>2 DEF Finished, inputs
  <2> QED BY <2>3, <2>4 DEF MeansCharacter
<1>5. CASE pc = 3
  <2>1. stk = << stk0[1] >> \o Below(1) /\ reg["rax"] = stk0[1] /\ Quiet
    BY <1>5, RunningFacts DEF Progress, Copying
  <2>2. pc' = 4
    BY <1>3, <1>5 DEF PushReg, Advance
  <2> QED BY <1>1, <1>2, <1>3, <2>1, <2>2, PushesTwo DEF Copying
<1> QED BY <1>2, <1>4, <1>5

\* \
LEMMA SwappingStep ==
  ASSUME Running, char = "\\", pc > 2
  PROVE  Swapping' /\ MeansCharacter'
<1>1. /\ Pops(char) = 2 /\ Way(char, stk0, ret) = 0 /\ Asks(char, stk0, imm) = << >>
      /\ Pushes(char, stk0, imm, ret) = << stk0[2], stk0[1] >>
      /\ Len(Emit[char]) = 4 /\ Emit[char][1].d = "rax" /\ Emit[char][2].d = "rbx"
      /\ Emit[char][3].op = "push" /\ Emit[char][3].d = "rax"
      /\ Emit[char][4].op = "push" /\ Emit[char][4].d = "rbx"
  BY DEF Emit, Kinds, Pops, Way, Asks, Pushes, Push, Pop, I
<1>2. pc \in 3..4 /\ ins = Emit[char][pc] /\ stk0[1] \in Word /\ stk0[2] \in Word
  BY <1>1, RunningFacts
<1>3. PushReg
  BY <1>1, <1>2, RunningFacts, Executes
<1>4. CASE pc = 3
  <2>1. stk = Below(2) /\ reg["rax"] = stk0[1] /\ reg["rbx"] = stk0[2] /\ Quiet
    BY <1>1, <1>4, Operands DEF Taken
  <2>2. UNCHANGED <<inputs, reg, called, went>> /\ pc' = 4 /\ stk' = << stk0[1] >> \o stk
    BY <1>1, <1>2, <1>3, <1>4, <2>1 DEF PushReg, Advance
  <2>3. Swapping'
    BY <2>1, <2>2 DEF Swapping, inputs, Quiet, Below
  <2>4. ~Finished'
    BY <1>1, <2>2 DEF Finished, inputs
  <2> QED BY <2>3, <2>4 DEF MeansCharacter
<1>5. CASE pc = 4
  <2>1. stk = << stk0[1] >> \o Below(2) /\ reg[ins.d] = stk0[2] /\ Quiet
    BY <1>1, <1>2, <1>5, RunningFacts DEF Progress, Swapping
  <2>2. pc' = 5
    BY <1>3, <1>5 DEF PushReg, Advance
  <2> QED BY <1>1, <1>2, <1>3, <2>1, <2>2, PushesTwo DEF Swapping
<1> QED BY <1>2, <1>4, <1>5

\* _ |
LEMMA BranchingStep ==
  ASSUME Running, char \in Branches, pc > 1
  PROVE  Branching' /\ MeansCharacter'
<1>1. /\ Pops(char) = 1 /\ Asks(char, stk0, imm) = << >> /\ char # "thunk"
      /\ Pushes(char, stk0, imm, ret) = << >>
      /\ Way(char, stk0, ret) = IF stk0[1] = 0 THEN 1 ELSE 2
      /\ Len(Emit[char]) = 6 /\ Emit[char][1].d = "rax"
      /\ Emit[char][2].op = "cmp0" /\ Emit[char][2].d = "rax"
      /\ Emit[char][3].op = "mov" /\ Emit[char][3].d = "rax" /\ Emit[char][3].s = "target1"
      /\ Emit[char][4].op = "je"
      /\ Emit[char][5].op = "mov" /\ Emit[char][5].d = "rax" /\ Emit[char][5].s = "target2"
      /\ Emit[char][6].op = "jmp" /\ Emit[char][6].d = "rax"
  BY DEF Branches, Emit, Kinds, JumpOnZero, Pops, Way, Asks, Pushes, Pop, I
<1>2. pc \in 2..6 /\ ins = Emit[char][pc] /\ stk0[1] \in Word
  BY <1>1, RunningFacts
<1>3. CASE pc = 2
  <2>1. stk = Below(1) /\ reg["rax"] = stk0[1] /\ Quiet
    BY <1>1, <1>3, Operands DEF Taken
  <2>2. Compare /\ ins.op = "cmp0" /\ ins.d = "rax"
    BY <1>1, <1>2, <1>3, RunningFacts, Executes
  <2>3. Read("rax") = {stk0[1]}
    BY <1>2, <2>1, WordFacts DEF Read
  <2>4. /\ flags' = [equal |-> stk0[1] = 0, greater |-> Signed(stk0[1]) > Signed(0)]
        /\ UNCHANGED <<inputs, stk, called, went>> /\ pc' = 3
    BY <1>3, <2>2, <2>3 DEF Compare, Advance
  <2>5. Branching'
    BY <2>1, <2>4 DEF Branching, inputs, Quiet, Below
  <2>6. ~Finished'
    BY <1>1, <2>4 DEF Finished, inputs
  <2> QED BY <2>5, <2>6 DEF MeansCharacter
<1>4. CASE pc \in 3..5
  <2>1. /\ stk = Below(1) /\ Quiet /\ flags.equal = (stk0[1] = 0)
        /\ pc = 4 => reg["rax"] = 1
        /\ pc = 5 => stk0[1] # 0
    BY <1>4, RunningFacts DEF Progress, Branching
  <2>2. CASE pc = 3
    <3>1. LoadTarget /\ ins.d = "rax" /\ ins.s = "target1"
      BY <1>1, <1>2, <2>2, RunningFacts, Executes
    <3>2. UNCHANGED <<inputs, stk, flags, called, went>> /\ pc' = 4 /\ reg'["rax"] = 1
      BY <2>2, <3>1, RunningFacts DEF LoadTarget, Advance
    <3>3. Branching'
      BY <2>1, <3>2 DEF Branching, inputs, Quiet, Below
    <3>4. ~Finished'
      BY <1>1, <3>2 DEF Finished, inputs
    <3> QED BY <3>3, <3>4 DEF MeansCharacter
  <2>3. CASE pc = 4
    <3>1. JumpIfEqual
      BY <1>1, <1>2, <2>3, RunningFacts, Executes
    <3>2. /\ UNCHANGED <<inputs, stk, reg, flags, called, went>>
          /\ pc' = IF stk0[1] = 0 THEN 6 ELSE 5
      <4>1. /\ UNCHANGED <<inputs, stk, reg, flags, called, went>>
            /\ pc' = IF flags.equal THEN 6 ELSE 5
        BY <2>3, <3>1 DEF JumpIfEqual
      <4> QED BY <2>1, <4>1
    <3>3. pc' = 6 => Target'
      BY <1>1, <2>1, <2>3, <3>2 DEF Target, inputs, Quiet, Below
    <3>4. Branching'
      BY <2>1, <3>2, <3>3 DEF Branching, inputs, Quiet, Below
    <3>5. ~Finished'
      BY <1>1, <3>2 DEF Finished, inputs
    <3> QED BY <3>4, <3>5 DEF MeansCharacter
  <2>4. CASE pc = 5
    <3>1. LoadTarget /\ ins.d = "rax" /\ ins.s = "target2"
      BY <1>1, <1>2, <2>4, RunningFacts, Executes
    <3>2. UNCHANGED <<inputs, stk, flags, called, went>> /\ pc' = 6 /\ reg'["rax"] = 2
      BY <2>4, <3>1, RunningFacts DEF LoadTarget, Advance
    <3>3. Target'
      BY <1>1, <2>1, <2>4, <3>2 DEF Target, inputs, Quiet, Below
    <3>4. Branching'
      BY <3>2, <3>3 DEF Branching
    <3>5. ~Finished'
      BY <1>1, <3>2 DEF Finished, inputs
    <3> QED BY <3>4, <3>5 DEF MeansCharacter
  <2> QED BY <1>4, <2>2, <2>3, <2>4
<1>5. CASE pc = 6
  <2>1. Jump /\ ins.d = "rax"
    BY <1>1, <1>2, <1>5, RunningFacts, Executes
  <2>2. Target
    BY <1>5, RunningFacts DEF Progress, Branching
  <2>3. pc' = 7
    BY <1>5, <2>1 DEF Jump, Advance
  <2> QED BY <1>1, <2>1, <2>2, <2>3, JumpsToTarget DEF Branching
<1> QED BY <1>2, <1>3, <1>4, <1>5

\* < > ^ v # and the end of a string
LEMMA GoingStep ==
  ASSUME Running, char = ">"
  PROVE  Going' /\ MeansCharacter'
<1>1. /\ Pops(char) = 0 /\ Asks(char, stk0, imm) = << >>
      /\ Pushes(char, stk0, imm, ret) = << >> /\ Way(char, stk0, ret) = 1
      /\ Len(Emit[char]) = 2
      /\ Emit[char][1].op = "mov" /\ Emit[char][1].d = "rax" /\ Emit[char][1].s = "target1"
      /\ Emit[char][2].op = "jmp" /\ Emit[char][2].d = "rax"
  BY DEF Emit, Kinds, Pops, Way, Asks, Pushes, I
<1>2. pc \in 1..2 /\ ins = Emit[char][pc]
  BY <1>1, RunningFacts
<1>3. CASE pc = 1
  <2>1. stk = Below(0) /\ Quiet
    BY <1>1, <1>3, Operands DEF Taken
  <2>2. LoadTarget /\ ins.d = "rax" /\ ins.s = "target1"
    BY <1>1, <1>2, <1>3, RunningFacts, Executes
  <2>3. UNCHANGED <<inputs, stk, called, went>> /\ pc' = 2 /\ reg'["rax"] = 1
    BY <1>3, <2>2, RunningFacts DEF LoadTarget, Advance
  <2>4. Going'
    BY <1>1, <2>1, <2>3 DEF Going, Target, inputs, Quiet, Below
  <2>5. ~Finished'
    BY <1>1, <2>3 DEF Finished, inputs
  <2> QED BY <2>4, <2>5 DEF MeansCharacter
<1>4. CASE pc = 2
  <2>1. Jump /\ ins.d = "rax"
    BY <1>1, <1>2, <1>4, RunningFacts, Executes
  <2>2. Target
    BY <1>4, RunningFacts DEF Progress, Going
  <2>3. pc' = 3
    BY <1>4, <2>1 DEF Jump, Advance
  <2> QED BY <1>1, <2>1, <2>2, <2>3, JumpsToTarget DEF Going
<1> QED BY <1>2, <1>3, <1>4

\* Digits, and the characters of a string
LEMMA LiteralStep ==
  ASSUME Running, char = "0"
  PROVE  MeansCharacter'
<1>1. /\ Pops(char) = 0 /\ Asks(char, stk0, imm) = << >>
      /\ Pushes(char, stk0, imm, ret) = << imm >> /\ Way(char, stk0, ret) = 0
      /\ Len(Emit[char]) = 1 /\ Emit[char][1].op = "pushimm"
  BY DEF Emit, Kinds, Pops, Way, Asks, Pushes, I
<1>2. pc = 1 /\ ins = Emit[char][pc]
  BY <1>1, RunningFacts
<1>3. stk = Below(0) /\ Quiet
  BY <1>1, <1>2, Operands DEF Taken
<1>4. PushImm
  BY <1>1, <1>2, RunningFacts, Executes
<1>5. stk' = After(char, stk0, imm, ret)
  BY <1>1, <1>3, <1>4 DEF PushImm, After, Below
<1> QED BY <1>1, <1>3, <1>4, <1>5, Leaves DEF PushImm, Advance, Quiet

-----------------------------------------------------------------------------
\* The code of a caller: alignment, call, restoration, and what comes after.
LEMMA CallerCode ==
  ASSUME char \in Callers
  PROVE  /\ AlignAt \in 1..4 /\ Pops(char) \in 0..3
         /\ Len(Emit[char]) \in {AlignAt + 2, AlignAt + 3, AlignAt + 4}
         /\ Emit[char][AlignAt].op = "align" /\ Emit[char][AlignAt].d = "rbx"
         /\ Emit[char][AlignAt + 1].op = "call" /\ Emit[char][AlignAt + 1].s # "exit"
         /\ Emit[char][AlignAt + 2].op = "restore" /\ Emit[char][AlignAt + 2].d = "rbx"
         /\ Len(Emit[char]) = AlignAt + 2 =>
              Pushes(char, stk0, imm, ret) = << >> /\ Way(char, stk0, ret) = 0
<1>1. CASE char = "&"
  <2>1. /\ Pops(char) = 0 /\ Len(Emit[char]) = 4
        /\ Emit[char][1].op = "align" /\ Emit[char][1].d = "rbx"
        /\ Emit[char][2].op = "call" /\ Emit[char][2].s # "exit"
        /\ Emit[char][3].op = "restore" /\ Emit[char][3].d = "rbx"
    BY <1>1 DEF Pops, Emit, Kinds, Pushes, Way, Pop, Push, AlignRsp, Call, RestoreRsp, I
  <2>2. AlignAt = 1
    BY <1>1, <2>1 DEF AlignAt
  <2> QED BY <2>1, <2>2
<1>2. CASE char = "~"
  <2>1. /\ Pops(char) = 0 /\ Len(Emit[char]) = 4
        /\ Emit[char][1].op = "align" /\ Emit[char][1].d = "rbx"
        /\ Emit[char][2].op = "call" /\ Emit[char][2].s # "exit"
        /\ Emit[char][3].op = "restore" /\ Emit[char][3].d = "rbx"
    BY <1>2 DEF Pops, Emit, Kinds, Pushes, Way, Pop, Push, AlignRsp, Call, RestoreRsp, I
  <2>2. AlignAt = 1
    BY <1>2, <2>1 DEF AlignAt
  <2> QED BY <2>1, <2>2
<1>3. CASE char = "."
  <2>1. /\ Pops(char) = 1 /\ Len(Emit[char]) = 4
        /\ Emit[char][2].op = "align" /\ Emit[char][2].d = "rbx"
        /\ Emit[char][3].op = "call" /\ Emit[char][3].s # "exit"
        /\ Emit[char][4].op = "restore" /\ Emit[char][4].d = "rbx"
        /\ Pushes(char, stk0, imm, ret) = << >> /\ Way(char, stk0, ret) = 0
    BY <1>3 DEF Pops, Emit, Kinds, Pushes, Way, Pop, Push, AlignRsp, Call, RestoreRsp, I
  <2>2. AlignAt = 2
    BY <1>3, <2>1 DEF AlignAt
  <2> QED BY <2>1, <2>2
<1>4. CASE char = ","
  <2>1. /\ Pops(char) = 1 /\ Len(Emit[char]) = 4
        /\ Emit[char][2].op = "align" /\ Emit[char][2].d = "rbx"
        /\ Emit[char][3].op = "call" /\ Emit[char][3].s # "exit"
        /\ Emit[char][4].op = "restore" /\ Emit[char][4].d = "rbx"
        /\ Pushes(char, stk0, imm, ret) = << >> /\ Way(char, stk0, ret) = 0
    BY <1>4 DEF Pops, Emit, Kinds, Pushes, Way, Pop, Push, AlignRsp, Call, RestoreRsp, I
  <2>2. char # "thunk" /\ Pops(char) = 1
    BY <1>4, <2>1
  <2>3. AlignAt = 2
    BY <2>2 DEF AlignAt
  <2> QED BY <2>1, <2>3
<1>5. CASE char = "g"
  <2>1. /\ Pops(char) = 2 /\ Len(Emit[char]) = 6
        /\ Emit[char][3].op = "align" /\ Emit[char][3].d = "rbx"
        /\ Emit[char][4].op = "call" /\ Emit[char][4].s # "exit"
        /\ Emit[char][5].op = "restore" /\ Emit[char][5].d = "rbx"
    BY <1>5 DEF Pops, Emit, Kinds, Pushes, Way, Pop, Push, AlignRsp, Call, RestoreRsp, I
  <2>2. AlignAt = 3
    BY <1>5, <2>1 DEF AlignAt
  <2> QED BY <2>1, <2>2
<1>6. CASE char = "p"
  <2>1. /\ Pops(char) = 3 /\ Len(Emit[char]) = 6
        /\ Emit[char][4].op = "align" /\ Emit[char][4].d = "rbx"
        /\ Emit[char][5].op = "call" /\ Emit[char][5].s # "exit"
        /\ Emit[char][6].op = "restore" /\ Emit[char][6].d = "rbx"
        /\ Pushes(char, stk0, imm, ret) = << >> /\ Way(char, stk0, ret) = 0
    BY <1>6 DEF Pops, Emit, Kinds, Pushes, Way, Pop, Push, AlignRsp, Call, RestoreRsp, I
  <2>2. AlignAt = 4
    BY <1>6, <2>1 DEF AlignAt
  <2> QED BY <2>1, <2>2
<1>7. CASE char = "?"
  <2>1. /\ Pops(char) = 0 /\ Len(Emit[char]) = 5
        /\ Emit[char][1].op = "align" /\ Emit[char][1].d = "rbx"
        /\ Emit[char][2].op = "call" /\ Emit[char][2].s # "exit"
        /\ Emit[char][3].op = "restore" /\ Emit[char][3].d = "rbx"
    BY <1>7 DEF Pops, Emit, Kinds, Pushes, Way, Pop, Push, AlignRsp, Call, RestoreRsp, I
  <2>2. AlignAt = 1
    BY <1>7, <2>1 DEF AlignAt
  <2> QED BY <2>1, <2>2
<1>8. CASE char = "thunk"
  <2>1. /\ Pops(char) = 0 /\ Len(Emit[char]) = 6
        /\ Emit[char][3].op = "align" /\ Emit[char][3].d = "rbx"
        /\ Emit[char][4].op = "call" /\ Emit[char][4].s # "exit"
        /\ Emit[char][5].op = "restore" /\ Emit[char][5].d = "rbx"
    BY <1>8 DEF Pops, Emit, Kinds, Pushes, Way, Pop, Push, AlignRsp, Call, RestoreRsp, I,
                compiler_dispatch
  <2>2. AlignAt = 3
    BY <1>8, <2>1 DEF AlignAt
  <2> QED BY <2>1, <2>2
<1> QED BY <1>1, <1>2, <1>3, <1>4, <1>5, <1>6, <1>7, <1>8 DEF Callers

\* Before the call, the operands are in the registers of the calling convention.
LEMMA CallReady ==
  ASSUME Running, char \in Callers, pc = AlignAt
  PROVE  Ready(Emit[char][AlignAt + 1].s) /\ stk = Below(Pops(char)) /\ Quiet
<1>1. /\ char = "thunk" => pc = 3
      /\ char # "thunk" => pc = Pops(char) + 1
  BY DEF AlignAt
<1>2. CASE char = "thunk"
  <2>1. stk = Below(0) /\ reg["rdi"] = imm /\ Quiet
    BY <1>1, <1>2, RunningFacts DEF Progress, Dispatching
  <2>2. /\ Emit[char][4].s = "resolve_thunk" /\ Pops(char) = 0
        /\ Asks(char, stk0, imm) = << "resolve_thunk", << imm >> >>
    BY <1>2 DEF Emit, Kinds, Pops, Asks, compiler_dispatch, Call, I
  <2>3. /\ Arity("resolve_thunk") = 1
        /\ SubSeq(<< reg["rdi"], reg["rsi"], reg["rdx"] >>, 1, 1) = << reg["rdi"] >>
    <3>1. reg["rdi"] \in Value /\ reg["rsi"] \in Value /\ reg["rdx"] \in Value
      BY RunningFacts
    <3> QED BY <3>1, Arguments DEF Arity
  <2>4. AlignAt + 1 = 4 /\ Emit[char][AlignAt + 1].s = "resolve_thunk"
    <3>1. AlignAt = 3
      BY <1>1, <1>2
    <3> QED BY <2>2, <3>1
  <2>5. Ready("resolve_thunk")
    BY <2>1, <2>2, <2>3 DEF Ready
  <2> QED BY <2>1, <2>2, <2>4, <2>5
<1>3. CASE char # "thunk"
  <2>1. Taken(Pops(char)) /\ AlignAt = Pops(char) + 1
    BY <1>1, <1>3, Operands
  <2>2. stk = Below(Pops(char)) /\ Quiet /\ \A i \in 1..Pops(char) : reg[Emit[char][i].d] = stk0[i]
    BY <2>1 DEF Taken
  <2>3. Ready(Emit[char][Pops(char) + 2].s)
    <3> DEFINE args(n) == SubSeq(<< reg["rdi"], reg["rsi"], reg["rdx"] >>, 1, n)
    <3>1. /\ args(0) = << >> /\ args(1) = << reg["rdi"] >> /\ args(2) = << reg["rdi"], reg["rsi"] >>
          /\ args(3) = << reg["rdi"], reg["rsi"], reg["rdx"] >>
      BY RunningFacts, Arguments
    <3> HIDE DEF args
    <3>2. CASE char \in {"&", "~", "?"}
      <4>1. /\ Pops(char) = 0 /\ Arity(Emit[char][2].s) = 0
            /\ Asks(char, stk0, imm) = << Emit[char][2].s, << >> >>
        BY <3>2 DEF Emit, Kinds, Pops, Asks, Arity, AlignRsp, Call, I
      <4>2. Asks(char, stk0, imm) = << Emit[char][2].s, args(Arity(Emit[char][2].s)) >>
        BY <3>1, <4>1
      <4> QED BY <4>1, <4>2 DEF Ready, args
    <3>3. CASE char \in {".", ","}
      <4>1. /\ Pops(char) = 1 /\ Arity(Emit[char][3].s) = 1 /\ Emit[char][1].d = "rdi"
            /\ Asks(char, stk0, imm) = << Emit[char][3].s, << stk0[1] >> >>
        BY <3>3 DEF Emit, Kinds, Pops, Asks, Arity, AlignRsp, Call, Pop, I
      <4>2. reg["rdi"] = stk0[1]
        BY <2>2, <4>1
      <4>3. Asks(char, stk0, imm) = << Emit[char][3].s, args(Arity(Emit[char][3].s)) >>
        BY <3>1, <4>1, <4>2
      <4> QED BY <4>1, <4>3 DEF Ready, args
    <3>4. CASE char = "g"
      <4>1. /\ Pops(char) = 2 /\ Arity(Emit[char][4].s) = 2
            /\ Emit[char][1].d = "rdi" /\ Emit[char][2].d = "rsi"
            /\ Asks(char, stk0, imm) = << Emit[char][4].s, << stk0[1], stk0[2] >> >>
        BY <3>4 DEF Emit, Kinds, Pops, Asks, Arity, AlignRsp, Call, Pop, I
      <4>2. reg["rdi"] = stk0[1] /\ reg["rsi"] = stk0[2]
        BY <2>2, <4>1
      <4>3. Asks(char, stk0, imm) = << Emit[char][4].s, args(Arity(Emit[char][4].s)) >>
        BY <3>1, <4>1, <4>2
      <4> QED BY <4>1, <4>3 DEF Ready, args
    <3>5. CASE char = "p"
      <4>1. /\ Pops(char) = 3 /\ Arity(Emit[char][5].s) = 3
            /\ Emit[char][1].d = "rdi" /\ Emit[char][2].d = "rsi" /\ Emit[char][3].d = "rdx"
            /\ Asks(char, stk0, imm) = << Emit[char][5].s, << stk0[1], stk0[2], stk0[3] >> >>
        BY <3>5 DEF Emit, Kinds, Pops, Asks, Arity, AlignRsp, Call, Pop, I
      <4>2. reg["rdi"] = stk0[1] /\ reg["rsi"] = stk0[2] /\ reg["rdx"] = stk0[3]
        BY <2>2, <4>1
      <4>3. Asks(char, stk0, imm) = << Emit[char][5].s, args(Arity(Emit[char][5].s)) >>
        BY <3>1, <4>1, <4>2
      <4> QED BY <4>1, <4>3 DEF Ready, args
    <3> QED BY <1>3, <3>2, <3>3, <3>4, <3>5 DEF Callers
  <2>4. AlignAt + 1 = Pops(char) + 2
    BY <2>1, PopsBound
  <2> QED BY <2>2, <2>3, <2>4
<1> QED BY <1>2, <1>3

\* The alignment, the call and the restoration of the stack pointer.
LEMMA CallingStep ==
  ASSUME Running, IInv, char \in Callers, pc \in AlignAt..AlignAt+2
  PROVE  /\ Calling' /\ MeansCharacter'
         /\ pc' = pc + 1 /\ UNCHANGED <<inputs, state>>
<1> DEFINE A == AlignAt
           B == Below(Pops(char))
<1>1. /\ A \in 1..4 /\ Pops(char) \in 0..3
      /\ Len(Emit[char]) \in {A + 2, A + 3, A + 4}
      /\ Emit[char][A].op = "align" /\ Emit[char][A].d = "rbx"
      /\ Emit[char][A + 1].op = "call" /\ Emit[char][A + 1].s # "exit"
      /\ Emit[char][A + 2].op = "restore" /\ Emit[char][A + 2].d = "rbx"
      /\ Len(Emit[char]) = A + 2 => Pushes(char, stk0, imm, ret) = << >> /\ Way(char, stk0, ret) = 0
  BY CallerCode
<1>2. B \in Seq(Value)
  BY <1>1, RunningFacts, BelowIs DEF Given
<1>3. ins = Emit[char][pc]
  BY RunningFacts
<1>4. UNCHANGED inputs => AlignAt' = A /\ Below(Pops(char))' = B /\ Pops(char)' = Pops(char)
  BY DEF AlignAt, Below, inputs
<1> HIDE DEF B
<1>5. CASE pc = A
  <2>1. Align /\ Ready(Emit[char][A + 1].s) /\ stk = B /\ Quiet
    BY <1>1, <1>3, <1>5, RunningFacts, Executes, CallReady DEF B
  <2>2. /\ UNCHANGED <<inputs, state, called, went>> /\ pc' = pc + 1
        /\ reg' = [reg EXCEPT !["rbx"] = Misaligned]
        /\ stk' = IF Misaligned = 1 THEN << Junk >> \o stk ELSE stk
    BY <1>1, <1>3, <1>5, <2>1 DEF Align, Advance
  <2>3. Misaligned \in {0, 1}
    BY DEF Misaligned, IInv, Typed
  <2>4. /\ reg'["rbx"] = Misaligned
        /\ reg'["rdi"] = reg["rdi"] /\ reg'["rsi"] = reg["rsi"] /\ reg'["rdx"] = reg["rdx"]
    BY <2>2, RunningFacts
  <2>5. Padding'
    BY <1>4, <2>1, <2>2, <2>3, <2>4 DEF Padding, B
  <2>6. pc' = A + 1 /\ ins' = Emit[char][A + 1]
    BY <1>5, <2>2 DEF ins, inputs
  <2>7. Ready(ins.s)'
    BY <2>1, <2>2, <2>4, <2>6 DEF Ready, inputs
  <2>8. Calling'
    BY <1>1, <1>4, <2>1, <2>2, <2>5, <2>6, <2>7 DEF Calling, Quiet
  <2>9. ~Finished'
    BY <1>1, <2>2, <2>6 DEF Finished, inputs
  <2> QED BY <2>2, <2>8, <2>9 DEF MeansCharacter
<1>6. CASE pc = A + 1
  <2>1. Padding /\ Ready(ins.s) /\ Quiet
    BY <1>6, RunningFacts DEF Progress, Calling
  <2>2. CallFunction
    <3>1. ~CallExit
      BY <1>1, <1>3, <1>6 DEF CallExit
    <3> QED BY <1>1, <1>3, <1>6, <3>1, RunningFacts, Executes
  <2>3. /\ UNCHANGED <<inputs, state, stk, went>> /\ pc' = pc + 1
        /\ called' = Asks(char, stk0, imm)
        /\ reg'["rax"] = ret /\ reg'["rbx"] = reg["rbx"]
    BY <2>1, <2>2, RunningFacts DEF CallFunction, Advance, Ready
  <2>4. Padding'
    BY <1>4, <2>1, <2>3 DEF Padding, B
  <2>5. Answered'
    BY <2>1, <2>3 DEF Answered, Quiet, inputs
  <2>6. pc' = A + 2
    BY <1>1, <1>6, <2>3
  <2>7. Calling'
    BY <1>1, <1>4, <2>3, <2>4, <2>5, <2>6 DEF Calling
  <2>8. ~Finished'
    BY <1>1, <2>3, <2>6 DEF Finished, inputs
  <2> QED BY <2>3, <2>7, <2>8 DEF MeansCharacter
<1>7. CASE pc = A + 2
  <2>1. Padding /\ Answered
    BY <1>7, RunningFacts DEF Progress, Calling
  <2>2. Restore
    BY <1>1, <1>3, <1>7, RunningFacts, Executes
  <2>3. /\ UNCHANGED <<inputs, state, reg, called, went>> /\ pc' = pc + 1
        /\ stk' = SubSeq(stk, reg["rbx"] + 1, Len(stk))
    BY <2>2 DEF Restore, Advance
  <2>4. Junk \in Value
    BY DEF Value
  <2>5. /\ SubSeq(B, 1, Len(B)) = B
        /\ SubSeq(<< Junk >> \o B, 2, Len(<< Junk >> \o B)) = B
    BY <1>2, <2>4, PushedOn
  <2>6. stk' = B
    <3>1. CASE reg["rbx"] = 0 /\ stk = B
      BY <2>3, <2>5, <3>1
    <3>2. CASE reg["rbx"] = 1 /\ stk = << Junk >> \o B
      BY <2>3, <2>5, <3>2
    <3> QED BY <2>1, <3>1, <3>2 DEF Padding, B
  <2>7. Answered' /\ pc' = A + 3
    BY <1>1, <1>7, <2>1, <2>3 DEF Answered, inputs
  <2>8. Calling'
    BY <1>1, <1>4, <2>3, <2>6, <2>7 DEF Calling
  <2>9. CASE Len(Emit[char]) = A + 2
    <3>1. Pushes(char, stk0, imm, ret) = << >> /\ Way(char, stk0, ret) = 0
      BY <1>1, <2>9
    <3>2. << >> \o B = B
      BY <1>2, <2>4, PushedOn
    <3>3. stk' = After(char, stk0, imm, ret)
      BY <2>6, <3>1, <3>2 DEF After, B, Below
    <3>4. MeansCharacter'
      BY <2>1, <2>3, <3>1, <3>3, Leaves DEF Answered
    <3> QED BY <2>3, <2>8, <3>4
  <2>10. CASE Len(Emit[char]) # A + 2
    <3>1. ~Finished'
      BY <1>1, <2>3, <2>7, <2>10 DEF Finished, inputs
    <3> QED BY <2>3, <2>8, <3>1 DEF MeansCharacter
  <2> QED BY <2>9, <2>10
<1> QED BY <1>1, <1>5, <1>6, <1>7

\* What the C++ function returned is pushed, or says where to go.
LEMMA AnsweredStep ==
  ASSUME Running, char \in Callers, pc >= AlignAt + 3
  PROVE  Rolling' /\ MeansCharacter' /\ UNCHANGED <<inputs, state>> /\ pc' = pc + 1
<1>1. AlignAt \in 1..4 /\ Pops(char) \in 0..3
  BY CallerCode
<1>2. pc \in Nat /\ pc <= Len(Emit[char]) /\ ins = Emit[char][pc] /\ ret \in Word
  BY RunningFacts DEF Given
<1>3. pc = AlignAt + 3 => stk = Below(Pops(char)) /\ Answered
  BY RunningFacts DEF Progress, Calling
<1>4. CASE char \in {"&", "~"}
  <2>1. /\ Pops(char) = 0 /\ Len(Emit[char]) = 4 /\ char # "thunk" /\ char # "?"
        /\ Emit[char][4].op = "push" /\ Emit[char][4].d = "rax"
        /\ Way(char, stk0, ret) = 0 /\ Pushes(char, stk0, imm, ret) = << ret >>
    BY <1>4 DEF Pops, Emit, Kinds, Way, Pushes, Push, I
  <2>2. pc = 4 /\ pc = AlignAt + 3
    <3>1. AlignAt = 1
      BY <2>1 DEF AlignAt
    <3> QED BY <1>2, <2>1, <3>1
  <2>3. PushReg
    BY <1>2, <2>1, <2>2, RunningFacts, Executes
  <2>4. Result
    BY <1>2, <1>3, <2>1, <2>2 DEF Result, Answered
  <2> QED BY <2>1, <2>3, <2>4, PushesResult DEF Rolling, PushReg, Advance, inputs
<1>5. CASE char = "g"
  <2>1. /\ Pops(char) = 2 /\ Len(Emit[char]) = 6
        /\ Emit[char][6].op = "push" /\ Emit[char][6].d = "rax"
        /\ Way(char, stk0, ret) = 0 /\ Pushes(char, stk0, imm, ret) = << ret >>
    BY <1>5 DEF Pops, Emit, Kinds, Way, Pushes, Push, I
  <2>2. pc = 6 /\ pc = AlignAt + 3
    <3>1. AlignAt = 3
      BY <1>5, <2>1 DEF AlignAt
    <3> QED BY <1>2, <2>1, <3>1
  <2>3. PushReg
    BY <1>2, <2>1, <2>2, RunningFacts, Executes
  <2>4. Result
    BY <1>2, <1>3, <2>1, <2>2 DEF Result, Answered
  <2> QED BY <1>5, <2>1, <2>3, <2>4, PushesResult DEF Rolling, PushReg, Advance, inputs
<1>6. CASE char \in {".", ",", "p"}
  <2>1. Len(Emit[char]) = Pops(char) + 3 /\ char # "thunk"
    <3>1. CASE char = "."
      <4>1. Len(Emit[char]) = 4 /\ Pops(char) = 1
        BY <3>1 DEF Pops, Emit, Kinds
      <4> QED BY <3>1, <4>1
    <3>2. CASE char = ","
      <4>1. Len(Emit[char]) = 4 /\ Pops(char) = 1 /\ char # "thunk"
        BY <3>2 DEF Pops, Emit, Kinds
      <4> QED BY <4>1
    <3>3. CASE char = "p"
      <4>1. Len(Emit[char]) = 6 /\ Pops(char) = 3
        BY <3>3 DEF Pops, Emit, Kinds
      <4> QED BY <3>3, <4>1
    <3> QED BY <1>6, <3>1, <3>2, <3>3
  <2>2. AlignAt = Pops(char) + 1
    BY <2>1 DEF AlignAt
  <2> QED BY <1>1, <1>2, <2>1, <2>2
<1>7. CASE char = "?"
  <2>1. /\ Pops(char) = 0 /\ Len(Emit[char]) = 5 /\ Pushes(char, stk0, imm, ret) = << >>
        /\ Emit[char][4].op = "table" /\ Emit[char][5].op = "jmp" /\ Emit[char][5].d = "rax"
        /\ Way(char, stk0, ret) = (ret % 4) + 1
    BY <1>7 DEF Pops, Emit, Kinds, Way, Pushes, I
  <2>2. AlignAt = 1 /\ pc \in 4..5
    <3>1. AlignAt = 1
      BY <1>7, <2>1 DEF AlignAt
    <3> QED BY <1>2, <2>1, <3>1
  <2>3. CASE pc = 4
    <3>1. LookUp
      BY <1>2, <2>1, <2>3, RunningFacts, Executes
    <3>2. stk = Below(Pops(char)) /\ Answered
      BY <1>3, <2>2, <2>3
    <3>3. ret # Junk
      BY <1>2, WordFacts
    <3>4. UNCHANGED <<inputs, state, stk, called, went>> /\ pc' = 5
      BY <2>3, <3>1 DEF LookUp, Advance
    <3>5. reg'["rax"] = (ret % 4) + 1
      BY <3>1, <3>2, <3>3, RunningFacts DEF LookUp, Known, Answered
    <3>6. Target'
      BY <2>1, <3>2, <3>4, <3>5 DEF Target, Answered, inputs, Below
    <3>7. ~Finished'
      BY <2>1, <3>4 DEF Finished, inputs
    <3> QED BY <2>3, <3>4, <3>6, <3>7 DEF Rolling, MeansCharacter
  <2>4. CASE pc = 5
    <3>1. Jump /\ ins.d = "rax"
      BY <1>2, <2>1, <2>4, RunningFacts, Executes
    <3>2. Target
      BY <1>7, <2>4, RunningFacts DEF Progress, Rolling
    <3>3. pc' = 6 /\ UNCHANGED <<inputs, state>>
      BY <2>4, <3>1 DEF Jump, Advance
    <3>4. MeansCharacter'
      BY <2>1, <3>1, <3>2, JumpsToTarget
    <3> QED BY <2>4, <3>3, <3>4 DEF Rolling
  <2> QED BY <2>2, <2>3, <2>4
<1>8. CASE char = "thunk"
  <2>1. /\ Pops(char) = 0 /\ Len(Emit[char]) = 6 /\ Pushes(char, stk0, imm, ret) = << >>
        /\ Emit[char][6].op = "jmp" /\ Emit[char][6].d = "rax" /\ Way(char, stk0, ret) = ret
    BY <1>8 DEF Pops, Emit, Kinds, Way, Pushes, I, compiler_dispatch
  <2>2. pc = 6 /\ pc = AlignAt + 3
    <3>1. AlignAt = 3
      BY <1>8 DEF AlignAt
    <3> QED BY <1>2, <2>1, <3>1
  <2>3. Jump /\ ins.d = "rax"
    BY <1>2, <2>1, <2>2, RunningFacts, Executes
  <2>4. Target
    BY <1>3, <2>1, <2>2 DEF Target, Answered
  <2>5. MeansCharacter'
    BY <2>1, <2>3, <2>4, JumpsToTarget
  <2> QED BY <1>8, <2>3, <2>5 DEF Rolling, Jump, Advance, inputs
<1> QED BY <1>4, <1>5, <1>6, <1>7, <1>8 DEF Callers

\* The call of an unresolved thunk, and what the stub makes of its return address.
LEMMA DispatchingStep ==
  ASSUME Running, char = "thunk", pc < 3
  PROVE  Dispatching' /\ MeansCharacter' /\ UNCHANGED <<inputs, state>> /\ pc' = pc + 1
<1>1. /\ Len(Emit[char]) = 6
      /\ Emit[char][1].op = "callstub"
      /\ Emit[char][2].op = "pop" /\ Emit[char][2].d = "rdi"
  BY DEF Emit, Kinds, compiler_dispatch, Pop, I
<1>2. pc \in 1..2 /\ ins = Emit[char][pc] /\ imm \in Value /\ Below(0) \in Seq(Value)
  BY RunningFacts, BelowIs DEF Given, Value
<1>3. CASE pc = 1
  <2>1. stk = Below(0) /\ Quiet
    BY <1>3, RunningFacts DEF Progress, Dispatching
  <2>2. PushImm
    BY <1>1, <1>2, <1>3, RunningFacts, Executes
  <2>3. /\ UNCHANGED <<inputs, state, called, went>> /\ pc' = 2
        /\ stk' = << imm >> \o Below(0)
    BY <1>3, <2>1, <2>2 DEF PushImm, Advance
  <2>4. Dispatching'
    BY <2>1, <2>3 DEF Dispatching, inputs, Quiet, Below
  <2>5. ~Finished'
    BY <1>1, <2>3 DEF Finished, inputs
  <2> QED BY <1>3, <2>3, <2>4, <2>5 DEF MeansCharacter
<1>4. CASE pc = 2
  <2>1. stk = << imm >> \o Below(0) /\ Quiet
    BY <1>4, RunningFacts DEF Progress, Dispatching
  <2>2. PopReg /\ ins.d = "rdi"
    BY <1>1, <1>2, <1>4, RunningFacts, Executes
  <2>3. Head(<< imm >> \o Below(0)) = imm /\ Tail(<< imm >> \o Below(0)) = Below(0)
    BY <1>2, PushedOn
  <2>4. /\ UNCHANGED <<inputs, state, called, went>> /\ pc' = 3
        /\ stk' = Below(0) /\ reg'["rdi"] = imm
    <3>1. /\ UNCHANGED <<inputs, state, called, went>> /\ pc' = 3
          /\ stk' = Tail(stk) /\ reg' = [reg EXCEPT !["rdi"] = Head(stk)]
      BY <1>4, <2>2 DEF PopReg, Advance
    <3>2. Head(stk) = imm /\ Tail(stk) = Below(0)
      BY <2>1, <2>3
    <3>3. reg'["rdi"] = Head(stk)
      BY <3>1, RunningFacts
    <3> QED BY <3>1, <3>2, <3>3
  <2>5. Dispatching'
    BY <2>1, <2>4 DEF Dispatching, inputs, Quiet, Below
  <2>6. ~Finished'
    <3>1. pc' = 3 /\ char' = char
      BY <2>4, Zenon DEF inputs
    <3>2. Len(Emit[char]) = 6
      BY <1>1
    <3> QED BY <3>1, <3>2 DEF Finished
  <2> QED BY <1>4, <2>4, <2>5, <2>6 DEF MeansCharacter
<1> QED BY <1>2, <1>3, <1>4

\* extern_exit does not return, so @ has no end.
LEMMA ExitingStep ==
  ASSUME Running, char = "@"
  PROVE  Exiting' /\ MeansCharacter' /\ UNCHANGED inputs /\ state' # "trap"
<1>1. /\ Len(Emit[char]) = 4
      /\ Emit[char][1].op = "align"
      /\ Emit[char][2].op = "call" /\ Emit[char][2].s = "exit"
  BY DEF Emit, Kinds, AlignRsp, Call, I
<1>2. pc \in 1..2 /\ ins = Emit[char][pc] /\ state = "run"
  BY RunningFacts DEF Progress, Exiting
<1>3. CASE pc = 1
  <2>1. Align
    BY <1>1, <1>2, <1>3, RunningFacts, Executes
  <2>2. UNCHANGED <<inputs, state>> /\ pc' = 2
    BY <1>3, <2>1 DEF Align, Advance
  <2>3. ~Finished'
    BY <1>1, <2>2 DEF Finished, inputs
  <2> QED BY <1>2, <2>2, <2>3 DEF Exiting, MeansCharacter
<1>4. CASE pc = 2
  <2>1. CallExit
    <3>1. ~CallFunction
      BY <1>1, <1>2, <1>4 DEF CallFunction
    <3> QED BY <1>1, <1>2, <1>4, <3>1, RunningFacts, Executes
  <2>2. state' = "exit" /\ UNCHANGED <<inputs, pc>>
    BY <2>1 DEF CallExit
  <2> QED BY <1>4, <2>2 DEF Exiting, MeansCharacter, Finished
<1> QED BY <1>2, <1>3, <1>4

\* The code begins with n pops, into registers of their own.
PopsFirst(code, n) ==
  /\ n \in 1..3 /\ code[1].op = "pop" /\ code[1].d \in Reg
  /\ n > 1 => code[2].op = "pop" /\ code[2].d \in Reg \ {code[1].d}
  /\ n > 2 => code[3].op = "pop" /\ code[3].d \in Reg \ {code[1].d, code[2].d}

\* Every operand is popped first, and only $ has nothing more to do.
LEMMA PopCode ==
  ASSUME char \in Kinds, char # "thunk", Pops(char) > 0
  PROVE  /\ PopsFirst(Emit[char], Pops(char))
         /\ Len(Emit[char]) \in 1..6
         /\ char # "$" => Len(Emit[char]) > Pops(char)
<1>1. CASE char = "+"
  <2>1. /\ Pops(char) = 2 /\ Len(Emit[char]) = 4
        /\ Emit[char][1].op = "pop" /\ Emit[char][1].d = "rax"
        /\ Emit[char][2].op = "pop" /\ Emit[char][2].d = "rbx"
    BY <1>1 DEF Pops, Emit, Kinds, Pop, I
  <2> QED BY <2>1 DEF PopsFirst, Reg
<1>2. CASE char = "-"
  <2>1. /\ Pops(char) = 2 /\ Len(Emit[char]) = 4
        /\ Emit[char][1].op = "pop" /\ Emit[char][1].d = "rax"
        /\ Emit[char][2].op = "pop" /\ Emit[char][2].d = "rbx"
    BY <1>2 DEF Pops, Emit, Kinds, Pop, I
  <2> QED BY <2>1 DEF PopsFirst, Reg
<1>3. CASE char = "*"
  <2>1. /\ Pops(char) = 2 /\ Len(Emit[char]) = 4
        /\ Emit[char][1].op = "pop" /\ Emit[char][1].d = "rax"
        /\ Emit[char][2].op = "pop" /\ Emit[char][2].d = "rbx"
    BY <1>3 DEF Pops, Emit, Kinds, Pop, I
  <2> QED BY <2>1 DEF PopsFirst, Reg
<1>4. CASE char = "/"
  <2>1. /\ Pops(char) = 2 /\ Len(Emit[char]) = 5
        /\ Emit[char][1].op = "pop" /\ Emit[char][1].d = "rbx"
        /\ Emit[char][2].op = "pop" /\ Emit[char][2].d = "rax"
    BY <1>4 DEF Pops, Emit, Kinds, Pop, I, Division
  <2> QED BY <2>1 DEF PopsFirst, Reg
<1>5. CASE char = "%"
  <2>1. /\ Pops(char) = 2 /\ Len(Emit[char]) = 5
        /\ Emit[char][1].op = "pop" /\ Emit[char][1].d = "rbx"
        /\ Emit[char][2].op = "pop" /\ Emit[char][2].d = "rax"
    BY <1>5 DEF Pops, Emit, Kinds, Pop, I, Division
  <2> QED BY <2>1 DEF PopsFirst, Reg
<1>6. CASE char = ":"
  <2>1. /\ Pops(char) = 1 /\ Len(Emit[char]) = 3
        /\ Emit[char][1].op = "pop" /\ Emit[char][1].d = "rax"
    BY <1>6 DEF Pops, Emit, Kinds, Pop, I
  <2> QED BY <2>1 DEF PopsFirst, Reg
<1>7. CASE char = "\\"
  <2>1. /\ Pops(char) = 2 /\ Len(Emit[char]) = 4
        /\ Emit[char][1].op = "pop" /\ Emit[char][1].d = "rax"
        /\ Emit[char][2].op = "pop" /\ Emit[char][2].d = "rbx"
    BY <1>7 DEF Pops, Emit, Kinds, Pop, I
  <2> QED BY <2>1 DEF PopsFirst, Reg
<1>8. CASE char = "$"
  <2>1. /\ Pops(char) = 1 /\ Len(Emit[char]) = 1
        /\ Emit[char][1].op = "pop" /\ Emit[char][1].d = "rax"
    BY <1>8 DEF Pops, Emit, Kinds, Pop, I
  <2> QED BY <2>1, <1>8 DEF PopsFirst, Reg
<1>9. CASE char = "!"
  <2>1. /\ Pops(char) = 1 /\ Len(Emit[char]) = 5
        /\ Emit[char][1].op = "pop" /\ Emit[char][1].d = "rax"
    BY <1>9 DEF Pops, Emit, Kinds, Pop, I
  <2> QED BY <2>1 DEF PopsFirst, Reg
<1>10. CASE char = "gt"
  <2>1. /\ Pops(char) = 2 /\ Len(Emit[char]) = 6
        /\ Emit[char][1].op = "pop" /\ Emit[char][1].d = "rax"
        /\ Emit[char][2].op = "pop" /\ Emit[char][2].d = "rbx"
    BY <1>10 DEF Pops, Emit, Kinds, Pop, I
  <2> QED BY <2>1 DEF PopsFirst, Reg
<1>11. CASE char = "."
  <2>1. /\ Pops(char) = 1 /\ Len(Emit[char]) = 4
        /\ Emit[char][1].op = "pop" /\ Emit[char][1].d = "rdi"
    BY <1>11 DEF Pops, Emit, Kinds, Pop, I
  <2> QED BY <2>1 DEF PopsFirst, Reg
<1>12. CASE char = ","
  <2>1. /\ Pops(char) = 1 /\ Len(Emit[char]) = 4
        /\ Emit[char][1].op = "pop" /\ Emit[char][1].d = "rdi"
    BY <1>12 DEF Pops, Emit, Kinds, Pop, I
  <2> QED BY <2>1 DEF PopsFirst, Reg
<1>13. CASE char = "g"
  <2>1. /\ Pops(char) = 2 /\ Len(Emit[char]) = 6
        /\ Emit[char][1].op = "pop" /\ Emit[char][1].d = "rdi"
        /\ Emit[char][2].op = "pop" /\ Emit[char][2].d = "rsi"
    BY <1>13 DEF Pops, Emit, Kinds, Pop, I
  <2> QED BY <2>1 DEF PopsFirst, Reg
<1>14. CASE char = "p"
  <2>1. /\ Pops(char) = 3 /\ Len(Emit[char]) = 6
        /\ Emit[char][1].op = "pop" /\ Emit[char][1].d = "rdi"
        /\ Emit[char][2].op = "pop" /\ Emit[char][2].d = "rsi"
        /\ Emit[char][3].op = "pop" /\ Emit[char][3].d = "rdx"
    BY <1>14 DEF Pops, Emit, Kinds, Pop, I
  <2> QED BY <2>1 DEF PopsFirst, Reg
<1>15. CASE char = "_"
  <2>1. /\ Pops(char) = 1 /\ Len(Emit[char]) = 6
        /\ Emit[char][1].op = "pop" /\ Emit[char][1].d = "rax"
    BY <1>15 DEF Pops, Emit, Kinds, Pop, I, JumpOnZero
  <2> QED BY <2>1 DEF PopsFirst, Reg
<1>16. CASE char = "|"
  <2>1. /\ Pops(char) = 1 /\ Len(Emit[char]) = 6
        /\ Emit[char][1].op = "pop" /\ Emit[char][1].d = "rax"
    BY <1>16 DEF Pops, Emit, Kinds, Pop, I, JumpOnZero
  <2> QED BY <2>1 DEF PopsFirst, Reg
<1>17. CASE char \in {"&", "~", "@", "?", ">", "0", "nop"}
  <2>1. Pops(char) = 0
    BY <1>17 DEF Pops
  <2> QED BY <2>1
<1> QED
  BY <1>1, <1>2, <1>3, <1>4, <1>5, <1>6, <1>7, <1>8, <1>9, <1>10, <1>11, <1>12, <1>13, <1>14, <1>15, <1>16, <1>17 DEF Kinds

\* An operand is popped.
LEMMA PoppingStep ==
  ASSUME Running, char # "thunk", pc <= Pops(char)
  PROVE  Popping' /\ MeansCharacter' /\ UNCHANGED <<inputs, state>> /\ pc' = pc + 1
<1>1. /\ PopsFirst(Emit[char], Pops(char)) /\ Len(Emit[char]) \in 1..6
      /\ char # "$" => Len(Emit[char]) > Pops(char)
  BY RunningFacts, PopsBound, PopCode DEF Given
<1>2. Pops(char) \in 1..3 /\ pc \in 1..3 /\ ins = Emit[char][pc]
  BY <1>1, RunningFacts, PopsBound
<1>3. /\ ins.op = "pop" /\ ins.d \in Reg
      /\ \A i \in 1..pc-1 : Emit[char][i].d # ins.d
  <2>1. CASE pc = 1
    BY <1>1, <1>2, <2>1 DEF PopsFirst
  <2>2. CASE pc = 2
    BY <1>1, <1>2, <2>2 DEF PopsFirst
  <2>3. CASE pc = 3
    BY <1>1, <1>2, <2>3 DEF PopsFirst
  <2> QED BY <1>2, <2>1, <2>2, <2>3
<1>4. Taken(pc - 1)
  BY <1>2, RunningFacts DEF Progress, Popping
<1>5. stk = Below(pc - 1) /\ (\A i \in 1..pc-1 : reg[Emit[char][i].d] = stk0[i]) /\ Quiet
  BY <1>4 DEF Taken
<1>6. PopReg
  BY <1>3, RunningFacts, Executes
<1>7. Head(Below(pc - 1)) = stk0[pc] /\ Tail(Below(pc - 1)) = Below(pc)
  <2>1. pc - 1 \in 0..2 /\ pc - 1 + 1 = pc
    BY <1>2
  <2>2. stk0 \in [1..3 -> Word]
    BY RunningFacts DEF Given
  <2> QED BY <2>1, <2>2, BelowIs
<1>8. /\ UNCHANGED <<inputs, state, called, went>> /\ pc' = pc + 1
      /\ stk' = Below(pc) /\ reg' = [reg EXCEPT ![ins.d] = stk0[pc]]
  <2>1. /\ UNCHANGED <<inputs, state, called, went>> /\ pc' = pc + 1
        /\ stk' = Tail(stk) /\ reg' = [reg EXCEPT ![ins.d] = Head(stk)]
    BY <1>6 DEF PopReg, Advance
  <2>2. Head(stk) = stk0[pc] /\ Tail(stk) = Below(pc)
    BY <1>5, <1>7
  <2> QED BY <2>1, <2>2
<1>9. \A i \in 1..pc : reg'[Emit[char][i].d] = stk0[i]
  <2> SUFFICES ASSUME NEW i \in 1..pc PROVE reg'[Emit[char][i].d] = stk0[i]
    OBVIOUS
  <2>1. CASE i = pc
    BY <1>2, <1>3, <1>8, <2>1, RunningFacts
  <2>2. CASE i # pc
    <3>1. i \in 1..pc-1
      BY <1>2, <2>2
    <3>2. Emit[char][i].d # ins.d /\ reg[Emit[char][i].d] = stk0[i]
      BY <1>3, <1>5, <3>1
    <3>3. Emit[char][i].d \in Reg
      <4>1. i = 1 \/ i = 2
        BY <1>2, <3>1
      <4>2. pc <= Pops(char) /\ i < pc
        BY <1>2, <3>1
      <4> QED BY <1>1, <1>2, <4>1, <4>2 DEF PopsFirst
    <3> QED BY <1>8, <3>2, <3>3, RunningFacts
  <2> QED BY <2>1, <2>2
<1>10. Popping'
  <2>1. pc' - 1 = pc
    BY <1>2, <1>8
  <2>2. UNCHANGED <<char, stk0>>
    BY <1>8 DEF inputs
  <2>3. stk' = Below(pc - 1)'
    BY <1>8, <2>1, <2>2 DEF Below
  <2>4. Quiet'
    BY <1>5, <1>8 DEF Quiet
  <2>5. \A i \in 1..pc'-1 : reg'[Emit[char'][i].d] = stk0'[i]
    BY <1>9, <2>1, <2>2
  <2>6. Taken(pc - 1)'
    BY <2>3, <2>4, <2>5 DEF Taken
  <2> QED BY <2>6 DEF Popping
<1>11. MeansCharacter'
  <2>1. CASE char = "$"
    <3>1. /\ Pops(char) = 1 /\ Pushes(char, stk0, imm, ret) = << >>
          /\ Asks(char, stk0, imm) = << >> /\ Way(char, stk0, ret) = 0
      BY <2>1 DEF Pops, Pushes, Asks, Way
    <3>2. pc = 1
      BY <1>2, <3>1
    <3>3. Below(1) \in Seq(Value)
      BY RunningFacts, BelowIs DEF Given
    <3>4. << >> \o Below(1) = Below(1)
      BY <3>3, ConcatEmptySeq
    <3>5. stk' = After(char, stk0, imm, ret)
      BY <1>8, <3>1, <3>2, <3>4 DEF After, Below
    <3> QED BY <1>5, <1>8, <3>1, <3>5, Leaves DEF Quiet
  <2>2. CASE char # "$"
    <3>1. ~Finished'
      BY <1>1, <1>2, <1>8, <2>2 DEF Finished, inputs
    <3> QED BY <3>1 DEF MeansCharacter
  <2> QED BY <2>1, <2>2
<1> QED BY <1>8, <1>10, <1>11

-----------------------------------------------------------------------------
\* Running code goes forward; only a division traps.
LEMMA GoesForward ==
  ASSUME Running
  PROVE  /\ UNCHANGED inputs
         /\ state' = "run" => pc' > pc
         /\ state' = "trap" => char \in {"/", "%"}
<1>1. pc \in Nat /\ state = "run" /\ ~Finished /\ Next
  BY RunningFacts
<1>2. Advance \/ JumpIfEqual \/ Div \/ CallExit
  BY <1>1 DEF Next, Ended, PopReg, PushReg, PushImm, AddOrSub, Mul, Clear, Compare, SetByte,
              LoadTarget, LookUp, Jump, Align, Restore, CallFunction
<1>3. CASE Advance
  BY <1>1, <1>3 DEF Advance
<1>4. CASE JumpIfEqual
  BY <1>1, <1>4 DEF JumpIfEqual
<1>5. CASE Div
  <2>1. char \in {"/", "%"}
    <3>1. ShapeAt(char, Emit[char], pc) /\ pc <= Len(Emit[char])
      BY <1>1, RunningFacts, InsShape DEF Given
    <3> QED BY <1>5, <3>1 DEF Div, At, ins, ShapeAt
  <2>2. UNCHANGED inputs /\ (Advance \/ state' = "trap")
    BY <1>5 DEF Div, Advance
  <2> QED BY <1>1, <2>1, <2>2 DEF Advance
<1>6. CASE CallExit
  BY <1>1, <1>6 DEF CallExit
<1> QED BY <1>2, <1>3, <1>4, <1>5, <1>6

\* What the invariant says of the other characters does not concern this one.
LEMMA Elsewhere ==
  ASSUME UNCHANGED char
  PROVE  /\ char \notin {"+", "-", "*"} => Arithmetic'
         /\ char \notin {"/", "%"} => Dividing'
         /\ char # "gt" => Comparing'
         /\ char # "!" => Negating'
         /\ char # ":" => Copying'
         /\ char # "\\" => Swapping'
         /\ char \notin Branches => Branching'
         /\ char # ">" => Going'
         /\ char \notin Callers => Calling'
         /\ char # "thunk" => Dispatching'
         /\ char # "?" => Rolling'
         /\ char # "@" => Exiting'
BY DEF Arithmetic, Dividing, Comparing, Negating, Copying, Swapping, Branching, Branches, Going,
       Calling, Callers, Dispatching, Rolling, Exiting

\* While the operands are popped, nor does the rest of what it says of this one.
LEMMA WhilePopping ==
  ASSUME UNCHANGED char, char # "thunk", pc' \in Nat, pc' <= Pops(char) + 1, Pops(char) > 0
  PROVE  /\ Arithmetic' /\ Dividing' /\ Comparing' /\ Negating' /\ Copying' /\ Swapping'
         /\ Branching' /\ Going' /\ Calling' /\ Dispatching' /\ Rolling' /\ Exiting'
<1>1. Pops(char) \in 0..3
  BY PopsBound
<1>2. Arithmetic' /\ Dividing' /\ Comparing' /\ Swapping'
  <2>1. char \in {"+", "-", "*", "/", "%", "gt", "\\"} => Pops(char) = 2
    BY DEF Pops
  <2> QED BY <2>1 DEF Arithmetic, Dividing, Comparing, Swapping
<1>3. Negating' /\ Copying' /\ Branching'
  <2>1. /\ char \in {"!", ":"} => Pops(char) = 1
        /\ char \in Branches => Pops(char) = 1
    BY DEF Pops, Branches
  <2> QED BY <2>1 DEF Negating, Copying, Branching
<1>4. Going' /\ Dispatching' /\ Rolling' /\ Exiting'
  <2>1. char \in {">", "?", "@"} => Pops(char) = 0
    BY DEF Pops
  <2> QED BY <2>1 DEF Going, Dispatching, Rolling, Exiting
<1>5. Calling'
  <2>1. AlignAt' = Pops(char) + 1
    BY DEF AlignAt
  <2> QED BY <1>1, <2>1 DEF Calling
<1> QED BY <1>2, <1>3, <1>4, <1>5

\* One case for each group of characters.
LEMMA RunningStep ==
  ASSUME Running, IInv
  PROVE  (state' = "run" => Progress') /\ MeansCharacter' /\ TrapsOnZeroOnly'
<1>1. /\ pc \in Nat \ {0} /\ char \in Kinds /\ Pops(char) \in 0..3
      /\ pc <= Len(Emit[char]) /\ state = "run"
  BY RunningFacts, PopsBound DEF Given
<1>2. /\ UNCHANGED <<inputs, char>>
      /\ state' = "run" => pc' > pc
      /\ state' = "trap" => char \in {"/", "%"}
  BY GoesForward DEF inputs
<1>3. char \notin {"/", "%"} => TrapsOnZeroOnly'
  BY <1>2 DEF TrapsOnZeroOnly
<1>4. CASE char # "thunk" /\ pc <= Pops(char)
  <2>1. Popping' /\ MeansCharacter' /\ pc' = pc + 1 /\ UNCHANGED state
    BY <1>4, PoppingStep
  <2>2. /\ Arithmetic' /\ Dividing' /\ Comparing' /\ Negating' /\ Copying' /\ Swapping'
        /\ Branching' /\ Going' /\ Calling' /\ Dispatching' /\ Rolling' /\ Exiting'
    BY <1>1, <1>2, <1>4, <2>1, WhilePopping
  <2>3. TrapsOnZeroOnly'
    BY <1>1, <2>1 DEF TrapsOnZeroOnly
  <2> QED BY <2>1, <2>2, <2>3 DEF Progress
<1>5. CASE char = "thunk" \/ pc > Pops(char)
  <2>1. state' = "run" => Popping'
    <3>1. Pops(char)' = Pops(char)
      BY <1>2
    <3>2. pc' \in Nat
      BY RunningFacts, StepIInv DEF IInv, Typed
    <3> QED BY <1>1, <1>2, <1>5, <3>1, <3>2 DEF Popping
  <2>2. CASE char \in {"+", "-", "*"}
    <3>1. Pops(char) = 2 /\ char \notin Branches /\ char \notin Callers
      BY <2>2 DEF Pops, Branches, Callers
    <3>2. Arithmetic' /\ MeansCharacter'
      BY <1>1, <1>5, <2>2, <3>1, ArithmeticStep
    <3> QED BY <1>2, <1>3, <2>1, <2>2, <3>1, <3>2, Elsewhere DEF Progress
  <2>3. CASE char \in {"/", "%"}
    <3>1. Pops(char) = 2 /\ char \notin Branches /\ char \notin Callers
      BY <2>3 DEF Pops, Branches, Callers
    <3>2. Dividing' /\ MeansCharacter' /\ TrapsOnZeroOnly'
      BY <1>1, <1>5, <2>3, <3>1, DividingStep
    <3> QED BY <1>2, <2>1, <2>3, <3>1, <3>2, Elsewhere DEF Progress
  <2>4. CASE char = "gt"
    <3>1. Pops(char) = 2 /\ char \notin Branches /\ char \notin Callers
      BY <2>4 DEF Pops, Branches, Callers
    <3>2. Comparing' /\ MeansCharacter'
      BY <1>1, <1>5, <2>4, <3>1, ComparingStep
    <3> QED BY <1>2, <1>3, <2>1, <2>4, <3>1, <3>2, Elsewhere DEF Progress
  <2>5. CASE char = "!"
    <3>1. Pops(char) = 1 /\ char \notin Branches /\ char \notin Callers
      BY <2>5 DEF Pops, Branches, Callers
    <3>2. Negating' /\ MeansCharacter'
      BY <1>1, <1>5, <2>5, <3>1, NegatingStep
    <3> QED BY <1>2, <1>3, <2>1, <2>5, <3>1, <3>2, Elsewhere DEF Progress
  <2>6. CASE char = ":"
    <3>1. Pops(char) = 1 /\ char \notin Branches /\ char \notin Callers
      BY <2>6 DEF Pops, Branches, Callers
    <3>2. Copying' /\ MeansCharacter'
      BY <1>1, <1>5, <2>6, <3>1, CopyingStep
    <3> QED BY <1>2, <1>3, <2>1, <2>6, <3>1, <3>2, Elsewhere DEF Progress
  <2>7. CASE char = "\\"
    <3>1. Pops(char) = 2 /\ char \notin Branches /\ char \notin Callers
      BY <2>7 DEF Pops, Branches, Callers
    <3>2. Swapping' /\ MeansCharacter'
      BY <1>1, <1>5, <2>7, <3>1, SwappingStep
    <3> QED BY <1>2, <1>3, <2>1, <2>7, <3>1, <3>2, Elsewhere DEF Progress
  <2>8. CASE char \in Branches
    <3>1. /\ Pops(char) = 1 /\ char \notin Callers
          /\ char \notin {"+", "-", "*", "/", "%", "gt", "!", ":", "\\", ">", "?", "@", "thunk"}
      BY <2>8 DEF Pops, Branches, Callers
    <3>2. Branching' /\ MeansCharacter'
      BY <1>1, <1>5, <2>8, <3>1, BranchingStep
    <3> QED BY <1>2, <1>3, <2>1, <3>1, <3>2, Elsewhere DEF Progress
  <2>9. CASE char = ">"
    <3>1. char \notin Branches /\ char \notin Callers
      BY <2>9 DEF Branches, Callers
    <3>2. Going' /\ MeansCharacter'
      BY <2>9, GoingStep
    <3> QED BY <1>2, <1>3, <2>1, <2>9, <3>1, <3>2, Elsewhere DEF Progress
  <2>10. CASE char = "0"
    <3>1. char \notin Branches /\ char \notin Callers
      BY <2>10 DEF Branches, Callers
    <3>2. MeansCharacter'
      BY <2>10, LiteralStep
    <3> QED BY <1>2, <1>3, <2>1, <2>10, <3>1, <3>2, Elsewhere DEF Progress
  <2>11. CASE char = "@"
    <3>1. char \notin Branches /\ char \notin Callers
      BY <2>11 DEF Branches, Callers
    <3>2. Exiting' /\ MeansCharacter'
      BY <2>11, ExitingStep
    <3> QED BY <1>2, <1>3, <2>1, <2>11, <3>1, <3>2, Elsewhere DEF Progress
  <2>12. CASE char \in Callers
    <3>1. /\ char \notin Branches /\ AlignAt \in 1..4
          /\ char \notin {"+", "-", "*", "/", "%", "gt", "!", ":", "\\", ">", "@"}
          /\ UNCHANGED AlignAt
      <4>1. AlignAt \in 1..4
        BY <2>12, CallerCode
      <4> QED BY <1>2, <2>12, <4>1 DEF Branches, Callers, AlignAt
    <3>2. CASE char = "thunk" /\ pc < 3
      <4>1. Dispatching' /\ MeansCharacter' /\ pc' = pc + 1
        BY <3>2, DispatchingStep
      <4>2. Calling'
        <5>1. AlignAt' = 3
          BY <1>2, <3>2 DEF AlignAt
        <5> QED BY <1>1, <3>2, <4>1, <5>1 DEF Calling
      <4> QED BY <1>2, <1>3, <2>1, <3>1, <3>2, <4>1, <4>2, Elsewhere DEF Progress
    <3>3. CASE pc \in AlignAt..AlignAt+2
      <4>1. Calling' /\ MeansCharacter' /\ pc' = pc + 1
        BY <2>12, <3>3, CallingStep
      <4>2. Dispatching' /\ Rolling'
        <5>1. char = "thunk" => AlignAt = 3
          BY DEF AlignAt
        <5>2. char = "?" => AlignAt = 1
          <6>1. char = "?" => Pops(char) = 0 /\ char # "thunk"
            BY DEF Pops
          <6> QED BY <6>1 DEF AlignAt
        <5> QED BY <1>1, <1>2, <3>1, <3>3, <4>1, <5>1, <5>2 DEF Dispatching, Rolling
      <4> QED BY <1>2, <1>3, <2>1, <3>1, <4>1, <4>2, Elsewhere DEF Progress
    <3>4. CASE pc >= AlignAt + 3
      <4>1. Rolling' /\ MeansCharacter' /\ pc' = pc + 1
        BY <2>12, <3>4, AnsweredStep
      <4>2. Calling'
        BY <1>1, <3>1, <3>4, <4>1 DEF Calling
      <4>3. Dispatching'
        <5>1. char = "thunk" => AlignAt = 3
          BY DEF AlignAt
        <5> QED BY <1>1, <1>2, <3>1, <3>4, <4>1, <5>1 DEF Dispatching
      <4> QED BY <1>2, <1>3, <2>1, <3>1, <4>1, <4>2, <4>3, Elsewhere DEF Progress
    <3>5. (char = "thunk" /\ pc < 3) \/ pc \in AlignAt..AlignAt+2 \/ pc >= AlignAt + 3
      <4>1. AlignAt = IF char = "thunk" THEN 3 ELSE Pops(char) + 1
        BY DEF AlignAt
      <4> QED BY <1>1, <1>5, <3>1, <4>1
    <3> QED BY <3>2, <3>3, <3>4, <3>5
  <2>13. CASE char \in {"$", "nop"}
    <3>1. Len(Emit[char]) = Pops(char)
      <4>1. char = "$" => Len(Emit[char]) = 1 /\ Pops(char) = 1
        BY DEF Emit, Kinds, Pops
      <4>2. char = "nop" => Len(Emit[char]) = 0 /\ Pops(char) = 0
        BY DEF Emit, Kinds, Pops
      <4> QED BY <2>13, <4>1, <4>2
    <3> QED BY <1>1, <1>5, <2>13, <3>1
  <2> QED BY <1>1, <2>2, <2>3, <2>4, <2>5, <2>6, <2>7, <2>8, <2>9, <2>10, <2>11, <2>12, <2>13
          DEF Kinds, Branches, Callers
<1> QED BY <1>1, <1>4, <1>5

\* Only the characters without code have none.
LEMMA SomeCode ==
  ASSUME char \in Kinds, char # "nop"
  PROVE  Len(Emit[char]) \in 1..6
<1>1. CASE char # "thunk" /\ Pops(char) > 0
  BY <1>1, PopCode
<1>2. CASE char = "thunk" \/ ~(Pops(char) > 0)
  <2>1. char \in {"+", "-", "*", "/", "%", "gt", "\\", "g"} => Pops(char) = 2
    BY DEF Pops
  <2>2. char \in {":", "$", "!", ".", ","} => Pops(char) = 1
    BY DEF Pops
  <2>3. char \in Branches => Pops(char) = 1
    BY DEF Pops, Branches
  <2>4. char = "p" => Pops(char) = 3
    BY DEF Pops
  <2>5. char \in {"&", "~", "@", "?", ">", "0", "thunk"}
    <3>1. CASE char = "thunk"
      BY <3>1
    <3>2. CASE ~(Pops(char) > 0)
      <4>1. Pops(char) = 0 /\ 0 # 1 /\ 0 # 2 /\ 0 # 3
        BY <3>2, PopsBound
      <4>2. /\ char \notin {"+", "-", "*", "/", "%", "gt", "\\", "g"}
            /\ char \notin {":", "$", "!", ".", ","}
            /\ char \notin Branches
            /\ char # "p"
        BY <2>1, <2>2, <2>3, <2>4, <4>1, Zenon
      <4> QED BY <4>2, Zenon DEF Kinds, Branches
    <3> QED BY <1>2, <3>1, <3>2
  <2>6. CASE char = "&"
    <3>1. Len(Emit[char]) = 4
      BY <2>6 DEF Emit, Kinds, I
    <3> QED BY <3>1
  <2>7. CASE char = "~"
    <3>1. Len(Emit[char]) = 4
      BY <2>7 DEF Emit, Kinds, I
    <3> QED BY <3>1
  <2>8. CASE char = "@"
    <3>1. Len(Emit[char]) = 4
      BY <2>8 DEF Emit, Kinds, I
    <3> QED BY <3>1
  <2>9. CASE char = "?"
    <3>1. Len(Emit[char]) = 5
      BY <2>9 DEF Emit, Kinds, I
    <3> QED BY <3>1
  <2>10. CASE char = ">"
    <3>1. Len(Emit[char]) = 2
      BY <2>10 DEF Emit, Kinds, I
    <3> QED BY <3>1
  <2>11. CASE char = "0"
    <3>1. Len(Emit[char]) = 1
      BY <2>11 DEF Emit, Kinds, I
    <3> QED BY <3>1
  <2>12. CASE char = "thunk"
    <3>1. Len(Emit[char]) = 6
      BY <2>12 DEF Emit, Kinds, I, compiler_dispatch
    <3> QED BY <3>1
  <2> QED BY <2>5, <2>6, <2>7, <2>8, <2>9, <2>10, <2>11, <2>12
<1> QED BY <1>1, <1>2

\* At first nothing has been taken from the stack.
LEMMA InitMeant == Init => Meant
<1> SUFFICES ASSUME Init PROVE Meant
  OBVIOUS
<1>1. Given /\ Typed
  BY InitIInv, WordFacts DEF Init, Given, IInv
<1>2. /\ char \in Kinds /\ pc = 1 /\ stk = stk0 /\ called = << >> /\ went = 0 /\ state = "run"
      /\ stk0 \in [1..3 -> Word]
  BY <1>1 DEF Init, Given
<1>3. stk = Below(0) /\ Quiet
  BY <1>2, BelowIs DEF Quiet
<1>4. Pops(char) \in 0..3
  BY PopsBound
<1>5. Progress
  <2>1. Popping
    <3>1. pc - 1 = 0
      BY <1>2
    <3>2. Taken(0)
      BY <1>3 DEF Taken
    <3> QED BY <3>1, <3>2 DEF Popping
  <2>2. /\ Arithmetic /\ Dividing /\ Comparing /\ Negating /\ Copying /\ Swapping
        /\ Branching /\ Going /\ Rolling /\ Exiting
    BY <1>2 DEF Arithmetic, Dividing, Comparing, Negating, Copying, Swapping, Branching, Going,
                Rolling, Exiting
  <2>3. Calling
    <3>1. AlignAt \in Nat /\ AlignAt >= 1
      BY <1>4 DEF AlignAt
    <3> QED BY <1>2, <3>1 DEF Calling
  <2>4. Dispatching
    BY <1>2, <1>3 DEF Dispatching
  <2> QED BY <2>1, <2>2, <2>3, <2>4 DEF Progress
<1>6. MeansCharacter
  <2>1. CASE char = "nop"
    <3>1. /\ Pops(char) = 0 /\ Pushes(char, stk0, imm, ret) = << >>
          /\ Asks(char, stk0, imm) = << >> /\ Way(char, stk0, ret) = 0
      BY <2>1 DEF Pops, Pushes, Asks, Way
    <3>2. << >> \o Below(0) = Below(0)
      BY <1>2, BelowIs, ConcatEmptySeq
    <3>3. stk = After(char, stk0, imm, ret)
      BY <1>3, <3>1, <3>2 DEF After, Below
    <3> QED BY <1>2, <3>1, <3>3 DEF MeansCharacter
  <2>2. CASE char # "nop"
    <3>1. Len(Emit[char]) \in 1..6
      BY <1>2, <2>2, SomeCode
    <3>2. pc = 1
      BY <1>2
    <3>3. ~(pc > Len(Emit[char]))
      <4>1. PICK n : n = Len(Emit[char])
        OBVIOUS
      <4>2. n \in 1..6
        BY <3>1, <4>1
      <4>3. ~(pc > n)
        BY <3>2, <4>2
      <4> QED BY <4>1, <4>3
    <3> QED BY <3>3 DEF MeansCharacter, Finished
  <2> QED BY <2>1, <2>2
<1> QED BY <1>1, <1>2, <1>5, <1>6 DEF Meant, TrapsOnZeroOnly

\* Every step keeps the invariant.
LEMMA StepMeant == IInv /\ Meant /\ [Next]_vars => Meant'
<1> SUFFICES ASSUME IInv, Meant, [Next]_vars PROVE Meant'
  OBVIOUS
<1>1. CASE state = "run" /\ ~Finished /\ Next
  <2>1. Running
    BY <1>1 DEF Running
  <2>2. (state' = "run" => Progress') /\ MeansCharacter' /\ TrapsOnZeroOnly'
    BY <2>1, RunningStep
  <2>3. Typed'
    BY <1>1, StepIInv DEF IInv
  <2>4. Given'
    BY <2>1, RunningFacts, GoesForward DEF Given, inputs
  <2> QED BY <2>2, <2>3, <2>4 DEF Meant
<1>2. CASE UNCHANGED vars
  <2>1. /\ UNCHANGED <<char, imm, stk0, odd, ret>>
        /\ UNCHANGED <<pc, stk, reg, flags, called, went, state>>
    BY <1>2 DEF vars, inputs
  <2>2. Given' /\ Typed' /\ MeansCharacter' /\ TrapsOnZeroOnly'
    BY <2>1 DEF Meant, Given, Typed, MeansCharacter, TrapsOnZeroOnly, Finished
  <2>3. Progress' = Progress
    BY <2>1 DEF Progress, Popping, Arithmetic, Dividing, Comparing, Negating, Copying, Swapping,
                Branching, Going, Calling, Dispatching, Rolling, Exiting, Taken, Below, Quiet,
                Result, Target, Padding, Ready, Answered, AlignAt, ins
  <2> QED BY <2>1, <2>2, <2>3 DEF Meant
<1>3. (state = "run" /\ ~Finished /\ Next) \/ UNCHANGED vars
  BY DEF Next, At, Ended, PopReg, PushReg, PushImm, AddOrSub, Mul, Clear, Div, Compare, SetByte,
         LoadTarget, JumpIfEqual, LookUp, Jump, Align, CallFunction, CallExit, Restore
<1> QED BY <1>1, <1>2, <1>3

-----------------------------------------------------------------------------
(* Whatever words are on the stack and whatever the C++ function returns, the *)
(* code emitted for a character has done, when it has run, what the character *)
(* means: the operands in their order, nothing of the alignment left behind.  *)
THEOREM CodeMeansCharacter == Spec => []MeansCharacter
<1>1. Meant => MeansCharacter
  BY DEF Meant
<1> QED BY <1>1, InitIInv, StepIInv, InitMeant, StepMeant, PTL DEF Spec

(* A quotient of two words of any width fits: only a division by zero traps.  *)
THEOREM OnlyZeroTraps == Spec => []TrapsOnZeroOnly
<1>1. Meant => TrapsOnZeroOnly
  BY DEF Meant
<1> QED BY <1>1, InitIInv, StepIInv, InitMeant, StepMeant, PTL DEF Spec
=============================================================================
