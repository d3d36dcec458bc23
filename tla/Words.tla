------------------------------- MODULE Words -------------------------------
(***************************************************************************)
(* The words of the Befunge stack, and what each character means for them: *)
(* how many it takes from the stack, what it puts in their place, which    *)
(* C++ function it calls and where control goes next.  Module Emitted      *)
(* shows that the machine code poc_compiler emits for a character does     *)
(* what is said here; modules Machine and Befunge take it from here.       *)
(***************************************************************************)
EXTENDS Integers, Sequences

CONSTANT
  SignBit     \* 2^63, the sign bit of a word

\* (More than two, so that the numbers of four targets are words.)
ASSUME SignBitAssumption == SignBit \in Nat \ 0..2

Modulus == 2 * SignBit      \* 2^64

Word == 0..Modulus-1

\* A word as cmp/setg and extern_printint see it.
Signed(w) == IF w < SignBit THEN w ELSE w - Modulus

-----------------------------------------------------------------------------
(* The kinds of code poc_compiler emits.  "gt" is the backquote, "0"       *)
(* stands for every digit and every character of a string, ">" for every   *)
(* block that ends with a single target, "nop" for the characters without  *)
(* code, "thunk" for an unresolved thunk and the stub it calls.            *)
Kinds == {"+", "-", "*", "/", "%", ":", "\\", "$", "!", "gt", "&", "~", ".", ",", "@", "g", "p",
          "_", "|", "?", ">", "0", "nop", "thunk"}

\* The switch over the character.
Kind(instr) ==
  CASE instr = 43  -> "+"
    [] instr = 45  -> "-"
    [] instr = 42  -> "*"
    [] instr = 47  -> "/"
    [] instr = 37  -> "%"
    [] instr = 58  -> ":"
    [] instr = 92  -> "\\"
    [] instr = 36  -> "$"
    [] instr = 33  -> "!"
    [] instr = 96  -> "gt"
    [] instr = 38  -> "&"
    [] instr = 126 -> "~"
    [] instr = 46  -> "."
    [] instr = 44  -> ","
    [] instr = 64  -> "@"
    [] instr = 103 -> "g"
    [] instr = 112 -> "p"
    [] instr = 95  -> "_"
    [] instr = 124 -> "|"
    [] instr = 63  -> "?"
    [] instr \in {60, 62, 94, 118, 35, 34} -> ">"     \* < > ^ v # "
    [] instr \in 48..57 -> "0"
    [] OTHER -> "nop"

\* What a digit pushes.
Digit(instr) == instr - 48

-----------------------------------------------------------------------------
(* Below, s is the stack, its top first, lit the literal a digit pushes or *)
(* the return address a thunk pushes, r what the C++ function returns.     *)

\* How many words c takes from the stack.
Pops(c) ==
  CASE c = "p" -> 3
    [] c \in {"+", "-", "*", "/", "%", "\\", "gt", "g"} -> 2
    [] c \in {":", "$", "!", ".", ",", "_", "|"} -> 1
    [] OTHER -> 0

\* The words c puts in their place.
Pushes(c, s, lit, r) ==
  CASE c = "+"  -> << (s[2] + s[1]) % Modulus >>
    [] c = "-"  -> << (s[2] - s[1]) % Modulus >>
    [] c = "*"  -> << (s[2] * s[1]) % Modulus >>
    [] c = "/"  -> << s[2] \div s[1] >>
    [] c = "%"  -> << s[2] % s[1] >>
    [] c = "gt" -> << IF Signed(s[2]) > Signed(s[1]) THEN 1 ELSE 0 >>
    [] c = ":"  -> << s[1], s[1] >>
    [] c = "\\" -> << s[2], s[1] >>
    [] c = "!"  -> << IF s[1] = 0 THEN 1 ELSE 0 >>
    [] c = "0"  -> << lit >>
    [] c \in {"&", "~", "g"} -> << r >>
    [] OTHER    -> << >>

\* The stack c leaves.
After(c, s, lit, r) == Pushes(c, s, lit, r) \o SubSeq(s, Pops(c) + 1, Len(s))

\* Division by zero: the processor traps.
Traps(c, s) == c \in {"/", "%"} /\ s[1] = 0

\* The call c makes, with its arguments in the registers' order; << >> for none.
Asks(c, s, lit) ==
  CASE c = "&" -> << "getint", << >> >>
    [] c = "~" -> << "getchar", << >> >>
    [] c = "." -> << "printint", << s[1] >> >>
    [] c = "," -> << "printchar", << s[1] >> >>
    [] c = "g" -> << "read_val", << s[1], s[2] >> >>
    [] c = "p" -> << "write_val", << s[1], s[2], s[3] >> >>
    [] c = "?" -> << "rand", << >> >>
    [] c = "thunk" -> << "resolve_thunk", << lit >> >>
    [] OTHER   -> << >>

\* Which of its targets control goes to; 0 for the next character.
Way(c, s, r) ==
  CASE c \in {"_", "|"} -> IF s[1] = 0 THEN 1 ELSE 2
    [] c = "?" -> (r % 4) + 1
    [] c = ">" -> 1
    [] c = "thunk" -> r
    [] OTHER -> 0
=============================================================================
