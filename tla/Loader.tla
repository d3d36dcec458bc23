------------------------------- MODULE Loader -------------------------------
(***************************************************************************)
(* main (main.cpp) up to the start of the program: the file named on the   *)
(* command line is read line by line, and its lines are copied into        *)
(* static_memory, a character at a time.                                   *)
(*                                                                         *)
(* std::fstream and std::getline are external: a file that cannot be       *)
(* opened gives no lines, and a newline at the very end starts none.       *)
(***************************************************************************)
EXTENDS Block, FiniteSetsExt

CONSTANT
  Texts       \* what the file may hold

ASSUME TextsAssumption == Texts \subseteq Seq(Byte)

VARIABLES
  argc,     \* the number of command line arguments, the program's name included
  text,     \* the file; << >> when it cannot be opened
  rest,     \* what fin has not read yet
  ins,      \* the lines read
  i, j,     \* the loop counters: the line, and the character in it
  mem,      \* G::static_memory
  phase     \* "start", "read", "line", "copy", "run" or "rejected": return -1

vars == <<argc, text, rest, ins, i, j, mem, phase>>

Newline == 10

Init ==
  /\ argc \in {1, 2}
  /\ text \in Texts \cup {<< >>}
  /\ rest = text
  /\ ins = << >>
  /\ i = 0 /\ j = 0
  /\ mem = [c \in Coord |-> 0]
  /\ phase = "start"

\* argc < 2
NoFilename ==
  /\ phase = "start" /\ argc < 2
  /\ phase' = "rejected"
  /\ UNCHANGED <<argc, text, rest, ins, i, j, mem>>

Open ==
  /\ phase = "start" /\ argc >= 2
  /\ phase' = "read"
  /\ UNCHANGED <<argc, text, rest, ins, i, j, mem>>

-----------------------------------------------------------------------------
\* The length of the first line of t.
LineEnd(t) ==
  CHOOSE k \in 0..Len(t) :
    /\ k = Len(t) \/ t[k + 1] = Newline
    /\ \A l \in 1..k : t[l] # Newline

\* std::getline: the newline is taken from the stream and dropped.
GetLine ==
  /\ phase = "read" /\ rest # << >>
  /\ ins' = Append(ins, SubSeq(rest, 1, LineEnd(rest)))
  /\ rest' = SubSeq(rest, LineEnd(rest) + 2, Len(rest))
  /\ UNCHANGED <<argc, text, i, j, mem, phase>>

\* Bug: the lines are counted as if they were numbered from 0.
CountLinesOffByOne ==
  /\ phase = "read" /\ rest = << >>
  /\ phase' = IF Len(ins) > N_ROWS + 1 THEN "rejected" ELSE "line"
  /\ UNCHANGED <<argc, text, rest, ins, i, j, mem>>

\* getline fails at the end of the file: the lines are counted.
CountLines ==
  /\ phase = "read" /\ rest = << >>
  /\ phase' = IF Len(ins) > N_ROWS THEN "rejected" ELSE "line"
  /\ UNCHANGED <<argc, text, rest, ins, i, j, mem>>

s == ins[i + 1]

\* The head of the outer loop, and the length of the line.
NextLine ==
  /\ phase = "line" /\ i < Len(ins)
  /\ phase' = IF Len(s) > N_COLS THEN "rejected" ELSE "copy"
  /\ j' = 0
  /\ UNCHANGED <<argc, text, rest, ins, i, mem>>

\* Bug: the indices are swapped.
CopyCharTransposed ==
  /\ phase = "copy" /\ j < Len(s)
  /\ mem' = [c \in DOMAIN mem \cup {[x |-> i, y |-> j]} |->
               IF c = [x |-> i, y |-> j] THEN s[j + 1] ELSE mem[c]]
  /\ j' = j + 1
  /\ UNCHANGED <<argc, text, rest, ins, i, phase>>

(* static_memory[j][i] = s[j].  An index outside the playfield would make  *)
(* mem a larger function, which is never a playfield.                      *)
CopyChar ==
  /\ phase = "copy" /\ j < Len(s)
  /\ mem' = [c \in DOMAIN mem \cup {[x |-> j, y |-> i]} |->
               IF c = [x |-> j, y |-> i] THEN s[j + 1] ELSE mem[c]]
  /\ j' = j + 1
  /\ UNCHANGED <<argc, text, rest, ins, i, phase>>

EndLine ==
  /\ phase = "copy" /\ j = Len(s)
  /\ i' = i + 1
  /\ phase' = "line"
  /\ UNCHANGED <<argc, text, rest, ins, j, mem>>

\* trampoline_code: the just-in-time compiler takes over.
Run ==
  /\ phase = "line" /\ i = Len(ins)
  /\ phase' = "run"
  /\ UNCHANGED <<argc, text, rest, ins, i, j, mem>>

Over == phase \in {"run", "rejected"} /\ UNCHANGED vars

Next ==
  \/ NoFilename \/ Open
  \/ GetLine \/ CountLines
  \/ NextLine \/ CopyChar \/ EndLine
  \/ Run \/ Over

Spec == Init /\ [][Next]_vars

-----------------------------------------------------------------------------
(* The playfield a file describes, told from the positions of its          *)
(* newlines alone.                                                         *)

\* The positions of the newlines before position k.
Before(k) == {l \in 1..k-1 : text[l] = Newline}

\* The row and the column of the character at position k.
RowOf(k) == Cardinality(Before(k))

ColumnOf(k) == k - 1 - (IF Before(k) = {} THEN 0 ELSE Max(Before(k)))

Rows == {RowOf(k) : k \in 1..Len(text)}

Characters == {k \in 1..Len(text) : text[k] # Newline}

\* No character is to the right of the playfield, no line below it.
FitsPlayfield ==
  /\ Rows \subseteq 0..N_ROWS-1
  /\ \A k \in Characters : ColumnOf(k) < N_COLS

-----------------------------------------------------------------------------
(* Properties. *)

(* The program that starts is the one in the file: every character is in   *)
(* its row and column, and every other cell is 0, not a blank.  No store   *)
(* of the loader is outside the playfield.                                 *)
LoadsFile ==
  /\ mem \in Memory
  /\ phase = "run" =>
       /\ \A k \in Characters : mem[[x |-> ColumnOf(k), y |-> RowOf(k)]] = text[k]
       /\ \A c \in Coord :
            mem[c] = 0 \/ \E k \in Characters : c = [x |-> ColumnOf(k), y |-> RowOf(k)]

(* A file is rejected exactly when it does not fit: empty lines count,     *)
(* the newline that ends the last line does not.                           *)
RejectsTooLarge ==
  /\ phase = "run" => FitsPlayfield
  /\ phase = "rejected" => argc < 2 \/ ~FitsPlayfield
=============================================================================
