----------------------------- MODULE MCExterns -----------------------------
(***************************************************************************)
(* A Befunge program prints words with '.' and ','; a second one is fed    *)
(* what the first one has printed, and reads it with '&' and '~' in the    *)
(* same order.                                                             *)
(***************************************************************************)
EXTENDS Externs

CONSTANTS
  Numbers,     \* the words printed with '.'
  Characters,  \* the words printed with ','
  MaxPrints    \* how many words are printed

ASSUME PrintsAssumption == Numbers \subseteq Word /\ Characters \subseteq Word

VARIABLES
  printed,   \* what the first program printed: with which character, and the word
  text,      \* its standard output
  cin,       \* the second program's standard input
  got        \* the words the second program has read

vars == <<printed, text, cin, got>>

Init ==
  /\ printed = << >>
  /\ text = << >>
  /\ cin = [rest |-> << >>, failed |-> TRUE]
  /\ got = << >>

Writing == Len(printed) < MaxPrints

PrintInt(w) ==
  /\ Writing
  /\ printed' = Append(printed, [by |-> ".", word |-> w])
  /\ text' = text \o extern_printint(w)
  /\ UNCHANGED <<cin, got>>

PrintChar(w) ==
  /\ Writing
  /\ printed' = Append(printed, [by |-> ",", word |-> w])
  /\ text' = text \o extern_printchar(w)
  /\ UNCHANGED <<cin, got>>

\* The second program starts.
Pipe ==
  /\ ~Writing /\ got = << >> /\ cin.failed
  /\ cin' = [rest |-> text, failed |-> FALSE]
  /\ UNCHANGED <<printed, text, got>>

Extract(by, results) ==
  /\ ~cin.failed /\ Len(got) < Len(printed)
  /\ printed[Len(got) + 1].by = by
  /\ \E r \in results : cin' = r.cin /\ got' = Append(got, r.val)
  /\ UNCHANGED <<printed, text>>

ReadInt  == Extract(".", extern_getint(cin))
ReadChar == Extract(",", extern_getchar(cin))

Done == ~Writing /\ (Len(got) = Len(printed) \/ (cin.failed /\ got # << >>)) /\ UNCHANGED vars

Next ==
  \/ \E w \in Numbers : PrintInt(w)
  \/ \E w \in Characters : PrintChar(w)
  \/ Pipe \/ ReadInt \/ ReadChar
  \/ Done

Spec == Init /\ [][Next]_vars

-----------------------------------------------------------------------------
\* The word a print of w is read back as: a character loses all but its low byte.
Kept(p) == IF p.by = "." THEN p.word ELSE Extended(p.word % 256)

ReadsBackAt(i) == got[i] = Kept(printed[i])

(* What '.' and ',' print, '&' and '~' read back: extern_printint prints a  *)
(* signed number and extern_getint reads an unsigned one, numbers do not    *)
(* run into each other or into characters, and all 2^64 words come back.   *)
(* (As long as no blank is printed with ',': see CopiesText.)               *)
ReadsBack ==
  (\A i \in 1..Len(printed) : printed[i].by = "," => printed[i].word % 256 \notin Blanks) =>
    \A i \in 1..Len(got) : ReadsBackAt(i)

-----------------------------------------------------------------------------
(* What a sample of the repository relies on, and the code does not do.    *)

(* samples/cat.txt reads a character with '~' and prints it with ',', over  *)
(* and over: a text of characters arrives as it was sent.                   *)
CopiesText ==
  (\A i \in 1..Len(printed) : printed[i].by = ",") => \A i \in 1..Len(got) : ReadsBackAt(i)
=============================================================================
