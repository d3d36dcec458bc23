------------------------------ MODULE Externs ------------------------------
(***************************************************************************)
(* The functions emitted code calls (externs.cpp), as operators: what each *)
(* returns and what it does to the playfield, to standard input and to     *)
(* standard output.  Text is a sequence of bytes.                          *)
(*                                                                         *)
(* std::cin is external: what is left of the input, and whether a read has *)
(* failed.  The program never clears that flag.                            *)
(***************************************************************************)
EXTENDS Block, Words

CONSTANT
  Garbage     \* what an uninitialised local variable may hold

ASSUME GarbageAssumption == Garbage \subseteq Word

-----------------------------------------------------------------------------
(* The playfield. *)

Inside(x, y) == x < N_COLS /\ y < N_ROWS       \* as unsigned words

\* Bug: the array is indexed by row first.
extern_read_val_transposed(m, y, x) == IF Inside(y, x) THEN m[[x |-> y, y |-> x]] ELSE 0

\* 'g': nothing is read outside the playfield.
extern_read_val(m, y, x) == IF Inside(x, y) THEN m[[x |-> x, y |-> y]] ELSE 0

\* Bug: the word is stored as it is.
TruncatedNot(v) == v

\* 'p' stores a byte.
Truncated(v) == v % 256

-----------------------------------------------------------------------------
(* Standard input: std::cin >> c and std::cin >> i. *)

Stream == [rest : Seq(Byte), failed : BOOLEAN]

Blanks == {9, 10, 11, 12, 13, 32}
Minus  == 45
Plus   == 43
Digits == 48..57

\* Where the characters of text from i on that are in S end.
EndOf(text, i, S) ==
  CHOOSE k \in i..Len(text)+1 :
    /\ k = Len(text) + 1 \/ text[k] \notin S
    /\ \A j \in i..k-1 : text[j] \in S

SkipBlanks(text) == SubSeq(text, EndOf(text, 1, Blanks), Len(text))

\* A char is signed: (uint64)c extends its sign.
Extended(byte) == IF byte < 128 THEN byte ELSE Modulus - 256 + byte

\* What an extraction may give: a word, and the stream it leaves.
Read(w, rest, failed) == [val |-> w, cin |-> [rest |-> rest, failed |-> failed]]

\* The extraction does not begin: the variable is left as it was, uninitialised.
NothingRead(values, cin) ==
  {Read(w, IF cin.failed THEN cin.rest ELSE << >>, TRUE) : w \in values}

extern_getchar(cin) ==
  LET text == SkipBlanks(cin.rest)
  IN  IF cin.failed \/ text = << >>
      THEN NothingRead({Extended(w % 256) : w \in Garbage}, cin)
      ELSE {Read(Extended(Head(text)), Tail(text), FALSE)}

\* The number the digits of text from i to k spell.
Number(text, i, k) ==
  LET upto[j \in i-1..k] == IF j < i THEN 0 ELSE 10 * upto[j-1] + text[j] - 48
  IN  upto[k]

(* An unsigned variable: a number that does not fit leaves the largest     *)
(* word, a text that is no number 0, and both fail; a minus sign negates   *)
(* modulo 2^64.                                                            *)
extern_getint(cin) ==
  LET text == SkipBlanks(cin.rest)
      from == IF text # << >> /\ Head(text) \in {Minus, Plus} THEN 2 ELSE 1
      end  == EndOf(text, from, Digits)
      n    == Number(text, from, end - 1)
      rest == SubSeq(text, end, Len(text))
  IN  CASE cin.failed \/ text = << >> -> NothingRead(Garbage, cin)
        [] OTHER ->
             IF end = from THEN {Read(0, rest, TRUE)}
             ELSE IF n \notin Word THEN {Read(Modulus - 1, rest, TRUE)}
             ELSE {Read(IF Head(text) = Minus THEN (-n) % Modulus ELSE n, rest, FALSE)}

-----------------------------------------------------------------------------
(* Standard output: std::cout << (int64)v << " " and std::cout << (char)v. *)

Decimal(n) ==
  LET d[k \in 0..n] == (IF k < 10 THEN << >> ELSE d[k \div 10]) \o << 48 + (k % 10) >>
  IN  d[n]

\* Bug: nothing separates a number from what is printed next.
extern_printint_joined(v) ==
  IF Signed(v) < 0 THEN << Minus >> \o Decimal(-Signed(v)) ELSE Decimal(v)

extern_printint(v) ==
  (IF Signed(v) < 0 THEN << Minus >> \o Decimal(-Signed(v)) ELSE Decimal(v)) \o << 32 >>

extern_printchar(v) == << v % 256 >>

-----------------------------------------------------------------------------
\* rand() % 4 + Dir::UP
extern_rand == Dirs

(* What the call a character of kind c makes may return, with the stack s, *)
(* the playfield m and the input cin.                                      *)
Returns(c, s, m, cin) ==
  CASE c = "&" -> extern_getint(cin)
    [] c = "~" -> extern_getchar(cin)
    [] c = "g" -> {[val |-> extern_read_val(m, s[1], s[2]), cin |-> cin]}
    [] c = "?" -> {[val |-> d, cin |-> cin] : d \in extern_rand}
    [] OTHER   -> {[val |-> 0, cin |-> cin]}
=============================================================================
