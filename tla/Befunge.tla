------------------------------ MODULE Befunge ------------------------------
(***************************************************************************)
(* The language itself: a machine that reads one cell of the playfield,    *)
(* executes it and moves on to the next, each cell as it is at that time.  *)
(* It knows no blocks, no thunks and no compiler.  What the characters do  *)
(* with words, input and output is what befunjit's do (modules Words and   *)
(* Externs); the stack is empty below its last word, and an empty stack    *)
(* gives zeros.                                                            *)
(*                                                                         *)
(* Module Machine implements this specification as long as a program does  *)
(* not overwrite the rest of the block it is running.                      *)
(***************************************************************************)
EXTENDS Externs

CONSTANTS
  Programs,   \* the playfields the loader may leave
  Inputs      \* the texts standard input may hold

VARIABLES
  mem,      \* the playfield
  ctl,      \* "run", "exit", "trap", "abort"
  pos,      \* the next cell and the direction
  quoted,   \* between the quotes of a string
  stk,      \* the stack, its top first
  called,   \* the last instruction's call of the outside: function and arguments
  cin       \* standard input

vars == <<mem, ctl, pos, quoted, stk, called, cin>>

Start == [x |-> 0, y |-> 0, dir |-> RIGHT]

(* Zeros at the bottom of a stack that gives zeros when it is empty cannot *)
(* be told from an empty one: there may be any number.                     *)
Init ==
  /\ mem \in Programs
  /\ ctl = "run"
  /\ pos = Start
  /\ quoted = FALSE
  /\ stk \in Seq({0})
  /\ called = << >>
  /\ cin \in {[rest |-> i, failed |-> FALSE] : i \in Inputs}

-----------------------------------------------------------------------------
char == Fetch(mem, pos)

kind == Kind(char)

\* The stack with the zeros its next instruction may need.
deep == IF Len(stk) >= 3 THEN stk ELSE stk \o << 0, 0, 0 >>

\* What remains of it.
Rest(n) == SubSeq(stk, n + 1, Len(stk))

\* The next instruction, outside a string, is one of S.
AtInstr(S) == ctl = "run" /\ ~quoted /\ char \in S

\* What it does to the stack, when a function has given r.
Execute(r) ==
  /\ stk' = Pushes(kind, deep, Digit(char), r.val) \o Rest(Pops(kind))
  /\ called' = Asks(kind, deep, Digit(char))
  /\ cin' = r.cin

Results == Returns(kind, deep, mem, cin)

Compute ==
  /\ AtInstr(Byte \ (EndsBlock \cup {Put}))
  /\ ~Traps(kind, deep)
  /\ \E r \in Results : Execute(r)
  /\ pos' = Step(pos)
  /\ UNCHANGED <<mem, ctl, quoted>>

Trap ==
  /\ AtInstr(Byte) /\ Traps(kind, deep)
  /\ ctl' = "trap"
  /\ UNCHANGED <<mem, pos, quoted, stk, called, cin>>

Store ==
  /\ AtInstr({Put})
  /\ \E r \in Results : Execute(r)
  /\ mem' = IF Inside(deep[2], deep[1])
            THEN [mem EXCEPT ![[x |-> deep[2], y |-> deep[1]]] = Truncated(deep[3])]
            ELSE mem
  /\ pos' = Step(pos)
  /\ UNCHANGED <<ctl, quoted>>

Turn ==
  /\ AtInstr(EndsBlock \ {Quote, Halt})
  /\ \E r \in Results :
       /\ Execute(r)
       /\ pos' = Targets(char, pos, pos, pos)[Way(kind, deep, r.val)]
  /\ UNCHANGED <<mem, ctl, quoted>>

OpenQuote ==
  /\ AtInstr({Quote})
  /\ quoted' = TRUE
  /\ pos' = Step(pos)
  /\ called' = << >>
  /\ UNCHANGED <<mem, ctl, stk, cin>>

PushChar ==
  /\ ctl = "run" /\ quoted /\ char # Quote
  /\ stk' = << char >> \o stk
  /\ pos' = Step(pos)
  /\ called' = << >>
  /\ UNCHANGED <<mem, ctl, quoted, cin>>

CloseQuote ==
  /\ ctl = "run" /\ quoted /\ char = Quote
  /\ quoted' = FALSE
  /\ pos' = Step(pos)
  /\ called' = << >>
  /\ UNCHANGED <<mem, ctl, stk, cin>>

\* (Where a process stood that has ended is not kept.)
Exit ==
  /\ AtInstr({Halt})
  /\ ctl' = "exit"
  /\ pos' \in CodePos
  /\ UNCHANGED <<mem, quoted, stk, called, cin>>

\* The room for the program or for its stack runs out.
GiveUp ==
  /\ ctl = "run"
  /\ ctl' = "abort"
  /\ UNCHANGED <<mem, pos, quoted, stk, called, cin>>

Next ==
  \/ Compute \/ Trap \/ Store \/ Turn
  \/ OpenQuote \/ PushChar \/ CloseQuote
  \/ Exit \/ GiveUp

Spec == Init /\ [][Next]_vars
=============================================================================
