----------------------------- MODULE MCEmitted -----------------------------
(* A small instance of module Emitted for TLC: words of four bits. *)
EXTENDS Emitted

\* Zero, one, the largest and the smallest signed word, minus two.
MCStackWords == {0, 1, 7, 8, 14}
=============================================================================
