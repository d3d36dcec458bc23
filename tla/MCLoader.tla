------------------------------ MODULE MCLoader ------------------------------
(* Small files for module Loader. *)
EXTENDS Loader

\* Every file of up to MaxLen bytes: newlines, blanks and bytes above 127.
MaxLen == 7

MCTexts == UNION {[1..n -> {Newline, 32, 200}] : n \in 0..MaxLen}
=============================================================================
