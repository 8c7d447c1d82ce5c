----------------------------- MODULE MCTokenStore -----------------------------
(***************************************************************************)
(* TokenStore for TLC.  Tokens and goroutines are interchangeable.         *)
(***************************************************************************)
EXTENDS TokenStore, TLC

CONSTANTS read, write, rs1

Everything == {{read, write}}

Write == {{write}}
ForRS1 == {{rs1}}

Symmetry == Permutations(Token) \cup Permutations(Thread)
=============================================================================
