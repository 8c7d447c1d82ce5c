---------------------------- MODULE MCGrantTokens -----------------------------
(***************************************************************************)
(* GrantTokens for TLC.                                                    *)
(***************************************************************************)
EXTENDS GrantTokens, TLC

Anybody == {{}}
Nothing == {{}}
Symmetry == Permutations(ASThread) \cup Permutations(Token) \cup Permutations(Access)
=============================================================================
