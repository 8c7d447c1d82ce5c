----------------------------- MODULE MCGrantStore -----------------------------
(***************************************************************************)
(* GrantStore for TLC.  Goroutines of one process and user codes are       *)
(* interchangeable, ids are not: a scan visits them in order.              *)
(***************************************************************************)
EXTENDS GrantStore, TLC

Symmetry == Permutations(ASThread) \cup Permutations(Code)
=============================================================================
