---------------------------- MODULE MCRSKeyStore -----------------------------
(***************************************************************************)
(* RSKeyStore for TLC.  Tenants and kids are interchangeable, and so are   *)
(* keys of one type.                                                       *)
(***************************************************************************)
EXTENDS RSKeyStore, TLC

Symmetry == Permutations(Tenant) \cup Permutations(Kid)
=============================================================================
