-------------------------------- MODULE Tokens --------------------------------
(***************************************************************************)
(* The record of an access token (gnap.TokenRecord), shared by the token   *)
(* store and by the book it implements.  A token stands for its SHA-256    *)
(* hash as well: the store knows tokens by their hash only.                *)
(***************************************************************************)
EXTENDS Naturals

CONSTANTS
  Token,      \* tokens: random, each is made once
  Access,     \* items of access
  RS,         \* resource servers: the audience of tokens, and who introspects
  Issuer,     \* base URLs under which the server may have been called
  TTL,        \* seconds until a token expires (grantTokenTTL), in ticks
  MaxTime,    \* bound: the clock stops here
  None        \* no record

ASSUME TokensAssumption == TTL \in Nat /\ MaxTime \in Nat

Time == 0..MaxTime

\* Nobody binds a token to a key, and Revoke never gets to mark one, so the
\* fields for that are left out; Iat and Nbf are the expiry less the TTL.
Record == [iss : Issuer, access : Access, aud : SUBSET RS, exp : Time]

ASSUME NoneAssumption == None \notin Record

LiveAt(r, now) == r # None /\ now < r.exp
=============================================================================
