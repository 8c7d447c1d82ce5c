-------------------------------- MODULE Grants --------------------------------
(***************************************************************************)
(* The record of a grant (types.GrantState) and the changes the store      *)
(* makes to one.  Timestamps other than the expiry, the continuation token *)
(* and the client are left out: no decision of the store reads them.       *)
(***************************************************************************)
EXTENDS Naturals

CONSTANTS
  Id,         \* grant ids
  Code,       \* user codes: random, never checked to be unique
  Access,     \* the access tokens a client may ask for
  TTL,        \* GrantTTLSeconds, in ticks of the clock
  MaxTime     \* bound: the clock stops here

ASSUME GrantsAssumption == Id \subseteq Nat /\ TTL \in Nat /\ MaxTime \in Nat

Time == 0..MaxTime
Status == {"pending", "approved", "denied", "expired"}
Subject == {"user:device", "user:debug"}

Grant == [status : Status, verified : BOOLEAN, code : Code,
          requested : SUBSET Access, approved : SUBSET Access,
          subject : Subject \cup {"none"}, expires : Time]

\* A definition whose name ends in _F is the one after it with a fault.
Pending_F(g) == g.status # "approved"    \* denied grants still count as open
Pending(g) == g.status = "pending"
Approvable_F(g) == Pending(g)            \* without a look at the code
Approvable(g) == Pending(g) /\ g.verified

NewGrant(c, a, e) ==
  [status |-> "pending", verified |-> FALSE, code |-> c, requested |-> a,
   approved |-> {}, subject |-> "none", expires |-> e]

Verified(g) == [g EXCEPT !.verified = TRUE]
Approved(g, asked, s) ==
  [g EXCEPT !.status = "approved", !.subject = s,
            !.approved = IF asked = {} THEN g.requested ELSE asked]
Denied_F(g) == [g EXCEPT !.status = "denied", !.approved = {}]   \* takes it back
Denied(g) == [g EXCEPT !.status = "denied"]
Expired(g) == [g EXCEPT !.status = "expired"]
=============================================================================
