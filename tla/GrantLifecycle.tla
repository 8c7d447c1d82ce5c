---------------------------- MODULE GrantLifecycle ----------------------------
(***************************************************************************)
(* What the grant store promises its handlers: every call is one atomic    *)
(* step on the current grant, and a grant moves through the statuses of    *)
(* types.go in one direction only.  There are no files, locks, processes   *)
(* or handlers here; GrantStore implements this when one process serves    *)
(* the data directory.                                                     *)
(***************************************************************************)
EXTENDS Grants

CONSTANT None    \* no such grant

VARIABLES grant, clock

lifeVars == <<grant, clock>>

LifeInit == grant = [i \in Id |-> None] /\ clock = 0

Exists(i) == grant[i] # None
Set(i, g) == grant' = [grant EXCEPT ![i] = g] /\ UNCHANGED clock

\* CreateGrant
Create(i) ==
  /\ ~Exists(i)
  /\ \E c \in Code, a \in (SUBSET Access) \ {{}}, e \in Time : Set(i, NewGrant(c, a, e))

\* MarkCodeVerified
Verify(i) == Exists(i) /\ Pending(grant[i]) /\ Set(i, Verified(grant[i]))

\* ApproveGrant: all that was requested, by a subject.
Approve(i) ==
  /\ Exists(i) /\ Approvable(grant[i])
  /\ \E s \in Subject : Set(i, Approved(grant[i], grant[i].requested, s))

\* DenyGrant: a pending grant, and also an approved one.
Deny(i) ==
  /\ Exists(i) /\ grant[i].status \in {"pending", "approved"}
  /\ Set(i, Denied(grant[i]))

\* GetGrant and DenyGrant expire what is overdue.
Expire(i) == Exists(i) /\ clock > grant[i].expires /\ Set(i, Expired(grant[i]))

Wait == clock < MaxTime /\ clock' = clock + 1 /\ UNCHANGED grant

LifeNext ==
  \/ \E i \in Id : Create(i) \/ Verify(i) \/ Approve(i) \/ Deny(i) \/ Expire(i)
  \/ Wait

LifeSpec == LifeInit /\ [][LifeNext]_lifeVars
=============================================================================
