----------------------------- MODULE Authorization -----------------------------
(***************************************************************************)
(* What the server promises as a whole: the grants of GrantLifecycle, the  *)
(* tokens of TokenBook, and between them the order of the protocol.  A     *)
(* grant is verified after its code was entered, and approved after a      *)
(* subject consented; a token is made of the access and for the subject    *)
(* of the approval; a client is given the tokens of one grant, all of      *)
(* them.  There are no requests, copies, files, locks, failures and        *)
(* crashes here.  GrantTokens implements this when one process serves the  *)
(* data directory.                                                         *)
(***************************************************************************)
EXTENDS GrantLifecycle

CONSTANTS Token, RS, Issuer,   \* as in Tokens
          TokenTTL             \* seconds until a token expires, in ticks

VARIABLES
  made, book,  \* of TokenBook
  source,      \* source[k]: the grant, the subject and the answers token k comes from
  given,       \* the tokens that clients were given
  entered,     \* the user codes entered so far
  consents     \* <<i, s>>: subject s has consented to grant i

B == INSTANCE TokenBook WITH TTL <- TokenTTL

tokenVars == <<made, book, source>>
outside == <<entered, consents>>
authVars == <<grant, clock, tokenVars, given, outside>>

AuthInit ==
  /\ LifeInit /\ B!BookInit
  /\ source = [k \in Token |-> None]
  /\ given = {} /\ entered = {} /\ consents = {}

\* The user and the subject.
EnterCode(c) ==
  /\ entered' = entered \cup {c}
  /\ UNCHANGED <<grant, clock, tokenVars, given, consents>>

Consent(i, s) ==
  /\ consents' = consents \cup {<<i, s>>}
  /\ UNCHANGED <<grant, clock, tokenVars, given, entered>>

\* A grant moves on: verified by its code, approved by a subject who consented.
Move(i) ==
  /\ \/ Create(i)
     \/ Verify(i) /\ grant[i].code \in entered
     \/ Approve(i) /\ <<i, grant'[i].subject>> \in consents
     \/ Deny(i) \/ Expire(i)
  /\ UNCHANGED <<tokenVars, given, outside>>

\* A token for one access of the approval, whatever became of the grant since.
\* Nobody had been told that the grant is over when its client came.
Issue(k, i) ==
  /\ Exists(i)
  /\ \E r \in B!Record : /\ r.access \in grant[i].approved /\ r.exp = clock + TokenTTL
                         /\ B!Make(k, r)
  /\ source' = [source EXCEPT ![k] = [id |-> i, sub |-> grant[i].subject, told |-> {}]]
  /\ UNCHANGED <<grant, clock, book, given, outside>>

\* Introspection knows the token from now on.
Record(k) == B!Enter(k) /\ UNCHANGED <<grant, clock, made, source, given, outside>>

\* The client gets tokens for all that it asked for.  They are known by then.
Give(i, ks) ==
  /\ \A k \in ks : /\ source[k] # None /\ source[k].id = i
                   /\ B!LiveAt(made[k], clock) => book[k] = made[k]
  /\ Exists(i) /\ {made[k].access : k \in ks} = grant[i].requested
  /\ given' = given \cup {[access |-> grant[i].requested, tokens |-> ks]}
  /\ UNCHANGED <<grant, clock, tokenVars, outside>>

Pass == Wait /\ B!Pass /\ UNCHANGED <<source, given, outside>>

AuthNext ==
  \/ \E c \in Code : EnterCode(c)
  \/ \E i \in Id, s \in Subject : Consent(i, s)
  \/ \E i \in Id : Move(i)
  \/ \E k \in Token, i \in Id : Issue(k, i)
  \/ \E k \in Token : Record(k)
  \/ \E i \in Id, ks \in SUBSET Token : Give(i, ks)
  \/ Pass

AuthSpec == AuthInit /\ [][AuthNext]_authVars
=============================================================================
