------------------------------ MODULE GrantTokens ------------------------------
(***************************************************************************)
(* The authorization server as a whole: the grants of GrantStore, with the *)
(* playground as a second process over the same files, and the tokens of   *)
(* TokenStore, composed where the code composes them.  /continue issues    *)
(* tokens from the grant it has read (internal/handlers/continue.go,       *)
(* internal/token), and introspection tells a resource server what they    *)
(* are for, for whom, and from which grant (internal/handlers/introspect). *)
(* A goroutine of the server is busy in one of the stores at a time, both  *)
(* read one clock, and a crash takes both.  Nothing calls Revoke or        *)
(* CleanupExpired.                                                         *)
(***************************************************************************)
EXTENDS GrantStore

CONSTANTS
  Token, RS, Issuer,           \* as in Tokens
  TokenTTL,                    \* seconds until a token expires, in ticks
  Audience, Asked, ASGrantURL, \* as in TokenStore
  MaxTokenFail                 \* bound: failed file operations of the token store

VARIABLES
  made, file, cache, lock, treq, given, gone, tfails, tcrashes,   \* of TokenStore
  source,    \* source[k]: the grant that token k is issued from
  consents   \* <<i, s>>: somebody sent an approval of grant i as subject s

T == INSTANCE TokenStore WITH
       Thread <- ASThread, Approvals <- SUBSET Access, TTL <- TokenTTL,
       MaxFail <- MaxTokenFail, req <- treq, fails <- tfails, crashes <- tcrashes

tokenVars == <<made, file, cache, lock, treq, given, gone, tfails, tcrashes>>
history == <<source, consents>>
allVars == <<vars, tokenVars, history>>

(***************************************************************************)
(* What the record of a token says about its grant (TokenRecord.InstanceID *)
(* and .Sub), which TokenStore leaves out, and what callers had been told  *)
(* about the grant when the /continue arrived that issued the token.       *)
(***************************************************************************)
Source == [id : Id, sub : Subject, told : SUBSET {"denied", "expired"}]

ASSUME SystemAssumption ==
  /\ Asked \subseteq SUBSET Access /\ Audience \subseteq SUBSET RS /\ ASGrantURL \in Issuer
  /\ TokenTTL \in Nat /\ None \notin T!Record /\ Torn \notin T!Record \cup {None}
  /\ None \notin Token /\ None \notin Source /\ MaxTokenFail \in Nat

SystemInit ==
  /\ Init /\ T!Init
  /\ source = [k \in Token |-> None]
  /\ consents = {}

-----------------------------------------------------------------------------
(* Grants: as in GrantStore, up to the issuance. *)

Accepts(t) ==
  /\ t \in ASThread => T!At(t, "idle")
  /\ Arrive(t)
  /\ consents' = IF req'[t].op = "approve"
                 THEN consents \cup {<<req'[t].id, SubjectOf(t)>>} ELSE consents
  /\ UNCHANGED <<tokenVars, source>>

Handles(t) ==
  /\ req[t].pc # "issue" /\ Serve(t)
  /\ UNCHANGED <<tokenVars, history>>

-----------------------------------------------------------------------------
(* /continue: one token for each access of the grant as it was read. *)

StartIssue(t) ==
  /\ req[t].pc = "issue" /\ T!At(t, "idle")
  /\ \E iss \in Issuer, aud \in Audience : T!IssueRequest(t, req[t].doc.approved, iss, aud)
  /\ UNCHANGED <<vars, history>>

\* The record names the grant and its subject.
IssueOpaqueToken(t) ==
  /\ T!MakeToken(t)
  /\ source' = [source EXCEPT ![treq'[t].token] =
                  [id |-> req[t].id, sub |-> req[t].doc.subject, told |-> req[t].told]]
  /\ UNCHANGED <<vars, consents>>

StoreToken(t) ==
  /\ T!OpenFile(t) \/ T!FillFile(t)
  /\ UNCHANGED <<vars, history>>

\* The last token ends the request.
TokenStored(t) ==
  /\ T!CacheRecord(t)
  /\ IF treq[t].todo = {} THEN IssueToken(t) ELSE UNCHANGED vars
  /\ UNCHANGED history

\* Nothing is approved (ErrNotApproved), or a token cannot be stored.
IssueRefused(t) ==
  /\ IssueFails(t)
  /\ IF req[t].doc.approved = {} THEN UNCHANGED T!vars ELSE T!PutFails(t)
  /\ UNCHANGED history

-----------------------------------------------------------------------------
(* Introspection, time and crashes. *)

Introspect(t) ==
  /\ \/ /\ req[t] = Idle
        /\ \E k \in Token, rs \in RS, asks \in Asked : T!IntrospectRequest(t, k, rs, asks)
     \/ T!GetByHash(t) \/ T!ReadFails(t) \/ T!FillCache(t) \/ T!ReturnFill(t) \/ T!Answer(t)
  /\ UNCHANGED <<vars, history>>

Passes == Tick /\ T!Tick /\ UNCHANGED history

\* A process dies and starts again; the server takes its requests to both stores along.
Crashes ==
  \E p \in Process : /\ Crash(p)
                     /\ IF p = "as" THEN T!Restart ELSE UNCHANGED tokenVars
                     /\ UNCHANGED history

Issue(t) == \/ StartIssue(t) \/ IssueOpaqueToken(t) \/ StoreToken(t)
            \/ TokenStored(t) \/ IssueRefused(t)

SystemNext ==
  \/ \E t \in Thread : Accepts(t) \/ Handles(t)
  \/ \E t \in ASThread : Issue(t) \/ Introspect(t)
  \/ Passes \/ Crashes

SystemSpec == SystemInit /\ [][SystemNext]_allVars

-----------------------------------------------------------------------------
(* Properties. *)

\* When introspection says that a token is active, what it says of the grant is
\* true: a subject of that name consented to the grant, the grant's user code
\* was entered, its client asked for the access, and nobody had been told
\* that the grant is expired when the client came to /continue.  In between
\* are two stores, stale copies of the grant, files and restarts (Introspect,
\* IssueToken, ApproveGrant, MarkCodeVerified).
ActiveWasGranted ==
  \A t \in ASThread : T!At(t, "judge") /\ T!Active(t) =>
    LET s == source[treq[t].token]
        g == disk[s.id]
    IN /\ s # None /\ <<s.id, s.sub>> \in consents /\ "expired" \notin s.told
       /\ Readable(s.id) => g.code \in entered /\ treq[t].rec.access \in g.requested

\* A client is given what its grant asked for, all of it and from this grant
\* only: one token for each access it requested (IssueToken, ApproveGrant).
GivenWasRequested ==
  \A g \in given : \E i \in Id :
    /\ \A k \in g.tokens : source[k] # None /\ source[k].id = i
    /\ Readable(i) => {made[k].access : k \in g.tokens} = disk[i].requested

\* With one process, no token is active whose client came to /continue after
\* somebody had been told that the grant is denied (DenyGrant, IssueToken).
NoActiveAfterDenial ==
  \A t \in ASThread : T!At(t, "judge") /\ T!Active(t) =>
    "denied" \notin source[treq[t].token].told

\* With one process, the server implements Authorization: through stale copies of
\* grants, failures, restarts and whatever two requests do at a time, codes,
\* consents, grants, tokens and answers follow the order of the protocol, and a
\* token is what its grant was approved for, by whom it was approved (IssueToken).
Protocol == INSTANCE Authorization WITH grant <- disk, book <- T!BookNow
ServerIsAtomic == Protocol!AuthSpec
=============================================================================
