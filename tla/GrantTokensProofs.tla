--------------------------- MODULE GrantTokensProofs ---------------------------
(***************************************************************************)
(* Theorems about GrantTokens: the composition implements both stores, so  *)
(* that what is proved of each holds in it, and what introspection says    *)
(* of a token is true of its grant.                                        *)
(***************************************************************************)
EXTENDS GrantTokens, GrantOneProcessProofs

TP == INSTANCE TokenStoreProofs WITH
        Thread <- ASThread, Approvals <- SUBSET Access, TTL <- TokenTTL,
        MaxFail <- MaxTokenFail, req <- treq, fails <- tfails, crashes <- tcrashes

(***************************************************************************)
(* The inductive invariant.                                                *)
(***************************************************************************)
\* What a request is for decides the calls it makes.
Purpose(r) ==
  /\ r.pc = "issue" => r.call = "GetGrant"
  /\ r.call = "ApproveGrant" => r.op = "approve"
  /\ r.op = "approve" => r.id \in Id /\ r.call \in {"GetGrant", "ApproveGrant"}

\* Whoever approves a grant has been asked to, and a subject is in no copy of a
\* grant that it did not approve.
Consented ==
  /\ \A t \in Thread : /\ Purpose(req[t])
                       /\ req[t].op = "approve" => <<req[t].id, SubjectOf(t)>> \in consents
  /\ \A i \in Id : \A g \in Copies(i) : g.subject # "none" => <<i, g.subject>> \in consents

\* What is true of the grant that a token for access a was issued from.
Granted(s, a) ==
  /\ disk[s.id] # None /\ <<s.id, s.sub>> \in consents /\ "expired" \notin s.told
  /\ \A g \in Copies(s.id) : g.code \in entered /\ a \in g.requested

Sourced ==
  /\ source \in [Token -> Source \cup {None}]
  /\ \A k \in Token : made[k] # None => source[k] \in Source /\ Granted(source[k], made[k].access)

\* An issuance works for the request of the same goroutine.
Issued(k, i) == made[k] # None /\ source[k].id = i

Link(t) ==
  T!At(t, "make") \/ TP!Putting(treq[t]) =>
    /\ req[t].pc = "issue"
    /\ treq[t].todo \subseteq treq[t].approved /\ treq[t].approved = req[t].doc.approved
    /\ \A k \in treq[t].got : Issued(k, req[t].id)
    /\ TP!Putting(treq[t]) => Issued(treq[t].token, req[t].id)

Linked == \A t \in ASThread : Link(t)

\* What a client was given was issued from one grant, for all that it asked for.
GivenFrom ==
  \A g \in given : \E i \in Id :
    /\ disk[i] # None
    /\ \A k \in g.tokens : Issued(k, i)
    /\ \A h \in Copies(i) : g.access = h.requested

SystemInv ==
  IInv /\ TP!TokenInv /\ Consented /\ Sourced /\ Linked /\ GivenFrom

Undenied == \A k \in Token : made[k] # None => "denied" \notin source[k].told

-----------------------------------------------------------------------------
(* The two stores. *)

\* TP repeats the definitions of T.
LEMMA SameStore ==
  /\ T!Init <=> TP!Init
  /\ [T!Next]_(T!vars) <=> [TP!Next]_(TP!vars)
<1>1. T!Init <=> TP!Init
  BY DEF T!Init, TP!Init, T!Idle, TP!Idle
<1>2. T!Next <=> TP!Next
  BY DEF T!Next, TP!Next, T!Arrive, TP!Arrive, T!Serve, TP!Serve, T!IssueRequest, TP!IssueRequest,
         T!IntrospectRequest, TP!IntrospectRequest, T!RevokeRequest, TP!RevokeRequest, T!MakeToken, TP!MakeToken, T!OpenFile, TP!OpenFile,
         T!FillFile, TP!FillFile, T!CacheRecord, TP!CacheRecord, T!PutFails, TP!PutFails, T!GetByHash, TP!GetByHash,
         T!ReadFails, TP!ReadFails, T!FillCache, TP!FillCache, T!ReturnFill, TP!ReturnFill, T!Answer, TP!Answer,
         T!Revoke, TP!Revoke, T!CleanupExpired, TP!CleanupExpired, T!Tick, TP!Tick, T!Restart, TP!Restart,
         T!Become, TP!Become, T!At, TP!At, T!Readable, TP!Readable, T!Held, TP!Held,
         T!Seen, TP!Seen, T!Bounds, TP!Bounds, T!Refuse, TP!Refuse, T!FromFile, TP!FromFile,
         T!Active, TP!Active, T!AudAllows, TP!AudAllows, T!CanSatisfyAccess, TP!CanSatisfyAccess, T!Expired, TP!Expired,
         T!Idle, TP!Idle, T!Record, TP!Record, T!Time, TP!Time
<1>3. UNCHANGED T!vars <=> UNCHANGED TP!vars
  BY DEF T!vars, TP!vars
<1>. QED BY <1>1, <1>2, <1>3

\* The steps of the grant store leave the clock alone, unless time passes.
LEMMA ClockStays ==
  ASSUME NEW t \in Thread, Arrive(t) \/ Serve(t)
  PROVE  clock' = clock
<1>1. CASE Arrive(t)
  BY <1>1 DEF Arrive, GrantRequest, VerifyRequest, DecisionRequest, ContinueRequest
<1>2. CASE Serve(t)
  BY <1>2 DEF Serve, CreateGrant, MarkCodeVerified, GetGrant, ApproveGrant, DenyGrant,
       ListGrants, ScanGrant, ScanFails, ReadFails, OpenTmp, WriteData, RenameTmp,
       RenameFindsNothing, WriteFails, IssueToken, IssueFails
<1>. QED BY <1>1, <1>2

\* A step of the system is a step of the grant store or leaves it alone.
LEMMA GrantsStep == [SystemNext]_allVars => [Next]_vars
<1>1. ASSUME NEW t \in Thread, Accepts(t) \/ Handles(t) PROVE Next
  BY <1>1 DEF Accepts, Handles, Next
<1>2. ASSUME NEW t \in ASThread, Issue(t) PROVE [Next]_vars
  BY <1>2 DEF Issue, StartIssue, IssueOpaqueToken, StoreToken, TokenStored, IssueRefused,
       Next, Serve, Thread
<1>3. ASSUME NEW t \in ASThread, Introspect(t) PROVE UNCHANGED vars
  BY <1>3 DEF Introspect
<1>4. Passes \/ Crashes => Next
  BY DEF Passes, Crashes, Next
<1>5. UNCHANGED allVars => UNCHANGED vars
  BY DEF allVars
<1>. QED BY <1>1, <1>2, <1>3, <1>4, <1>5 DEF SystemNext

\* And it is a step of the token store or leaves that alone.
LEMMA TokensStep == TypeInv /\ [SystemNext]_allVars => [T!Next]_(T!vars)
<1>. SUFFICES ASSUME TypeInv, [SystemNext]_allVars PROVE [T!Next]_(T!vars)
  OBVIOUS
<1>u. UNCHANGED <<tokenVars, clock>> => UNCHANGED T!vars
  BY DEF tokenVars, T!vars
<1>v. UNCHANGED vars => clock' = clock
  BY DEF vars
<1>1. ASSUME NEW t \in Thread, Accepts(t) \/ Handles(t) PROVE UNCHANGED T!vars
  <2>1. UNCHANGED tokenVars /\ (Arrive(t) \/ Serve(t))
    BY <1>1 DEF Accepts, Handles
  <2>. QED BY <1>u, <2>1, ClockStays
<1>2. ASSUME NEW t \in ASThread, StartIssue(t) PROVE T!Next
  <2>1. req[t].doc.approved \in SUBSET Access
    BY <1>2 DEF StartIssue, TypeInv, Shapes, Shape, Thread, Grant
  <2>2. T!Arrive(t)
    BY <1>2, <2>1 DEF StartIssue, T!Arrive
  <2>. QED BY <2>2 DEF T!Next
<1>3. ASSUME NEW t \in ASThread, IssueOpaqueToken(t) \/ StoreToken(t) \/ TokenStored(t)
      PROVE  T!Next
  <2>1. T!Serve(t)
    BY <1>3 DEF IssueOpaqueToken, StoreToken, TokenStored, T!Serve
  <2>. QED BY <2>1 DEF T!Next
<1>4. ASSUME NEW t \in ASThread, IssueRefused(t) PROVE [T!Next]_(T!vars)
  <2>1. UNCHANGED T!vars \/ T!Serve(t)
    BY <1>4 DEF IssueRefused, T!Serve
  <2>. QED BY <2>1 DEF T!Next
<1>5. ASSUME NEW t \in ASThread, Introspect(t) PROVE T!Next
  <2>1. T!Arrive(t) \/ T!Serve(t)
    BY <1>5 DEF Introspect, T!Serve, T!Arrive
  <2>. QED BY <2>1 DEF T!Next
<1>6. Passes => T!Next
  BY DEF Passes, T!Next
<1>7. ASSUME Crashes PROVE [T!Next]_(T!vars)
  BY <1>7, <1>u DEF Crashes, Crash, T!Next
<1>8. UNCHANGED allVars => UNCHANGED T!vars
  BY <1>u, <1>v DEF allVars
<1>. QED BY <1>1, <1>2, <1>3, <1>4, <1>5, <1>6, <1>7, <1>8 DEF SystemNext, Issue

\* The whole server implements the grant store by itself: everything proved of
\* GrantStore holds in the composition (cmd/as, cmd/playground).
THEOREM SystemImplementsGrants == SystemSpec => Spec
BY GrantsStep, PTL DEF SystemSpec, SystemInit, Spec

\* And it implements the token store by itself, although only /continue issues
\* and only for what is approved: everything proved of TokenStore holds too.
THEOREM SystemImplementsTokens == SystemSpec => T!Spec
<1>1. TypeInv /\ [SystemNext]_allVars => [T!Next]_(T!vars)
  BY TokensStep
<1>2. SystemSpec => []TypeInv
  <2>1. IInv => TypeInv
    BY DEF IInv
  <2>. QED BY <2>1, SystemImplementsGrants, Invariance, PTL
<1>. QED BY <1>1, <1>2, PTL DEF SystemSpec, SystemInit, T!Spec

\* The invariants of the two stores.
LEMMA StoresHold == SystemSpec => []IInv /\ []TP!TokenInv
<1>1. TP!Spec => []TP!TokenInv
  BY TP!InvHolds, SystemAssumption, GrantsAssumption, BoundsAssumption, NullsAssumption
     DEF Thread, TP!Record, T!Record, TP!Time, T!Time
<1>2. T!Spec => TP!Spec
  BY SameStore, PTL DEF T!Spec, TP!Spec
<1>. QED BY <1>1, <1>2, SystemImplementsGrants, SystemImplementsTokens, Invariance, PTL

-----------------------------------------------------------------------------
(* The grants in the system. *)

\* The grant of a file stays the same grant, and codes stay entered.
LEMMA SameLater ==
  ASSUME IInv, [Next]_vars, NEW i \in Id, disk[i] # None
  PROVE  /\ disk'[i] # None
         /\ \A g \in Copies(i)' : \E h \in Copies(i) : SameGrant(g, h)
         /\ entered \subseteq entered'
<1>1. CASE Next
  <2>1. TypeInv /\ Known /\ CopiesAgree
    BY DEF IInv
  <2>2. ASSUME NEW g \in Copies(i)' PROVE \E h \in Copies(i) : SameGrant(g, h)
    BY <1>1, <2>1, GrownIsSame DEF Fresh
  <2>. QED BY <1>1, <2>1, <2>2, FilesStay, Monotone
<1>2. CASE UNCHANGED vars
  <2>1. Copies(i)' = Copies(i)
    BY <1>2 DEF vars, Copies
  <2>. QED BY <1>2, <2>1 DEF vars, SameGrant
<1>. QED BY <1>1, <1>2

\* A step of a handler keeps its purpose and its grant.
LEMMA ServePurpose ==
  ASSUME TypeInv, NEW t \in Thread, Purpose(req[t]), Serve(t)
  PROVE  /\ Purpose(req'[t])
         /\ req'[t].op = "approve" => req[t].op = "approve" /\ req'[t].id = req[t].id
<1>. DEFINE Goal == /\ Purpose(req'[t])
                    /\ req'[t].op = "approve" => req[t].op = "approve" /\ req'[t].id = req[t].id
<1>0. req \in [Thread -> Request] /\ req[t] \in Request /\ Shape(req[t])
  BY DEF TypeInv, TypeOK, Shapes
<1>i. ASSUME Become(t, Idle) PROVE Goal
  BY <1>0, <1>i DEF Become, Idle, Purpose
<1>w. ASSUME NEW g, Write(t, g) PROVE Goal
  BY <1>0, <1>w DEF Write, Become, Purpose, Request
<1>a. ASSUME NEW g, req[t].call = "GetGrant", AfterGet(t, g) PROVE Goal
  <2>. DEFINE r(pc, call, doc) == [req[t] EXCEPT !.pc = pc, !.call = call, !.doc = doc]
  <2>1. \/ req[t].op = "approve" /\ Become(t, r("call", "ApproveGrant", g))
        \/ req[t].op = "deny" /\ Become(t, r("call", "DenyGrant", None))
        \/ req[t].op = "continue" /\ Become(t, [req[t] EXCEPT !.pc = "issue", !.doc = g])
        \/ Become(t, Idle)
    BY <1>a DEF AfterGet, MayIssue
  <2>2. CASE req[t].op = "approve" /\ Become(t, r("call", "ApproveGrant", g))
    BY <1>0, <2>2 DEF Become, Purpose, Request
  <2>3. CASE req[t].op = "deny" /\ Become(t, r("call", "DenyGrant", None))
    BY <1>0, <2>3 DEF Become, Purpose, Request
  <2>4. CASE req[t].op = "continue" /\ Become(t, [req[t] EXCEPT !.pc = "issue", !.doc = g])
    BY <1>0, <1>a, <2>4 DEF Become, Purpose, Request
  <2>. QED BY <1>i, <2>1, <2>2, <2>3, <2>4
<1>r. ASSUME NEW ok \in BOOLEAN, WriteReturns(t, ok) PROVE Goal
  BY <1>r, <1>a, <1>i DEF WriteReturns
<1>1. CASE CreateGrant(t) \/ MarkCodeVerified(t) \/ ApproveGrant(t) \/ DenyGrant(t)
  BY <1>1, <1>i, <1>w DEF CreateGrant, MarkCodeVerified, ApproveGrant, DenyGrant, GiveUp
<1>2. CASE GetGrant(t)
  BY <1>2, <1>a, <1>i, <1>w DEF GetGrant, GiveUp, At
<1>m. ASSUME NEW r, Become(t, r), r.op = req[t].op, r.pc # "issue",
             \/ r.call = req[t].call /\ r.id = req[t].id
             \/ req[t].call = "FindGrant" /\ r.call = "MarkCodeVerified"
      PROVE  Goal
  BY <1>0, <1>m DEF Become, Purpose
<1>3. CASE ListGrants(t) \/ OpenTmp(t) \/ WriteData(t)
  <2>. DEFINE r == [req[t] EXCEPT !.pc = "scan", !.todo = {i \in Id : disk[i] # None}]
  <2>1. r.op = req[t].op /\ r.call = req[t].call /\ r.id = req[t].id /\ r.pc # "issue"
    BY <1>0 DEF Request
  <2>2. ListGrants(t) => Goal
    <3>1. ListGrants(t) => Become(t, r)
      BY DEF ListGrants
    <3>. HIDE DEF r, Goal
    <3>. QED BY <1>m, <2>1, <3>1
  <2>3. OpenTmp(t) \/ WriteData(t) => Goal
    BY <1>0 DEF OpenTmp, WriteData, Become, Purpose, Request
  <2>. QED BY <1>3, <2>2, <2>3
<1>4. CASE ScanGrant(t)
  <2>1. PICK i \in req[t].todo :
          \/ Become(t, [req[t] EXCEPT !.pc = "call", !.call = "MarkCodeVerified",
                          !.id = i, !.todo = {}])
          \/ Become(t, [req[t] EXCEPT !.todo = @ \ {i}])
    BY <1>4 DEF ScanGrant
  <2>2. req[t].call = "FindGrant" /\ req[t].pc = "scan"
    BY <1>4 DEF ScanGrant, At
  <2>. DEFINE r == [req[t] EXCEPT !.pc = "call", !.call = "MarkCodeVerified",
                      !.id = i, !.todo = {}]
              n == [req[t] EXCEPT !.todo = @ \ {i}]
  <2>3. /\ r.op = req[t].op /\ r.call = "MarkCodeVerified" /\ r.pc # "issue"
        /\ n.op = req[t].op /\ n.call = req[t].call /\ n.id = req[t].id /\ n.pc # "issue"
    BY <1>0, <2>2 DEF Request
  <2>. QED BY <1>m, <2>1, <2>2, <2>3
<1>5. CASE ScanFails(t) \/ ReadFails(t) \/ IssueToken(t) \/ IssueFails(t)
  BY <1>5, <1>i DEF ScanFails, ReadFails, IssueToken, IssueFails, GiveUp
<1>6. CASE RenameTmp(t) \/ RenameFindsNothing(t) \/ WriteFails(t)
  BY <1>6, <1>r DEF RenameTmp, RenameFindsNothing, WriteFails
<1>. QED BY <1>1, <1>2, <1>3, <1>4, <1>5, <1>6 DEF Serve

\* A request that arrives has a purpose.
LEMMA ArrivePurpose ==
  ASSUME TypeInv, NEW t \in Thread, Arrive(t)
  PROVE  Purpose(req'[t])
<1>0. req \in [Thread -> Request]
  BY DEF TypeInv, TypeOK
<1>1. ASSUME NEW i \in Id, NEW c \in Code, NEW a \in SUBSET Access, GrantRequest(t, i, c, a)
      PROVE  Purpose(req'[t])
  BY <1>0, <1>1 DEF GrantRequest, Become, Purpose, Idle
<1>2. ASSUME NEW c \in Code, VerifyRequest(t, c) PROVE Purpose(req'[t])
  BY <1>0, <1>2 DEF VerifyRequest, Become, Purpose, Idle
<1>3. ASSUME NEW i \in Id, NEW op \in Op, DecisionRequest(t, i, op) PROVE Purpose(req'[t])
  BY <1>0, <1>3 DEF DecisionRequest, Become, Purpose, Idle
<1>4. ASSUME NEW i \in Id, NEW right \in BOOLEAN, ContinueRequest(t, i, right)
      PROVE  Purpose(req'[t])
  BY <1>0, <1>4 DEF ContinueRequest, Become, Purpose, Idle
<1>. QED BY <1>1, <1>2, <1>3, <1>4 DEF Arrive

LEMMA ConsentsGrow == [SystemNext]_allVars => consents \subseteq consents'
BY DEF SystemNext, Accepts, Handles, Issue, StartIssue, IssueOpaqueToken, StoreToken,
       TokenStored, IssueRefused, Introspect, Passes, Crashes, allVars, history

\* A step of the system that is not one of a handler disturbs no request but by ending it.
LEMMA RequestsStay ==
  ASSUME TypeInv, [SystemNext]_allVars, NEW u \in Thread
  PROVE  \/ req'[u] = req[u] \/ req'[u] = Idle
         \/ Accepts(u) \/ Handles(u)
<1>0. req \in [Thread -> Request]
  BY DEF TypeInv, TypeOK
<1>1. ASSUME NEW t \in Thread, Accepts(t) \/ Handles(t), t # u PROVE req'[u] = req[u]
  BY <1>1, OthersWait DEF Accepts, Handles
<1>2. ASSUME NEW t \in ASThread, Issue(t) PROVE req'[u] = req[u] \/ req'[u] = Idle
  BY <1>0, <1>2 DEF Issue, StartIssue, IssueOpaqueToken, StoreToken, TokenStored, IssueRefused,
       IssueToken, IssueFails, GiveUp, Become, vars
<1>3. ASSUME NEW t \in ASThread, Introspect(t) PROVE req'[u] = req[u]
  BY <1>3 DEF Introspect, vars
<1>4. Passes \/ UNCHANGED allVars => req'[u] = req[u]
  BY DEF Passes, Tick, allVars, vars
<1>5. Crashes => req'[u] = req[u] \/ req'[u] = Idle
  BY DEF Crashes, Crash
<1>. QED BY <1>1, <1>2, <1>3, <1>4, <1>5 DEF SystemNext

\* Consents are recorded before anything is done with them.
LEMMA ConsentedStep ==
  ASSUME IInv, Consented, [SystemNext]_allVars
  PROVE  Consented'
<1>0. TypeInv /\ Known /\ consents \subseteq consents' /\ [Next]_vars
  BY ConsentsGrow, GrantsStep DEF IInv
<1>1. ASSUME NEW u \in Thread
      PROVE  /\ Purpose(req'[u])
             /\ req'[u].op = "approve" => <<req'[u].id, SubjectOf(u)>> \in consents'
  <2>1. CASE req'[u] = req[u]
    BY <1>0, <2>1 DEF Consented
  <2>2. CASE req'[u] = Idle
    BY <2>2 DEF Idle, Purpose
  <2>3. CASE Accepts(u)
    BY <1>0, <2>3, ArrivePurpose DEF Accepts
  <2>4. CASE Handles(u)
    BY <1>0, <2>4, ServePurpose DEF Handles, Consented
  <2>. QED BY <1>0, <2>1, <2>2, <2>3, <2>4, RequestsStay
<1>2. ASSUME NEW i \in Id, NEW g \in Copies(i)', g.subject # "none"
      PROVE  <<i, g.subject>> \in consents'
  <2>0. \A h \in Copies(i) : h \in Grant /\ (h.subject # "none" => <<i, h.subject>> \in consents)
    BY DEF Copies, Consented
  <2>1. CASE g \in Copies(i)
    BY <1>0, <1>2, <2>0, <2>1
  <2>2. ASSUME NEW h \in Copies(i), g \in {Verified(h), Denied(h), Expired(h)}
        PROVE  <<i, g.subject>> \in consents'
    BY <1>0, <1>2, <2>0, <2>2 DEF Verified, Denied, Expired, Grant
  <2>3. ASSUME NEW h \in Copies(i), NEW t \in Thread, NEW a, g = Approved(h, a, SubjectOf(t)),
               req[t].call = "ApproveGrant", req[t].id = i
        PROVE  <<i, g.subject>> \in consents'
    <3>1. g.subject = SubjectOf(t)
      BY <2>0, <2>3 DEF Approved, Grant
    <3>. QED BY <1>0, <2>3, <3>1 DEF Consented, Purpose
  <2>4. CASE Fresh(g, i)
    BY <1>2, <2>4 DEF Fresh, NewGrant
  <2>5. CASE Next
    BY <1>0, <2>1, <2>2, <2>3, <2>4, <2>5, CopiesStep DEF Grown, Derived
  <2>6. CASE UNCHANGED vars
    <3>1. Copies(i)' = Copies(i)
      BY <2>6 DEF vars, Copies
    <3>. QED BY <2>1, <3>1
  <2>. QED BY <1>0, <2>5, <2>6
<1>. QED BY <1>1, <1>2 DEF Consented, Purpose

-----------------------------------------------------------------------------
(* Tokens and the grants that they are issued from. *)

\* Only IssueOpaqueToken makes a token, for the grant that the request has read.
LEMMA MadeStep ==
  ASSUME [SystemNext]_allVars
  PROVE  \/ UNCHANGED <<made, source>>
         \/ \E t \in ASThread : IssueOpaqueToken(t)
<1>1. ASSUME NEW t \in Thread, Accepts(t) \/ Handles(t) PROVE UNCHANGED <<made, source>>
  BY <1>1 DEF Accepts, Handles, tokenVars, history
<1>2. ASSUME NEW t \in ASThread, StartIssue(t) \/ StoreToken(t) \/ TokenStored(t)
      PROVE  UNCHANGED <<made, source>>
  BY <1>2 DEF StartIssue, StoreToken, TokenStored, history, T!IssueRequest, T!OpenFile,
       T!FillFile, T!CacheRecord
<1>3. ASSUME NEW t \in ASThread, IssueRefused(t) PROVE UNCHANGED <<made, source>>
  BY <1>3 DEF IssueRefused, history, T!vars, T!PutFails
<1>4. ASSUME NEW t \in ASThread, Introspect(t) PROVE UNCHANGED <<made, source>>
  BY <1>4 DEF Introspect, history, T!IntrospectRequest, T!GetByHash, T!ReadFails,
       T!FillCache, T!ReturnFill, T!Answer
<1>5. Passes \/ Crashes \/ UNCHANGED allVars => UNCHANGED <<made, source>>
  BY DEF Passes, Crashes, T!Tick, T!Restart, tokenVars, history,
         allVars
<1>. QED BY <1>1, <1>2, <1>3, <1>4, <1>5 DEF SystemNext, Issue

\* IssueOpaqueToken makes token k for access a, from the grant that was read.
Makes(t, k, a) ==
  /\ made[k] = None /\ made'[k] # None
  /\ made'[k].access = a /\ made'[k].exp = clock + TokenTTL
  /\ source'[k] = [id |-> req[t].id, sub |-> req[t].doc.subject, told |-> req[t].told]
  /\ \A j \in Token : j # k => made'[j] = made[j] /\ source'[j] = source[j]
  /\ treq'[t].pc = "put" /\ treq'[t].token = k /\ treq'[t].got = treq[t].got
  /\ treq'[t].todo = treq[t].todo \ {a} /\ treq'[t].approved = treq[t].approved

LEMMA IssueMakes ==
  ASSUME SystemInv, NEW t \in ASThread, IssueOpaqueToken(t), TP!TypeInv'
  PROVE  \E k \in Token, a \in treq[t].todo : Makes(t, k, a)
<1>0. /\ treq \in [ASThread -> TP!Request] /\ source \in [Token -> Source \cup {None}]
      /\ made \in [Token -> TP!Record \cup {None}]
  BY DEF SystemInv, TP!TokenInv, TP!TypeInv, TP!StoreTypeOK, Sourced
<1>1. PICK k \in Token, a \in treq[t].todo :
        LET rec == [iss |-> treq[t].iss, access |-> a, aud |-> treq[t].aud,
                    exp |-> clock + TokenTTL]
        IN /\ made[k] = None
           /\ made' = [made EXCEPT ![k] = rec]
           /\ T!Become(t, [treq[t] EXCEPT !.pc = "put", !.token = k, !.rec = rec,
                             !.todo = @ \ {a}])
  BY DEF IssueOpaqueToken, T!MakeToken
<1>2. /\ made'[k].access = a /\ made'[k].exp = clock + TokenTTL
      /\ \A j \in Token : j # k => made'[j] = made[j]
  BY <1>0, <1>1
<1>3. /\ treq'[t].pc = "put" /\ treq'[t].token = k /\ treq'[t].got = treq[t].got
      /\ treq'[t].todo = treq[t].todo \ {a} /\ treq'[t].approved = treq[t].approved
      /\ treq'[t].rec = made'[k]
  BY <1>0, <1>1 DEF T!Become, TP!Request
<1>4. /\ source'[k] = [id |-> req[t].id, sub |-> req[t].doc.subject, told |-> req[t].told]
      /\ \A j \in Token : j # k => source'[j] = source[j]
  BY <1>0, <1>3 DEF IssueOpaqueToken
<1>5. made[k] = None
  BY <1>1
<1>6. made'[k] # None
  <2>1. TP!Shape(treq'[t])
    BY DEF TP!TypeInv
  <2>2. made'[k] \in TP!Record
    BY <1>3, <2>1 DEF TP!Shape, TP!Putting
  <2>3. None \notin TP!Record
    BY SystemAssumption DEF TP!Record, T!Record, TP!Time, T!Time
  <2>. QED BY <2>2, <2>3
<1>7. Makes(t, k, a)
  BY <1>2, <1>3, <1>4, <1>5, <1>6 DEF Makes
<1>. QED BY <1>1, <1>7

\* The grant of an issuance was approved, all of it, and is what is on disk now
\* as far as a token depends on it.
LEMMA IssuedIsGranted ==
  ASSUME IInv, Consented, NEW t \in Thread, req[t].pc = "issue"
  PROVE  /\ req[t].id \in Id /\ disk[req[t].id] # None
         /\ req[t].doc.subject \in Subject /\ <<req[t].id, req[t].doc.subject>> \in consents
         /\ "expired" \notin req[t].told /\ req[t].told \in SUBSET {"denied", "expired"}
         /\ req[t].doc.approved # {}
         /\ \A g \in Copies(req[t].id) : g.code \in entered /\ g.requested = req[t].doc.approved
<1>. DEFINE i == req[t].id
            d == req[t].doc
<1>1. /\ i \in Id /\ d \in Grant /\ d.status = "approved" /\ req[t] \in Request
      /\ d # None
  BY NullsAssumption DEF IInv, TypeInv, TypeOK, Shapes, Shape
<1>2. d \in Copies(i)
  BY <1>1, CopyOfFiles
<1>3. disk[i] # None
  BY <1>1 DEF Consented, Purpose, IInv, Known
<1>4. d.approved # {} /\ d.approved = d.requested /\ d.verified /\ d.subject # "none"
  BY <1>1, <1>2 DEF IInv, CopiesConsistent, Consistent
<1>5. d.subject \in Subject /\ <<i, d.subject>> \in consents
  BY <1>1, <1>2, <1>4 DEF Consented, Grant
<1>6. \A g \in Copies(i) : g.code = d.code /\ g.requested = d.requested
  BY <1>1, <1>2 DEF IInv, CopiesAgree, SameGrant
<1>7. d.code \in entered
  BY <1>1, <1>2, <1>4 DEF IInv, CodesEntered
<1>8. "expired" \notin req[t].told /\ req[t].told \in SUBSET {"denied", "expired"}
  BY <1>1 DEF IInv, NoTokenAfterExpiry, Request
<1>. QED BY <1>1, <1>3, <1>4, <1>5, <1>6, <1>7, <1>8

\* What is true of a grant that tokens are issued from remains true.
LEMMA GrantedStays ==
  ASSUME IInv, [SystemNext]_allVars, NEW s \in Source, NEW a, Granted(s, a)
  PROVE  Granted(s, a)'
<1>1. s.id \in Id /\ disk[s.id] # None
  BY DEF Source, Granted
<1>2. /\ disk'[s.id] # None /\ entered \subseteq entered'
      /\ \A g \in Copies(s.id)' : \E h \in Copies(s.id) : SameGrant(g, h)
  BY <1>1, GrantsStep, SameLater
<1>. QED BY <1>2, ConsentsGrow DEF Granted, SameGrant

LEMMA SourcedStep ==
  ASSUME SystemInv, [SystemNext]_allVars, TP!TypeInv'
  PROVE  Sourced'
<1>0. IInv /\ Consented /\ Sourced /\ Linked
  BY DEF SystemInv
<1>1. \A s \in Source : \A a : Granted(s, a) => Granted(s, a)'
  BY <1>0, GrantedStays
<1>2. CASE UNCHANGED <<made, source>>
  BY <1>0, <1>1, <1>2 DEF Sourced
<1>3. ASSUME NEW t \in ASThread, IssueOpaqueToken(t) PROVE Sourced'
  <2>1. PICK k \in Token, a \in treq[t].todo :
          /\ \A j \in Token : j # k => made'[j] = made[j] /\ source'[j] = source[j]
          /\ made'[k].access = a
          /\ source'[k] = [id |-> req[t].id, sub |-> req[t].doc.subject, told |-> req[t].told]
    BY <1>3, IssueMakes DEF Makes
  <2>2. t \in Thread /\ req[t].pc = "issue" /\ a \in req[t].doc.approved
    <3>1. T!At(t, "make")
      BY <1>3 DEF IssueOpaqueToken, T!MakeToken
    <3>2. /\ req[t].pc = "issue" /\ treq[t].todo \subseteq treq[t].approved
          /\ treq[t].approved = req[t].doc.approved
      BY <1>0, <3>1 DEF Linked, Link
    <3>. QED BY <2>1, <3>2 DEF Thread
  <2>3. source'[k] \in Source
    <3>1. /\ req[t].id \in Id /\ req[t].doc.subject \in Subject
          /\ req[t].told \in SUBSET {"denied", "expired"}
      BY <1>0, <2>2, IssuedIsGranted
    <3>. QED BY <2>1, <3>1 DEF Source
  <2>4. \A s \in Source : s = source'[k] => Granted(s, a)'
    <3>1. UNCHANGED vars /\ UNCHANGED consents
      BY <1>3 DEF IssueOpaqueToken
    <3>2. Copies(req[t].id)' = Copies(req[t].id)
      BY <3>1 DEF vars, Copies
    <3>3. ASSUME NEW s \in Source, s = source'[k] PROVE Granted(s, a)'
      <4>1. s.id = req[t].id /\ s.sub = req[t].doc.subject /\ s.told = req[t].told
        BY <2>1, <3>3
      <4>2. Granted(s, a)
        BY <1>0, <2>2, <4>1, IssuedIsGranted DEF Granted
      <4>. QED BY <1>0, <4>2, GrantedStays
    <3>. QED BY <3>3
  <2>5. source' \in [Token -> Source \cup {None}]
    BY <1>0, <1>3, <2>1, <2>3 DEF Sourced, IssueOpaqueToken
  <2>6. ASSUME NEW j \in Token, made'[j] # None
        PROVE  /\ source'[j] \in Source
               /\ \A s \in Source : \A b :
                    s = source'[j] /\ b = made'[j].access => Granted(s, b)'
    <3>1. CASE j = k
      BY <2>1, <2>3, <2>4, <3>1
    <3>2. CASE j # k
      BY <1>0, <1>1, <2>1, <2>6, <3>2 DEF Sourced
    <3>. QED BY <3>1, <3>2
  <2>. QED BY <2>5, <2>6 DEF Sourced
<1>. QED BY <1>2, <1>3, MadeStep

\* What a token was issued from does not change.
LEMMA IssuedStays ==
  ASSUME SystemInv, [SystemNext]_allVars, TP!TypeInv', NEW k \in Token, NEW i, Issued(k, i)
  PROVE  Issued(k, i)'
<1>1. CASE UNCHANGED <<made, source>>
  BY <1>1 DEF Issued
<1>2. ASSUME NEW t \in ASThread, IssueOpaqueToken(t) PROVE Issued(k, i)'
  BY <1>2, IssueMakes DEF Issued, Makes
<1>. QED BY <1>1, <1>2, MadeStep

\* Nothing but its own steps and a crash disturbs the issuance of a goroutine.
LEMMA LinkStays ==
  ASSUME SystemInv, [SystemNext]_allVars, TP!TypeInv', NEW u \in ASThread,
         treq'[u] = treq[u], req'[u] = req[u]
  PROVE  Link(u)'
<1>1. Link(u)
  BY DEF SystemInv, Linked, Link
<1>2. treq[u] \in TP!Request /\ TP!Shape(treq[u])
  BY DEF SystemInv, TP!TokenInv, TP!TypeInv, TP!StoreTypeOK
<1>3. \A k \in treq[u].got : k \in Token
  BY <1>2 DEF TP!Request
<1>4. TP!Putting(treq[u]) => treq[u].token \in Token
  BY <1>2 DEF TP!Shape
<1>5. \A k \in Token : Issued(k, req[u].id) => Issued(k, req[u].id)'
  <2>1. ASSUME NEW k \in Token, NEW i, Issued(k, i) PROVE Issued(k, i)'
    BY <2>1, IssuedStays
  <2>. QED BY <2>1 DEF Issued
<1>. QED BY <1>1, <1>3, <1>4, <1>5 DEF Link, T!At, TP!Putting, Issued

\* The steps of the issuance of a goroutine.
LEMMA LinkMoves ==
  ASSUME SystemInv, NEW t \in ASThread, Issue(t), [SystemNext]_allVars, TP!TypeInv'
  PROVE  Link(t)'
<1>0. /\ treq \in [ASThread -> TP!Request] /\ treq[t] \in TP!Request
      /\ TP!Shape(treq[t]) /\ Link(t)
  BY DEF SystemInv, TP!TokenInv, TP!TypeInv, TP!StoreTypeOK, Linked
<1>1. \A k \in Token, i \in Id : Issued(k, i) => Issued(k, i)'
  BY IssuedStays
<1>2. /\ treq[t].got \subseteq Token
      /\ TP!Putting(treq[t]) => treq[t].token \in Token
  BY <1>0 DEF TP!Request, TP!Shape
<1>3. req[t].pc = "issue" => req[t].id \in Id
  BY DEF SystemInv, IInv, TypeInv, Shapes, Shape, Thread
<1>4. CASE StartIssue(t)
  <2>1. /\ treq'[t].approved = req[t].doc.approved /\ treq'[t].todo = req[t].doc.approved
        /\ treq'[t].got = {} /\ treq'[t].pc = "make"
    BY <1>0, <1>4 DEF StartIssue, T!IssueRequest, T!Become, T!Idle
  <2>. QED BY <1>4, <2>1 DEF StartIssue, Link, vars, TP!Putting
<1>5. CASE IssueOpaqueToken(t)
  <2>1. PICK k \in Token, a \in treq[t].todo : Makes(t, k, a)
    BY <1>5, IssueMakes
  <2>2. T!At(t, "make") /\ UNCHANGED vars
    BY <1>5 DEF IssueOpaqueToken, T!MakeToken
  <2>3. /\ req[t].pc = "issue" /\ treq[t].todo \subseteq treq[t].approved
        /\ treq[t].approved = req[t].doc.approved
        /\ \A j \in treq[t].got : Issued(j, req[t].id)
    BY <1>0, <2>2 DEF Link
  <2>4. \A j \in treq[t].got : Issued(j, req[t].id)'
    <3>1. \A j \in Token, i \in Id : i = req[t].id /\ Issued(j, i)' => Issued(j, req[t].id)'
      BY <2>2 DEF vars, Issued
    <3>. QED BY <1>1, <1>2, <1>3, <2>3, <3>1
  <2>5. Issued(k, req[t].id)'
    BY <2>1, <2>2 DEF Makes, Issued, vars
  <2>. QED BY <2>1, <2>2, <2>3, <2>4, <2>5 DEF Makes, Link, vars
<1>6. ASSUME StoreToken(t) \/ TokenStored(t), treq'[t].pc # "idle" PROVE Link(t)'
  <2>1. /\ TP!Putting(treq[t]) /\ UNCHANGED vars
        /\ treq'[t].approved = treq[t].approved /\ treq'[t].todo = treq[t].todo
        /\ \/ treq'[t].got = treq[t].got /\ treq'[t].token = treq[t].token
           \/ treq'[t].pc = "make" /\ treq'[t].got = treq[t].got \cup {treq[t].token}
    <3>1. CASE StoreToken(t)
      BY <1>0, <3>1 DEF StoreToken, T!OpenFile, T!FillFile, T!At, T!Become, TP!Putting,
           TP!Request
    <3>2. CASE TokenStored(t)
      <4>1. T!At(t, "cache") /\ T!CacheRecord(t)
        BY <3>2 DEF TokenStored, T!CacheRecord
      <4>. DEFINE r == [treq[t] EXCEPT !.got = @ \cup {treq[t].token}]
                  n == [r EXCEPT !.pc = "make", !.token = None, !.rec = None]
      <4>2. r.todo # {} /\ T!Become(t, n)
        <5>1. T!Become(t, T!Idle) \/ (r.todo # {} /\ T!Become(t, n))
          BY <4>1 DEF T!CacheRecord
        <5>2. T!Become(t, T!Idle) => treq'[t].pc = "idle"
          BY <1>0 DEF T!Become, T!Idle
        <5>. QED BY <1>6, <5>1, <5>2
      <4>3. /\ r.todo = treq[t].todo /\ n.pc = "make" /\ n.todo = treq[t].todo
            /\ n.approved = treq[t].approved /\ n.got = treq[t].got \cup {treq[t].token}
        BY <1>0 DEF TP!Request
      <4>4. treq'[t] = n
        BY <1>0, <4>2 DEF T!Become
      <4>5. UNCHANGED vars
        BY <3>2, <4>2, <4>3 DEF TokenStored
      <4>. QED BY <4>1, <4>3, <4>4, <4>5 DEF T!At, TP!Putting
    <3>. QED BY <1>6, <3>1, <3>2
  <2>2. /\ req[t].pc = "issue" /\ treq[t].todo \subseteq treq[t].approved
        /\ treq[t].approved = req[t].doc.approved
        /\ \A j \in treq[t].got \cup {treq[t].token} : Issued(j, req[t].id)
    BY <1>0, <2>1 DEF Link
  <2>3. \A j \in treq[t].got \cup {treq[t].token} : Issued(j, req[t].id)'
    <3>1. \A j \in Token, i \in Id : i = req[t].id /\ Issued(j, i)' => Issued(j, req[t].id)'
      BY <2>1 DEF vars, Issued
    <3>. QED BY <1>1, <1>2, <1>3, <2>1, <2>2, <3>1
  <2>. QED BY <2>1, <2>2, <2>3 DEF Link, TP!Putting, vars
<1>7. ASSUME treq'[t].pc = "idle" PROVE Link(t)'
  BY <1>7 DEF Link, T!At, TP!Putting
<1>8. ASSUME IssueRefused(t) PROVE treq'[t].pc = "idle"
  <2>1. req[t].pc = "issue" /\ t \in Thread
    BY <1>8 DEF IssueRefused, IssueFails, Thread
  <2>2. req[t].doc.approved # {}
    BY <2>1, IssuedIsGranted DEF SystemInv
  <2>. QED BY <1>0, <1>8, <2>2 DEF IssueRefused, T!PutFails, T!Refuse, T!Become, T!Idle
<1>. QED BY <1>4, <1>5, <1>6, <1>7, <1>8 DEF Issue

LEMMA LinkedStep ==
  ASSUME SystemInv, [SystemNext]_allVars, TP!TypeInv'
  PROVE  Linked'
<1>. SUFFICES ASSUME NEW u \in ASThread PROVE Link(u)'
  BY DEF Linked
<1>0. /\ treq \in [ASThread -> TP!Request] /\ req \in [Thread -> Request]
      /\ Link(u) /\ u \in Thread /\ Proc(u) = "as"
  BY ThreadsAssumption
     DEF SystemInv, IInv, TypeInv, TypeOK, TP!TokenInv, TP!TypeInv, TP!StoreTypeOK, Linked,
         Thread, Proc
<1>1. ASSUME treq'[u] = treq[u], req'[u] = req[u] PROVE Link(u)'
  BY <1>1, LinkStays
<1>2. ASSUME treq'[u].pc \notin {"make", "put", "data", "cache"} PROVE Link(u)'
  BY <1>2 DEF Link, T!At, TP!Putting
<1>3. ASSUME NEW t \in Thread, Accepts(t) \/ Handles(t) PROVE Link(u)'
  <2>1. treq' = treq
    BY <1>3 DEF Accepts, Handles, tokenVars
  <2>2. CASE t # u
    <3>1. TypeInv /\ (Arrive(t) \/ Serve(t))
      BY <1>3 DEF Accepts, Handles, SystemInv, IInv
    <3>2. req'[u] = req[u]
      BY <1>0, <2>2, <3>1, OthersWait
    <3>. QED BY <1>1, <2>1, <3>2
  <2>3. CASE t = u
    <3>1. treq[u].pc = "idle" \/ req[u].pc # "issue"
      BY <1>3, <2>3 DEF Accepts, Handles, T!At
    <3>2. treq[u].pc \notin {"make", "put", "data", "cache"}
      BY <1>0, <3>1 DEF Link, T!At, TP!Putting
    <3>. QED BY <1>2, <2>1, <3>2
  <2>. QED BY <2>2, <2>3
<1>4. ASSUME NEW t \in ASThread, Issue(t) PROVE Link(u)'
  <2>1. CASE t = u
    BY <1>4, <2>1, LinkMoves
  <2>2. CASE t # u
    <3>1. treq'[u] = treq[u]
      BY <1>0, <1>4, <2>2 DEF Issue, StartIssue, IssueOpaqueToken, StoreToken, TokenStored,
           IssueRefused, T!IssueRequest, T!MakeToken, T!OpenFile, T!FillFile, T!CacheRecord,
           T!PutFails, T!Refuse, T!Become, T!vars
    <3>2. req'[u] = req[u]
      BY <1>0, <1>4, <2>2 DEF Issue, StartIssue, IssueOpaqueToken, StoreToken, TokenStored,
           IssueRefused, IssueToken, IssueFails, GiveUp, Become, vars, Thread
    <3>. QED BY <1>1, <3>1, <3>2
  <2>. QED BY <2>1, <2>2
<1>5. ASSUME NEW t \in ASThread, Introspect(t) PROVE Link(u)'
  <2>0. req' = req
    BY <1>5 DEF Introspect, vars
  <2>1. treq'[u] = treq[u] \/ treq'[u].pc \in {"get", "fill", "return", "judge", "idle"}
    <3>. DEFINE Goal == treq'[u] = treq[u] \/ treq'[u].pc \in {"get", "fill", "return", "judge", "idle"}
    <3>0. treq[t] \in TP!Request
      BY <1>0
    <3>1. ASSUME NEW r, T!Become(t, r), r.pc \in {"get", "fill", "return", "judge", "idle"}
          PROVE  Goal
      BY <1>0, <3>1 DEF T!Become
    <3>2. ASSUME NEW k \in Token, NEW rs \in RS, NEW asks \in Asked, T!IntrospectRequest(t, k, rs, asks)
          PROVE  Goal
      BY <3>1, <3>2 DEF T!IntrospectRequest, T!Idle
    <3>3. T!GetByHash(t) => Goal
      BY <3>0, <3>1 DEF T!GetByHash, TP!Request
    <3>4. T!ReadFails(t) \/ T!ReturnFill(t) \/ T!Answer(t) => Goal
      BY <3>0, <3>1 DEF T!ReadFails, T!ReturnFill, T!Answer, T!Idle, TP!Request
    <3>5. T!FillCache(t) => Goal
      BY <3>0, <3>1 DEF T!FillCache, TP!Request
    <3>. QED BY <1>5, <3>2, <3>3, <3>4, <3>5 DEF Introspect
  <2>. QED BY <1>1, <1>2, <2>0, <2>1
<1>6. Passes \/ UNCHANGED allVars => treq' = treq /\ req' = req
  BY DEF Passes, Tick, T!Tick, allVars, tokenVars, vars
<1>7. ASSUME NEW p \in Process, Crash(p),
             IF p = "as" THEN T!Restart ELSE UNCHANGED tokenVars
      PROVE  Link(u)'
  <2>1. CASE p = "as"
    BY <1>2, <1>7, <2>1 DEF T!Restart, T!Idle
  <2>2. CASE p # "as"
    <3>1. req'[u] = req[u]
      BY <1>0, <1>7, <2>2 DEF Crash
    <3>. QED BY <1>1, <1>7, <2>2, <3>1 DEF tokenVars
  <2>. QED BY <2>1, <2>2
<1>. QED BY <1>1, <1>3, <1>4, <1>5, <1>6, <1>7 DEF SystemNext, Crashes

\* An answer with tokens is made of one issuance.
LEMMA GivenFromStep ==
  ASSUME SystemInv, [SystemNext]_allVars, TP!TypeInv'
  PROVE  GivenFrom'
<1>0. IInv /\ Consented /\ Linked /\ GivenFrom /\ TP!TypeInv
  BY DEF SystemInv, TP!TokenInv
<1>. DEFINE From(g, i) == /\ disk[i] # None
                          /\ \A k \in g.tokens : Issued(k, i)
                          /\ \A h \in Copies(i) : g.access = h.requested
<1>1. ASSUME NEW g, g.tokens \subseteq Token, NEW i \in Id, From(g, i)
      PROVE  /\ disk'[i] # None
             /\ \A k \in g.tokens : Issued(k, i)'
             /\ \A h \in Copies(i)' : g.access = h.requested
  <2>1. /\ disk'[i] # None
        /\ \A h \in Copies(i)' : \E f \in Copies(i) : SameGrant(h, f)
    BY <1>0, <1>1, GrantsStep, SameLater
  <2>2. \A k \in g.tokens : Issued(k, i)'
    BY <1>1, IssuedStays
  <2>. QED BY <1>1, <2>1, <2>2 DEF SameGrant
<1>2. \A g \in given : g.tokens \subseteq Token
  BY <1>0 DEF TP!TypeInv, TP!StoreTypeOK
<1>3. ASSUME NEW g \in given
      PROVE  \E i \in Id : /\ disk'[i] # None
                           /\ \A k \in g.tokens : Issued(k, i)'
                           /\ \A h \in Copies(i)' : g.access = h.requested
  <2>1. PICK i \in Id : From(g, i)
    BY <1>0 DEF GivenFrom
  <2>. QED BY <1>1, <1>2, <2>1
<1>4. ASSUME NEW t \in ASThread, TokenStored(t), NEW g, g \notin given,
             given' = given \cup {g}
      PROVE  \E i \in Id : /\ disk'[i] # None
                           /\ \A k \in g.tokens : Issued(k, i)'
                           /\ \A h \in Copies(i)' : g.access = h.requested
  <2>. DEFINE i == req[t].id
  <2>0. /\ treq[t] \in TP!Request /\ treq[t].token \in Token /\ treq[t].got \subseteq Token
        /\ T!At(t, "cache")
    BY <1>0, <1>4 DEF TokenStored, T!CacheRecord, T!At, TP!TypeInv, TP!StoreTypeOK, TP!Shape,
         TP!Putting, TP!Request
  <2>1. /\ t \in Thread /\ req[t].pc = "issue"
        /\ treq[t].approved = req[t].doc.approved
        /\ \A k \in treq[t].got \cup {treq[t].token} : Issued(k, i)
    BY <1>0, <2>0 DEF Linked, Link, TP!Putting, T!At, Thread
  <2>2. g.access = treq[t].approved /\ g.tokens = treq[t].got \cup {treq[t].token}
    <3>. DEFINE r == [treq[t] EXCEPT !.got = @ \cup {treq[t].token}]
    <3>1. given' = given \cup {[access |-> r.approved, tokens |-> r.got]}
      BY <1>4 DEF TokenStored, T!CacheRecord
    <3>2. g = [access |-> r.approved, tokens |-> r.got]
      BY <1>4, <3>1
    <3>3. r.approved = treq[t].approved /\ r.got = treq[t].got \cup {treq[t].token}
      BY <2>0 DEF TP!Request
    <3>. QED BY <3>2, <3>3
  <2>3. /\ i \in Id /\ disk[i] # None
        /\ \A h \in Copies(i) : h.requested = req[t].doc.approved
    BY <1>0, <2>1, IssuedIsGranted
  <2>4. From(g, i) /\ g.tokens \subseteq Token
    BY <2>0, <2>1, <2>2, <2>3
  <2>. HIDE DEF i, From
  <2>. QED BY <1>1, <2>3, <2>4
<1>5. \/ given' = given
      \/ \E t \in ASThread : TokenStored(t) /\ \E g : g \notin given /\ given' = given \cup {g}
  <2>1. ASSUME NEW t \in Thread, Accepts(t) \/ Handles(t) PROVE given' = given
    BY <2>1 DEF Accepts, Handles, tokenVars
  <2>2. ASSUME NEW t \in ASThread, StartIssue(t) \/ IssueOpaqueToken(t) \/ StoreToken(t) \/ IssueRefused(t)
        PROVE  given' = given
    BY <2>2 DEF StartIssue, IssueOpaqueToken, StoreToken, IssueRefused, T!IssueRequest,
         T!MakeToken, T!OpenFile, T!FillFile, T!PutFails, T!Refuse, T!vars, T!Seen
  <2>3. ASSUME NEW t \in ASThread, TokenStored(t)
        PROVE  given' = given \/ \E g : g \notin given /\ given' = given \cup {g}
    BY <2>3 DEF TokenStored, T!CacheRecord
  <2>4. ASSUME NEW t \in ASThread, Introspect(t) PROVE given' = given
    BY <2>4 DEF Introspect, T!IntrospectRequest, T!GetByHash, T!ReadFails, T!FillCache,
         T!ReturnFill, T!Answer, T!Seen
  <2>5. Passes \/ Crashes \/ UNCHANGED allVars => given' = given
    BY DEF Passes, Crashes, T!Tick, T!Restart, tokenVars, allVars,
           T!Seen
  <2>. QED BY <2>1, <2>2, <2>3, <2>4, <2>5 DEF SystemNext, Issue
<1>. QED BY <1>3, <1>4, <1>5 DEF GivenFrom

\* No token is made for a client who came after the grant was told to be denied,
\* if no issuance is for such a client.
LEMMA UndeniedStep ==
  ASSUME SystemInv, Undenied, NoTokenAfterDenial, [SystemNext]_allVars, TP!TypeInv'
  PROVE  Undenied'
<1>1. CASE UNCHANGED <<made, source>>
  BY <1>1 DEF Undenied
<1>2. ASSUME NEW t \in ASThread, IssueOpaqueToken(t) PROVE Undenied'
  <2>1. PICK k \in Token, a \in treq[t].todo : Makes(t, k, a)
    BY <1>2, IssueMakes
  <2>2. T!At(t, "make") /\ Link(t) /\ t \in Thread
    BY <1>2 DEF IssueOpaqueToken, T!MakeToken, SystemInv, Linked, Thread
  <2>3. "denied" \notin req[t].told
    BY <2>2 DEF Link, NoTokenAfterDenial
  <2>. QED BY <2>1, <2>3 DEF Makes, Undenied
<1>. QED BY <1>1, <1>2, MadeStep

-----------------------------------------------------------------------------
(* What holds of the whole server. *)

LEMMA SystemInvariance == SystemSpec => []SystemInv
<1>1. SystemInit => Consented /\ Sourced /\ Linked /\ GivenFrom
  <2>1. SystemInit => Consented
    <3>1. SystemInit => \A i \in Id : Copies(i) = {}
      <4>. SUFFICES ASSUME SystemInit, NEW i \in Id PROVE Copies(i) = {}
        OBVIOUS
      <4>1. /\ disk[i] = None /\ tmp[i] = None
            /\ \A t \in Thread : req[t].doc = None
        BY DEF SystemInit, Init, Idle
      <4>. QED BY <4>1, NullsAssumption DEF Copies
    <3>2. SystemInit => \A t \in Thread : Purpose(req[t]) /\ req[t].op # "approve"
      BY DEF SystemInit, Init, Purpose, Idle
    <3>. QED BY <3>1, <3>2 DEF Consented
  <2>2. SystemInit => Sourced
    BY DEF SystemInit, T!Init, Sourced
  <2>3. SystemInit => Linked
    BY DEF SystemInit, T!Init, T!Idle, Linked, Link, T!At, TP!Putting
  <2>4. SystemInit => GivenFrom
    BY DEF SystemInit, T!Init, GivenFrom
  <2>. QED BY <2>1, <2>2, <2>3, <2>4
<1>2. SystemInv /\ [SystemNext]_allVars /\ IInv' /\ TP!TokenInv' => SystemInv'
  <2>1. TP!TokenInv' => TP!TypeInv'
    BY DEF TP!TokenInv
  <2>2. SystemInv /\ [SystemNext]_allVars => Consented'
    BY ConsentedStep DEF SystemInv
  <2>. QED BY <2>1, <2>2, SourcedStep, LinkedStep, GivenFromStep DEF SystemInv
<1>3. IInv /\ TP!TokenInv /\ Consented /\ Sourced /\ Linked /\ GivenFrom <=> SystemInv
  BY DEF SystemInv
<1>. QED BY <1>1, <1>2, <1>3, StoresHold, PTL DEF SystemSpec

\* A token that a resource server is told is active was issued from a grant that
\* somebody of the subject's name consented to, whose code was entered and whose
\* client asked for the access (Introspect, IssueToken).
THEOREM ActiveMeansGranted == SystemSpec => []ActiveWasGranted
<1>1. SystemInv => ActiveWasGranted
  <2>. SUFFICES ASSUME SystemInv, NEW t \in ASThread, T!At(t, "judge"), T!Active(t)
                PROVE  LET s == source[treq[t].token]
                           g == disk[s.id]
                       IN  /\ s # None /\ <<s.id, s.sub>> \in consents /\ "expired" \notin s.told
                           /\ Readable(s.id) => g.code \in entered /\ treq[t].rec.access \in g.requested
    BY DEF ActiveWasGranted
  <2>. DEFINE k == treq[t].token
              s == source[k]
  <2>1. k \in Token /\ made[k] # None /\ treq[t].rec = made[k]
    BY DEF SystemInv, TP!TokenInv, TP!TypeInv, TP!Shape, TP!AsMade, TP!Reading, T!At, T!Active
  <2>2. s \in Source /\ Granted(s, made[k].access)
    BY <2>1 DEF SystemInv, Sourced
  <2>3. s # None
    BY <2>2, SystemAssumption
  <2>4. Readable(s.id) => disk[s.id] \in Copies(s.id)
    BY <2>2 DEF Source, Readable, Copies
  <2>. QED BY <2>1, <2>2, <2>3, <2>4 DEF Granted
<1>. QED BY <1>1, SystemInvariance, PTL

\* The tokens of an answer are from one grant, one for each access that its
\* client asked for (IssueToken).
THEOREM GivenMeansRequested == SystemSpec => []GivenWasRequested
<1>1. SystemInv => GivenWasRequested
  <2>. SUFFICES ASSUME SystemInv, NEW g \in given
                PROVE  \E i \in Id :
                         /\ \A k \in g.tokens : source[k] # None /\ source[k].id = i
                         /\ Readable(i) => {made[k].access : k \in g.tokens} = disk[i].requested
    BY DEF GivenWasRequested
  <2>1. PICK i \in Id : /\ disk[i] # None
                        /\ \A k \in g.tokens : Issued(k, i)
                        /\ \A h \in Copies(i) : g.access = h.requested
    BY DEF SystemInv, GivenFrom
  <2>2. /\ g.tokens \subseteq Token
        /\ \A a \in g.access : \E k \in g.tokens : made[k].access = a
    BY DEF SystemInv, TP!TokenInv, TP!TypeInv, TP!StoreTypeOK, TP!Complete
  <2>3. \A k \in g.tokens : /\ source[k] # None /\ source[k].id = i
                            /\ Granted(source[k], made[k].access)
    BY <2>1, <2>2, SystemAssumption DEF SystemInv, Sourced, Issued
  <2>4. ASSUME Readable(i) PROVE {made[k].access : k \in g.tokens} = disk[i].requested
    <3>1. disk[i] \in Copies(i)
      BY <2>4 DEF Readable, Copies
    <3>2. \A k \in g.tokens : made[k].access \in disk[i].requested
      BY <2>3, <3>1 DEF Granted
    <3>3. \A a \in disk[i].requested : \E k \in g.tokens : made[k].access = a
      BY <2>1, <2>2, <3>1
    <3>. QED BY <3>2, <3>3
  <2>. QED BY <2>3, <2>4
<1>. QED BY <1>1, SystemInvariance, PTL

\* With one process a denial reaches the resource servers: no token is active
\* that was issued to a client who came after it (DenyGrant, IssueToken).
THEOREM DenialReachesTokens ==
  ASSUME PGThread = {}
  PROVE  SystemSpec => []NoActiveAfterDenial
<1>1. SystemSpec => []NoTokenAfterDenial
  BY SystemImplementsGrants, DenialIsFinal, PTL
<1>2. SystemInit => Undenied
  BY DEF SystemInit, T!Init, Undenied
<1>3. SystemInv /\ NoTokenAfterDenial /\ Undenied /\ [SystemNext]_allVars /\ SystemInv' => Undenied'
  <2>1. SystemInv' => TP!TypeInv'
    BY DEF SystemInv, TP!TokenInv
  <2>. QED BY <2>1, UndeniedStep
<1>4. SystemInv /\ Undenied => NoActiveAfterDenial
  <2>. SUFFICES ASSUME SystemInv, Undenied, NEW t \in ASThread, T!At(t, "judge"), T!Active(t)
                PROVE  "denied" \notin source[treq[t].token].told
    BY DEF NoActiveAfterDenial
  <2>1. treq[t].token \in Token /\ made[treq[t].token] # None
    BY DEF SystemInv, TP!TokenInv, TP!TypeInv, TP!Shape, TP!AsMade, TP!Reading, T!At, T!Active
  <2>. QED BY <2>1 DEF Undenied
<1>. QED BY <1>1, <1>2, <1>3, <1>4, SystemInvariance, PTL DEF SystemSpec
=============================================================================
