--------------------------- MODULE GrantStoreProofs ---------------------------
(***************************************************************************)
(* Proofs about GrantStore, for any number of goroutines in the two        *)
(* processes, any ids, codes and accesses, and any bounds.                 *)
(***************************************************************************)
EXTENDS GrantStore, TLAPS

(***************************************************************************)
(* The shape of a request in each step of its handler.                     *)
(***************************************************************************)
Shape(r) ==
  /\ Writing(r) \/ r.pc = "issue" => r.id \in Id /\ r.doc \in Grant
  /\ r.call \in {"MarkCodeVerified", "GetGrant", "ApproveGrant", "DenyGrant"} => r.id \in Id
  /\ r.call \in {"CreateGrant", "ApproveGrant"} => r.id \in Id /\ r.doc \in Grant
  /\ r.call \in {"none", "FindGrant"} => r.doc = None /\ r.told = {}
  /\ Writing(r) /\ r.call = "GetGrant" => r.doc.status = "expired"
  /\ Writing(r) /\ r.call = "DenyGrant" => r.doc.status \in {"denied", "expired"}
  /\ r.pc = "issue" => r.doc.status = "approved"

Shapes == \A t \in Thread : Shape(req[t])

TypeInv == TypeOK /\ Shapes

\* The changes the store makes to a grant keep its type and what identifies it.
LEMMA ChangedGrants ==
  ASSUME NEW g \in Grant, NEW a \in SUBSET Access, NEW s \in Subject
  PROVE  /\ Verified(g) \in Grant
         /\ Approved(g, a, s) \in Grant
         /\ Denied(g) \in Grant /\ Denied(g).status = "denied"
         /\ Expired(g) \in Grant /\ Expired(g).status = "expired"
BY DEF Grant, Verified, Approved, Denied, Expired, Status, Subject

\* A goroutine that becomes a well-formed request leaves all of them so.
LEMMA BecomesOK ==
  ASSUME TypeInv, NEW t \in Thread, NEW r \in Request, Shape(r), Become(t, r)
  PROVE  req' \in [Thread -> Request] /\ Shapes'
BY DEF TypeInv, TypeOK, Shapes, Become

LEMMA IdleOK == Idle \in Request /\ Shape(Idle)
BY DEF Idle, Request, Shape, Writing

\* What a handler does after GetGrant keeps the types.
LEMMA AfterGetOK ==
  ASSUME TypeInv, NEW t \in Thread, NEW g \in Grant, req[t].id \in Id,
         req[t].call = "GetGrant", AfterGet(t, g)
  PROVE  /\ req' \in [Thread -> Request] /\ Shapes'
         /\ told' \in [Id -> SUBSET {"denied", "expired"}]
<1>. req[t] \in Request /\ told \in [Id -> SUBSET {"denied", "expired"}]
  BY DEF TypeInv, TypeOK
<1>1. CASE req[t].op = "approve"
  <2>. DEFINE r == [req[t] EXCEPT !.pc = "call", !.call = "ApproveGrant", !.doc = g]
  <2>1. r \in Request /\ Shape(r)
    BY DEF Request, Shape, Writing, Call
  <2>2. Become(t, r) /\ UNCHANGED told
    BY <1>1 DEF AfterGet, MayIssue
  <2>. QED BY <2>1, <2>2, BecomesOK
<1>2. CASE req[t].op = "deny"
  <2>. DEFINE r == [req[t] EXCEPT !.pc = "call", !.call = "DenyGrant", !.doc = None]
  <2>1. r \in Request /\ Shape(r)
    BY DEF Request, Shape, Writing, Call
  <2>2. Become(t, r) /\ UNCHANGED told
    BY <1>2 DEF AfterGet, MayIssue
  <2>. QED BY <2>1, <2>2, BecomesOK
<1>3. CASE MayIssue(t, g)
  <2>. DEFINE r == [req[t] EXCEPT !.pc = "issue", !.doc = g]
  <2>1. r \in Request /\ Shape(r)
    BY <1>3 DEF Request, Shape, Writing, MayIssue
  <2>2. Become(t, r) /\ UNCHANGED told
    BY <1>3 DEF AfterGet, MayIssue
  <2>. QED BY <2>1, <2>2, BecomesOK
<1>4. CASE req[t].op = "continue" /\ ~MayIssue(t, g)
  <2>1. /\ Become(t, Idle)
        /\ told' = IF req[t].auth /\ g.status \in {"denied", "expired"}
                   THEN [told EXCEPT ![req[t].id] = @ \cup {g.status}]
                   ELSE told
    BY <1>4 DEF AfterGet
  <2>. QED BY <2>1, IdleOK, BecomesOK
<1>. QED BY <1>1, <1>2, <1>3, <1>4 DEF AfterGet

\* What a write does as it returns keeps the types.
LEMMA WriteReturnsOK ==
  ASSUME TypeInv, NEW t \in Thread, NEW ok \in BOOLEAN, Writing(req[t]),
         WriteReturns(t, ok)
  PROVE  /\ req' \in [Thread -> Request] /\ Shapes'
         /\ told' \in [Id -> SUBSET {"denied", "expired"}]
         /\ mutex' \in [Process -> Thread \cup {None}]
<1>. /\ req[t] \in Request /\ Shape(req[t])
     /\ told \in [Id -> SUBSET {"denied", "expired"}]
     /\ mutex \in [Process -> Thread \cup {None}]
  BY DEF TypeInv, TypeOK, Shapes
<1>. req[t].id \in Id /\ req[t].doc \in Grant
  BY DEF Shape
<1>1. mutex' \in [Process -> Thread \cup {None}]
  BY DEF WriteReturns, Unlock
<1>2. CASE req[t].call = "GetGrant"
  BY <1>1, <1>2, AfterGetOK DEF WriteReturns
<1>3. CASE req[t].call # "GetGrant"
  <2>1. Become(t, Idle)
    BY <1>3 DEF WriteReturns
  <2>2. told' \in [Id -> SUBSET {"denied", "expired"}]
    BY <1>3 DEF WriteReturns, Shape
  <2>. QED BY <1>1, <2>1, <2>2, IdleOK, BecomesOK
<1>. QED BY <1>2, <1>3

\* A request that starts to write a grant keeps the types.
LEMMA WriteOK ==
  ASSUME TypeInv, NEW t \in Thread, NEW g \in Grant, Write(t, g),
         req[t].id \in Id, req[t].call \notin {"none", "FindGrant"},
         req[t].call = "GetGrant" => g.status = "expired",
         req[t].call = "DenyGrant" => g.status \in {"denied", "expired"}
  PROVE  /\ req' \in [Thread -> Request] /\ Shapes'
         /\ mutex' \in [Process -> Thread \cup {None}]
<1>. DEFINE r == [req[t] EXCEPT !.pc = "open", !.doc = g]
<1>1. req[t] \in Request /\ Shape(req[t]) /\ mutex \in [Process -> Thread \cup {None}]
  BY DEF TypeInv, TypeOK, Shapes
<1>2. r \in Request /\ Shape(r)
  BY <1>1 DEF Request, Shape, Writing
<1>3. Become(t, r)
  BY DEF Write
<1>4. mutex' \in [Process -> Thread \cup {None}]
  BY <1>1 DEF Write, Proc, Process
<1>. QED BY <1>2, <1>3, <1>4, BecomesOK

\* What a write leaves in the files keeps their types.
LEMMA PutOK ==
  ASSUME TypeInv, NEW t \in Thread, NEW c \in Content, req[t].id \in Id, Put(t, c)
  PROVE  /\ disk' \in [Id -> Content] /\ tmp' \in [Id -> Content]
         /\ fd' \in [Thread -> {"none", "tmp", "disk", "lost"}]
BY DEF TypeInv, TypeOK, Put

LEMMA InitTypeInv == Init => TypeInv
<1>. SUFFICES ASSUME Init PROVE TypeInv
  OBVIOUS
<1>1. Shapes
  BY IdleOK DEF Init, Shapes
<1>2. TypeOK
  BY IdleOK, GrantsAssumption, BoundsAssumption
  DEF Init, TypeOK, Content, Process, Time
<1>. QED BY <1>1, <1>2 DEF TypeInv

LEMMA StepTypeInv == TypeInv /\ [Next]_vars => TypeInv'
<1>. SUFFICES ASSUME TypeInv, [Next]_vars PROVE TypeInv'
  OBVIOUS
<1>. USE DEF Files, Ghosts, Bounds
<1>0. TypeOK /\ Shapes
  BY DEF TypeInv
<1>a. ASSUME NEW t \in Thread, Arrive(t) PROVE TypeInv'
  <2>1. ASSUME NEW i \in Id, NEW c \in Code, NEW a \in SUBSET Access,
               GrantRequest(t, i, c, a)
        PROVE  TypeInv'
    <3>. DEFINE r == [Idle EXCEPT !.op = "grant", !.call = "CreateGrant",
                        !.pc = "call", !.id = i, !.doc = NewGrant(c, a, Expiration)]
    <3>1. NewGrant(c, a, Expiration) \in Grant
      BY <1>0, <2>1, GrantsAssumption
      DEF GrantRequest, NewGrant, Grant, Expiration, Status, Time, TypeOK
    <3>2. r \in Request /\ Shape(r)
      BY <3>1 DEF Idle, Request, Shape, Writing, Op, Call
    <3>3. req' \in [Thread -> Request] /\ Shapes'
      BY <2>1, <3>2, BecomesOK DEF GrantRequest
    <3>. QED BY <1>0, <2>1, <3>3 DEF GrantRequest, TypeInv, TypeOK
  <2>2. ASSUME NEW c \in Code, VerifyRequest(t, c) PROVE TypeInv'
    <3>. DEFINE r == [Idle EXCEPT !.op = "verify", !.call = "FindGrant",
                        !.pc = "call", !.code = c]
    <3>1. r \in Request /\ Shape(r)
      BY DEF Idle, Request, Shape, Writing, Op, Call
    <3>2. req' \in [Thread -> Request] /\ Shapes'
      BY <2>2, <3>1, BecomesOK DEF VerifyRequest
    <3>. QED BY <1>0, <2>2, <3>2 DEF VerifyRequest, TypeInv, TypeOK
  <2>3. ASSUME NEW i \in Id, NEW op \in Op, DecisionRequest(t, i, op) PROVE TypeInv'
    <3>. DEFINE r == [Idle EXCEPT !.op = op, !.call = "GetGrant", !.pc = "call", !.id = i]
    <3>1. r \in Request /\ Shape(r)
      BY DEF Idle, Request, Shape, Writing, Call
    <3>2. req' \in [Thread -> Request] /\ Shapes'
      BY <2>3, <3>1, BecomesOK DEF DecisionRequest
    <3>. QED BY <1>0, <2>3, <3>2 DEF DecisionRequest, TypeInv, TypeOK
  <2>4. ASSUME NEW i \in Id, NEW right \in BOOLEAN, ContinueRequest(t, i, right)
        PROVE  TypeInv'
    <3>. DEFINE r == [Idle EXCEPT !.op = "continue", !.call = "GetGrant", !.pc = "call",
                        !.id = i, !.auth = right, !.told = told[i]]
    <3>1. r \in Request /\ Shape(r)
      BY <1>0 DEF Idle, Request, Shape, Writing, Op, Call, TypeOK
    <3>2. req' \in [Thread -> Request] /\ Shapes'
      BY <2>4, <3>1, BecomesOK DEF ContinueRequest
    <3>. QED BY <1>0, <2>4, <3>2 DEF ContinueRequest, TypeInv, TypeOK
  <2>. QED BY <1>a, <2>1, <2>2, <2>3, <2>4 DEF Arrive
<1>b. ASSUME NEW t \in Thread, Serve(t) PROVE TypeInv'
  <2>0. /\ req[t] \in Request /\ Shape(req[t])
        /\ \A i \in Id : disk[i] \in Content /\ tmp[i] \in Content
    BY <1>0 DEF TypeOK, Shapes
  <2>a. ASSUME GiveUp(t) PROVE req' \in [Thread -> Request] /\ Shapes' /\ mutex' = mutex
    BY <2>a, IdleOK, BecomesOK DEF GiveUp
  <2>1. CASE CreateGrant(t)
    <3>1. req[t].id \in Id /\ req[t].doc \in Grant /\ req[t].call = "CreateGrant"
      BY <2>0, <2>1 DEF CreateGrant, At, Shape
    <3>2. /\ req' \in [Thread -> Request] /\ Shapes'
          /\ mutex' \in [Process -> Thread \cup {None}]
      BY <2>1, <3>1, WriteOK DEF CreateGrant
    <3>. QED BY <1>0, <2>1, <3>2 DEF CreateGrant, TypeInv, TypeOK
  <2>2. CASE MarkCodeVerified(t)
    <3>. DEFINE i == req[t].id
    <3>1. i \in Id /\ req[t].call = "MarkCodeVerified"
      BY <2>0, <2>2 DEF MarkCodeVerified, At, Shape
    <3>2. /\ req' \in [Thread -> Request] /\ Shapes'
          /\ mutex' \in [Process -> Thread \cup {None}]
      <4>1. CASE Readable(i) /\ Write(t, Verified(disk[i]))
        <5>1. Verified(disk[i]) \in Grant
          BY <4>1 DEF Readable, Verified, Grant
        <5>. QED BY <3>1, <4>1, <5>1, WriteOK
      <4>2. CASE GiveUp(t)
        BY <1>0, <4>2, <2>a DEF TypeOK
      <4>. QED BY <2>2, <4>1, <4>2 DEF MarkCodeVerified
    <3>. QED BY <1>0, <2>2, <3>2 DEF MarkCodeVerified, TypeInv, TypeOK
  <2>3. CASE GetGrant(t)
    <3>. DEFINE i == req[t].id
    <3>1. i \in Id /\ req[t].call = "GetGrant"
      BY <2>0, <2>3 DEF GetGrant, At, Shape
    <3>2. /\ req' \in [Thread -> Request] /\ Shapes'
          /\ mutex' \in [Process -> Thread \cup {None}]
          /\ told' \in [Id -> SUBSET {"denied", "expired"}]
      <4>1. CASE GiveUp(t) /\ UNCHANGED told
        BY <1>0, <4>1, <2>a DEF TypeOK
      <4>2. CASE Readable(i) /\ Write(t, Expired(disk[i])) /\ UNCHANGED told
        <5>1. Expired(disk[i]) \in Grant /\ Expired(disk[i]).status = "expired"
          BY <4>2 DEF Readable, Expired, Grant, Status
        <5>2. /\ req' \in [Thread -> Request] /\ Shapes'
              /\ mutex' \in [Process -> Thread \cup {None}]
          BY <3>1, <4>2, <5>1, WriteOK
        <5>. QED BY <1>0, <4>2, <5>2 DEF TypeOK
      <4>3. CASE Readable(i) /\ AfterGet(t, disk[i]) /\ UNCHANGED mutex
        <5>1. disk[i] \in Grant
          BY <4>3 DEF Readable
        <5>2. /\ req' \in [Thread -> Request] /\ Shapes'
              /\ told' \in [Id -> SUBSET {"denied", "expired"}]
          BY <3>1, <4>3, <5>1, AfterGetOK
        <5>. QED BY <1>0, <4>3, <5>2 DEF TypeOK
      <4>. QED BY <2>3, <4>1, <4>2, <4>3 DEF GetGrant
    <3>. QED BY <1>0, <2>3, <3>2 DEF GetGrant, TypeInv, TypeOK
  <2>4. CASE ApproveGrant(t)
    <3>. DEFINE i == req[t].id
                asked == IF t \in ASThread THEN req[t].doc.approved
                                           ELSE req[t].doc.requested
                g == Approved(disk[i], asked, SubjectOf(t))
    <3>1. i \in Id /\ req[t].call = "ApproveGrant" /\ req[t].doc \in Grant
      BY <2>0, <2>4 DEF ApproveGrant, At, Shape
    <3>2. /\ req' \in [Thread -> Request] /\ Shapes'
          /\ mutex' \in [Process -> Thread \cup {None}]
      <4>1. CASE Readable(i) /\ Write(t, g)
        <5>1. asked \in SUBSET Access /\ SubjectOf(t) \in Subject
          BY <3>1 DEF Grant, SubjectOf, Subject
        <5>2. g \in Grant
          BY <4>1, <5>1, ChangedGrants DEF Readable
        <5>. QED BY <3>1, <4>1, <5>2, WriteOK
      <4>2. CASE GiveUp(t)
        BY <1>0, <4>2, <2>a DEF TypeOK
      <4>. QED BY <2>4, <4>1, <4>2 DEF ApproveGrant
    <3>. QED BY <1>0, <2>4, <3>2 DEF ApproveGrant, TypeInv, TypeOK
  <2>5. CASE DenyGrant(t)
    <3>. DEFINE i == req[t].id
                g == IF Overdue(disk[i]) THEN Expired(disk[i]) ELSE Denied(disk[i])
    <3>1. i \in Id /\ req[t].call = "DenyGrant"
      BY <2>0, <2>5 DEF DenyGrant, At, Shape
    <3>2. /\ req' \in [Thread -> Request] /\ Shapes'
          /\ mutex' \in [Process -> Thread \cup {None}]
      <4>1. CASE Readable(i) /\ Write(t, g)
        <5>1. g \in Grant /\ g.status \in {"denied", "expired"}
          BY <4>1 DEF Readable, Expired, Denied, Grant, Status
        <5>. QED BY <3>1, <4>1, <5>1, WriteOK
      <4>2. CASE GiveUp(t)
        BY <1>0, <4>2, <2>a DEF TypeOK
      <4>. QED BY <2>5, <4>1, <4>2 DEF DenyGrant
    <3>. QED BY <1>0, <2>5, <3>2 DEF DenyGrant, TypeInv, TypeOK
  <2>6. CASE ListGrants(t)
    <3>. DEFINE r == [req[t] EXCEPT !.pc = "scan", !.todo = {i \in Id : disk[i] # None}]
    <3>1. r \in Request /\ Shape(r)
      BY <2>0, <2>6 DEF ListGrants, At, Request, Shape, Writing
    <3>2. req' \in [Thread -> Request] /\ Shapes'
      BY <2>6, <3>1, BecomesOK DEF ListGrants
    <3>. QED BY <1>0, <2>6, <3>2 DEF ListGrants, TypeInv, TypeOK
  <2>7. CASE ScanGrant(t)
    <3>1. PICK i \in req[t].todo :
            \/ Become(t, [req[t] EXCEPT !.pc = "call", !.call = "MarkCodeVerified",
                            !.id = i, !.todo = {}])
            \/ Become(t, [req[t] EXCEPT !.todo = @ \ {i}])
      BY <2>7 DEF ScanGrant
    <3>2. i \in Id /\ fails' \in 0..MaxFail
      BY <1>0, <2>0, <2>7, <3>1, BoundsAssumption DEF Request, ScanGrant, TypeOK
    <3>3. CASE Become(t, [req[t] EXCEPT !.pc = "call", !.call = "MarkCodeVerified",
                            !.id = i, !.todo = {}])
      <4>. DEFINE r == [req[t] EXCEPT !.pc = "call", !.call = "MarkCodeVerified",
                          !.id = i, !.todo = {}]
      <4>1. r \in Request /\ Shape(r)
        BY <2>0, <3>2 DEF Request, Shape, Writing, Call
      <4>2. req' \in [Thread -> Request] /\ Shapes'
        BY <3>3, <4>1, BecomesOK
      <4>. QED BY <1>0, <2>7, <3>2, <4>2 DEF ScanGrant, TypeInv, TypeOK
    <3>4. CASE Become(t, [req[t] EXCEPT !.todo = @ \ {i}])
      <4>. DEFINE r == [req[t] EXCEPT !.todo = @ \ {i}]
      <4>1. r \in Request /\ Shape(r)
        BY <2>0 DEF Request, Shape, Writing
      <4>2. req' \in [Thread -> Request] /\ Shapes'
        BY <3>4, <4>1, BecomesOK
      <4>. QED BY <1>0, <2>7, <3>2, <4>2 DEF ScanGrant, TypeInv, TypeOK
    <3>. QED BY <3>1, <3>3, <3>4
  <2>8. CASE ScanFails(t)
    BY <1>0, <2>8, <2>a DEF ScanFails, TypeInv, TypeOK
  <2>9. CASE OpenTmp(t)
    <3>. DEFINE r == [req[t] EXCEPT !.pc = "data"]
    <3>1. r \in Request /\ Shape(r)
      BY <2>0, <2>9 DEF OpenTmp, Request, Shape, Writing
    <3>2. req' \in [Thread -> Request] /\ Shapes'
      BY <2>9, <3>1, BecomesOK DEF OpenTmp
    <3>3. tmp' \in [Id -> Content] /\ fd' \in [Thread -> {"none", "tmp", "disk", "lost"}]
      BY <1>0, <2>9 DEF OpenTmp, TypeOK, Content
    <3>. QED BY <1>0, <2>9, <3>2, <3>3 DEF OpenTmp, TypeInv, TypeOK
  <2>10. CASE WriteData(t)
    <3>. DEFINE r == [req[t] EXCEPT !.pc = "rename"]
    <3>1. req[t].id \in Id /\ req[t].doc \in Grant
      BY <2>0, <2>10 DEF WriteData, Shape, Writing
    <3>2. r \in Request /\ Shape(r)
      BY <2>0, <2>10 DEF WriteData, Request, Shape, Writing
    <3>3. req' \in [Thread -> Request] /\ Shapes'
      BY <2>10, <3>2, BecomesOK DEF WriteData
    <3>4. PICK c \in {req[t].doc, Torn} : Put(t, c)
      BY <2>10 DEF WriteData
    <3>5. c \in Content
      BY <3>1, <3>4 DEF Content
    <3>. QED BY <1>0, <2>10, <3>1, <3>3, <3>4, <3>5, PutOK
             DEF WriteData, TypeInv, TypeOK
  <2>11. CASE RenameTmp(t)
    <3>1. Writing(req[t]) /\ req[t].id \in Id
      BY <2>0, <2>11 DEF RenameTmp, Shape, Writing
    <3>2. /\ req' \in [Thread -> Request] /\ Shapes'
          /\ told' \in [Id -> SUBSET {"denied", "expired"}]
          /\ mutex' \in [Process -> Thread \cup {None}]
      BY <2>11, <3>1, WriteReturnsOK DEF RenameTmp
    <3>3. disk' \in [Id -> Content] /\ tmp' \in [Id -> Content]
      BY <1>0, <2>11, <3>1 DEF RenameTmp, TypeOK, Content
    <3>4. fd' \in [Thread -> {"none", "tmp", "disk", "lost"}]
      BY <1>0, <2>11 DEF RenameTmp, TypeOK, Moved
    <3>. QED BY <1>0, <2>11, <3>2, <3>3, <3>4 DEF RenameTmp, TypeInv, TypeOK
  <2>12. CASE RenameFindsNothing(t)
    <3>1. Writing(req[t])
      BY <2>12 DEF RenameFindsNothing, Writing
    <3>2. /\ req' \in [Thread -> Request] /\ Shapes'
          /\ told' \in [Id -> SUBSET {"denied", "expired"}]
          /\ mutex' \in [Process -> Thread \cup {None}]
      BY <2>12, <3>1, WriteReturnsOK DEF RenameFindsNothing
    <3>. QED BY <1>0, <2>12, <3>2 DEF RenameFindsNothing, TypeInv, TypeOK
  <2>13. CASE WriteFails(t)
    <3>1. Writing(req[t]) /\ req[t].id \in Id
      BY <2>0, <2>13 DEF WriteFails, Shape, Writing
    <3>2. /\ req' \in [Thread -> Request] /\ Shapes'
          /\ told' \in [Id -> SUBSET {"denied", "expired"}]
          /\ mutex' \in [Process -> Thread \cup {None}]
      BY <2>13, <3>1, WriteReturnsOK DEF WriteFails
    <3>3. /\ disk' \in [Id -> Content] /\ tmp' \in [Id -> Content]
          /\ fd' \in [Thread -> {"none", "tmp", "disk", "lost"}]
      <4>1. CASE req[t].pc = "data"
        <5>1. Torn \in Content
          BY DEF Content
        <5>. QED BY <2>13, <3>1, <4>1, <5>1, PutOK DEF WriteFails
      <4>2. CASE req[t].pc # "data"
        BY <1>0, <2>13, <4>2 DEF WriteFails, TypeOK
      <4>. QED BY <4>1, <4>2
    <3>4. fails' \in 0..MaxFail
      BY <1>0, <2>13, BoundsAssumption DEF WriteFails, TypeOK
    <3>. QED BY <1>0, <2>13, <3>2, <3>3, <3>4 DEF WriteFails, TypeInv, TypeOK
  <2>14. CASE IssueToken(t)
    <3>1. req[t].id \in Id
      BY <2>0, <2>14 DEF IssueToken, Shape
    <3>2. minted' \in [Id -> 0..MaxMint]
      BY <1>0, <2>14, <3>1, BoundsAssumption DEF IssueToken, TypeOK
    <3>3. req' \in [Thread -> Request] /\ Shapes'
      BY <2>14, IdleOK, BecomesOK DEF IssueToken
    <3>. QED BY <1>0, <2>14, <3>2, <3>3 DEF IssueToken, TypeInv, TypeOK
  <2>15. CASE IssueFails(t)
    BY <1>0, <2>15, <2>a DEF IssueFails, TypeInv, TypeOK
  <2>16. CASE ReadFails(t)
    BY <1>0, <2>16, <2>a, BoundsAssumption DEF ReadFails, TypeInv, TypeOK
  <2>. QED BY <1>b, <2>1, <2>2, <2>3, <2>4, <2>5, <2>6, <2>7, <2>8, <2>9, <2>10,
              <2>11, <2>12, <2>13, <2>14, <2>15, <2>16 DEF Serve
<1>c. CASE Tick
  <2>1. clock' \in Time
    BY <1>0, <1>c, GrantsAssumption DEF Tick, TypeOK, Time
  <2>. QED BY <1>0, <1>c, <2>1 DEF Tick, TypeInv, TypeOK, Shapes
<1>d. ASSUME NEW p \in Process, Crash(p) PROVE TypeInv'
  <2>1. req' \in [Thread -> Request] /\ Shapes'
    BY <1>0, <1>d, IdleOK DEF Crash, TypeOK, Shapes
  <2>2. /\ fd' \in [Thread -> {"none", "tmp", "disk", "lost"}]
        /\ mutex' \in [Process -> Thread \cup {None}]
    BY <1>0, <1>d DEF Crash, TypeOK
  <2>3. crashes' \in 0..MaxCrash
    BY <1>0, <1>d, BoundsAssumption DEF Crash, TypeOK
  <2>. QED BY <1>0, <1>d, <2>1, <2>2, <2>3 DEF Crash, TypeInv, TypeOK
<1>e. CASE UNCHANGED vars
  BY <1>0, <1>e DEF vars, TypeInv, TypeOK, Shapes
<1>. QED BY <1>a, <1>b, <1>c, <1>d, <1>e DEF Next

\* Every variable keeps its type, and every request its shape, in every
\* behaviour of the two processes (FileStore and its handlers).
THEOREM TypeCorrect == Spec => []TypeOK
<1>1. TypeInv => TypeOK
  BY DEF TypeInv
<1>. QED BY <1>1, InitTypeInv, StepTypeInv, PTL DEF Spec

-----------------------------------------------------------------------------
(***************************************************************************)
(* The copies of a grant: its file, its temporary file, and what a request *)
(* read or is about to write.  The inductive invariant speaks of all of    *)
(* them, because the other process may put any copy back on disk.          *)
(***************************************************************************)
Copies(i) ==
  ({disk[i], tmp[i]} \cup {req[t].doc : t \in {u \in Thread : req[u].id = i}}) \cap Grant

\* Only CreateGrant works on a grant that has no file yet.
Known ==
  /\ \A t \in Thread : req[t].doc # None /\ req[t].call # "CreateGrant"
                         => disk[req[t].id] # None
  /\ \A t \in Thread : req[t].call = "MarkCodeVerified" => disk[req[t].id] # None
  /\ \A i \in Id : told[i] # {} => disk[i] # None

\* The copies of a grant differ in what was decided only.
SameGrant(g, h) == g.code = h.code /\ g.requested = h.requested /\ g.expires = h.expires
CopiesAgree == \A i \in Id : \A g, h \in Copies(i) : SameGrant(g, h)

CopiesConsistent == \A i \in Id : \A g \in Copies(i) : Consistent(g)

\* Whoever says that a grant is expired says so after its time.
ExpiryTold ==
  /\ \A i \in Id : \A g \in Copies(i) :
       g.status = "expired" \/ "expired" \in told[i] => Overdue(g)
  /\ \A t \in Thread : req[t].told # {} =>
       req[t].id \in Id /\ req[t].told \subseteq told[req[t].id]

\* A verification works on a grant of the code it was given.
CodesEntered ==
  /\ \A t \in Thread : req[t].code # None => req[t].code \in entered
  /\ \A t \in Thread : req[t].call \in {"FindGrant", "MarkCodeVerified"} => req[t].code # None
  /\ \A t \in Thread, i \in Id : req[t].call = "MarkCodeVerified" /\ req[t].id = i =>
       \A g \in Copies(i) : g.code = req[t].code
  /\ \A i \in Id : \A g \in Copies(i) : g.verified => g.code \in entered

IInv == /\ TypeInv /\ Known /\ CopiesAgree /\ CopiesConsistent
        /\ ExpiryTold /\ NoTokenAfterExpiry /\ CodesEntered

\* What a store call may make of the grants it has copies of.
Derived(g, i) ==
  \E h \in Copies(i) :
    \/ g = Verified(h) /\ \E t \in Thread : req[t].call = "MarkCodeVerified" /\ req[t].id = i
    \/ /\ Approvable(h)
       /\ \E t \in Thread, k \in Copies(i) :
            /\ req[t].call = "ApproveGrant" /\ req[t].id = i
            /\ \E a \in {k.approved, k.requested} : g = Approved(h, a, SubjectOf(t))
    \/ g = Denied(h)
    \/ g = Expired(h) /\ Overdue(h)

Fresh(g, i) ==
  /\ Copies(i) = {} /\ disk[i] = None
  /\ \A h \in Copies(i)' : h = g
  /\ \E c \in Code, a \in (SUBSET Access) \ {{}} : g = NewGrant(c, a, Expiration)

Grown(g, i) == g \in Copies(i) \/ Derived(g, i) \/ Fresh(g, i)

LEMMA CopyOfFiles ==
  ASSUME NEW i \in Id, NEW g \in Grant
  PROVE  /\ disk[i] = g => g \in Copies(i)
         /\ tmp[i] = g => g \in Copies(i)
         /\ \A t \in Thread : req[t].id = i /\ req[t].doc = g => g \in Copies(i)
BY DEF Copies

\* A step of one goroutine that leaves the files alone, or fills them from
\* copies of the same grant, has no copies but the old ones and its own.
LEMMA CopiesAfter ==
  ASSUME TypeInv, NEW t \in Thread, NEW r, Become(t, r), NEW i \in Id,
         disk'[i] \in Grant => disk'[i] \in Copies(i),
         tmp'[i] \in Grant => tmp'[i] \in Copies(i),
         NEW g \in Copies(i)'
  PROVE  g \in Copies(i) \/ (r.id = i /\ r.doc = g)
BY DEF TypeInv, TypeOK, Become, Copies

\* The file of a grant never disappears again.
LEMMA FilesStay ==
  TypeInv /\ [Next]_vars => \A i \in Id : disk[i] # None => disk'[i] # None
<1>. SUFFICES ASSUME TypeInv, [Next]_vars, NEW i \in Id, disk[i] # None
              PROVE  disk'[i] # None
  OBVIOUS
<1>. USE DEF Files
<1>0. TypeOK /\ Shapes
  BY DEF TypeInv
<1>1. CASE disk' = disk
  BY <1>1
<1>2. ASSUME NEW t \in Thread, WriteData(t) PROVE disk'[i] # None
  <2>1. req[t].id \in Id /\ req[t].doc \in Grant
    BY <1>0, <1>2 DEF WriteData, Shapes, Shape, Writing
  <2>. QED BY <1>0, <1>2, <2>1, NullsAssumption DEF WriteData, Put, TypeOK
<1>3. ASSUME NEW t \in Thread, RenameTmp(t) PROVE disk'[i] # None
  <2>1. req[t].id \in Id
    BY <1>0, <1>3 DEF RenameTmp, Shapes, Shape, Writing
  <2>. QED BY <1>0, <1>3, <2>1 DEF RenameTmp, TypeOK
<1>4. ASSUME NEW t \in Thread, WriteFails(t) PROVE disk'[i] # None
  <2>1. req[t].id \in Id
    BY <1>0, <1>4 DEF WriteFails, Shapes, Shape, Writing
  <2>. QED BY <1>0, <1>4, <2>1, NullsAssumption DEF WriteFails, Put, TypeOK
<1>5. ASSUME NEW t \in Thread, Arrive(t) PROVE disk' = disk
  BY <1>5 DEF Arrive, GrantRequest, VerifyRequest, DecisionRequest, ContinueRequest
<1>6. ASSUME NEW t \in Thread, Serve(t), ~WriteData(t), ~RenameTmp(t), ~WriteFails(t)
      PROVE  disk' = disk
  BY <1>6 DEF Serve, CreateGrant, MarkCodeVerified, GetGrant, ApproveGrant, DenyGrant,
       ListGrants, ScanGrant, ScanFails, ReadFails, OpenTmp, RenameFindsNothing, IssueToken, IssueFails
<1>7. (Tick \/ (\E p \in Process : Crash(p)) \/ UNCHANGED vars) => disk' = disk
  BY DEF Tick, Crash, vars
<1>. QED BY <1>1, <1>2, <1>3, <1>4, <1>5, <1>6, <1>7 DEF Next

\* Neither what a handler does after GetGrant nor a returning write makes a copy.
LEMMA AfterGetCopies ==
  ASSUME TypeInv, NEW t \in Thread, NEW h \in Copies(req[t].id), AfterGet(t, h),
         NEW i \in Id,
         disk'[i] \in Grant => disk'[i] \in Copies(i),
         tmp'[i] \in Grant => tmp'[i] \in Copies(i),
         NEW g \in Copies(i)'
  PROVE  g \in Copies(i)
<1>. g \in Grant /\ req[t] \in Request
  BY DEF Copies, TypeInv, TypeOK
<1>1. ASSUME NEW r, Become(t, r), r.id = req[t].id, r.doc \in {h, None}
      PROVE  g \in Copies(i)
  BY <1>1, CopiesAfter, NullsAssumption
<1>2. ASSUME Become(t, Idle) PROVE g \in Copies(i)
  BY <1>2, CopiesAfter, NullsAssumption DEF Idle
<1>3. CASE Become(t, [req[t] EXCEPT !.pc = "call", !.call = "ApproveGrant", !.doc = h])
  BY <1>3, <1>1 DEF Request
<1>4. CASE Become(t, [req[t] EXCEPT !.pc = "call", !.call = "DenyGrant", !.doc = None])
  BY <1>4, <1>1 DEF Request
<1>5. CASE Become(t, [req[t] EXCEPT !.pc = "issue", !.doc = h])
  BY <1>5, <1>1 DEF Request
<1>. QED BY <1>2, <1>3, <1>4, <1>5 DEF AfterGet

LEMMA WriteReturnsCopies ==
  ASSUME TypeInv, NEW t \in Thread, NEW ok \in BOOLEAN, Writing(req[t]),
         WriteReturns(t, ok), NEW i \in Id,
         disk'[i] \in Grant => disk'[i] \in Copies(i),
         tmp'[i] \in Grant => tmp'[i] \in Copies(i),
         NEW g \in Copies(i)'
  PROVE  g \in Copies(i)
<1>. /\ g \in Grant
     /\ req[t].doc \in Copies(req[t].id)
  BY CopyOfFiles DEF Copies, TypeInv, Shapes, Shape
<1>1. CASE req[t].call = "GetGrant"
  BY <1>1, AfterGetCopies DEF WriteReturns
<1>2. CASE req[t].call # "GetGrant"
  BY <1>2, CopiesAfter, NullsAssumption DEF WriteReturns, Idle
<1>. QED BY <1>1, <1>2

\* Every step grows the copies of a grant from the copies it has.
LEMMA CopiesStep ==
  ASSUME TypeInv, Known, Next, NEW i \in Id, NEW g \in Copies(i)'
  PROVE  Grown(g, i)
<1>. USE DEF Files
<1>0. TypeOK /\ Shapes
  BY DEF TypeInv
<1>00. g \in Grant
  BY DEF Copies
<1>f. ASSUME UNCHANGED <<disk, tmp>>
      PROVE  /\ disk'[i] \in Grant => disk'[i] \in Copies(i)
             /\ tmp'[i] \in Grant => tmp'[i] \in Copies(i)
  BY <1>f, CopyOfFiles
<1>r. ASSUME NEW t \in Thread, NEW r, Become(t, r), UNCHANGED <<disk, tmp>>
      PROVE  g \in Copies(i) \/ (r.id = i /\ r.doc = g)
  BY <1>f, <1>r, CopiesAfter
<1>n. ASSUME NEW t \in Thread, NEW r, Become(t, r), UNCHANGED <<disk, tmp>>, r.doc = None
      PROVE  g \in Copies(i)
  BY <1>00, <1>n, <1>r, NullsAssumption
<1>a. ASSUME NEW t \in Thread, Arrive(t) PROVE Grown(g, i)
  <2>1. ASSUME NEW j \in Id, NEW c \in Code, NEW a \in SUBSET Access,
               GrantRequest(t, j, c, a)
        PROVE  Grown(g, i)
    <3>. DEFINE n == NewGrant(c, a, Expiration)
                r == [Idle EXCEPT !.op = "grant", !.call = "CreateGrant",
                        !.pc = "call", !.id = j, !.doc = n]
    <3>1. g \in Copies(i) \/ (r.id = i /\ r.doc = g)
      BY <2>1, <1>r DEF GrantRequest
    <3>2. r.id = j /\ r.doc = n
      BY DEF Idle
    <3>3. Copies(j) = {}
      BY <1>0, <2>1, NullsAssumption DEF GrantRequest, Known, Copies, Shapes, Shape
    <3>4. g = n /\ i = j => Fresh(g, i)
      <4>1. disk[j] = None /\ a \in (SUBSET Access) \ {{}}
        BY <2>1 DEF GrantRequest
      <4>2. Become(t, r) /\ UNCHANGED <<disk, tmp>>
        BY <2>1 DEF GrantRequest
      <4>3. ASSUME NEW h \in Copies(j)', i = j PROVE h = n
        BY <1>f, <3>2, <3>3, <4>2, <4>3, CopiesAfter
      <4>. QED BY <3>3, <4>1, <4>3 DEF Fresh
    <3>. QED BY <3>1, <3>2, <3>4 DEF Grown
  <2>2. ASSUME NEW c \in Code, VerifyRequest(t, c) PROVE Grown(g, i)
    <3>. DEFINE r == [Idle EXCEPT !.op = "verify", !.call = "FindGrant", !.pc = "call",
                        !.code = c]
    <3>1. Become(t, r) /\ UNCHANGED <<disk, tmp>>
      BY <2>2 DEF VerifyRequest
    <3>2. r.doc = None
      BY DEF Idle
    <3>. QED BY <3>1, <3>2, <1>n DEF Grown
  <2>3. ASSUME NEW j \in Id, NEW op \in Op, DecisionRequest(t, j, op) PROVE Grown(g, i)
    <3>. DEFINE r == [Idle EXCEPT !.op = op, !.call = "GetGrant", !.pc = "call", !.id = j]
    <3>1. Become(t, r) /\ UNCHANGED <<disk, tmp>>
      BY <2>3 DEF DecisionRequest
    <3>2. r.doc = None
      BY DEF Idle
    <3>. QED BY <3>1, <3>2, <1>n DEF Grown
  <2>4. ASSUME NEW j \in Id, NEW right \in BOOLEAN, ContinueRequest(t, j, right)
        PROVE  Grown(g, i)
    <3>. DEFINE r == [Idle EXCEPT !.op = "continue", !.call = "GetGrant", !.pc = "call",
                        !.id = j, !.auth = right, !.told = told[j]]
    <3>1. Become(t, r) /\ UNCHANGED <<disk, tmp>>
      BY <2>4 DEF ContinueRequest
    <3>2. r.doc = None
      BY DEF Idle
    <3>. QED BY <3>1, <3>2, <1>n DEF Grown
  <2>. QED BY <1>a, <2>1, <2>2, <2>3, <2>4 DEF Arrive
<1>b. ASSUME NEW t \in Thread, Serve(t) PROVE Grown(g, i)
  <2>. DEFINE j == req[t].id
  <2>0. req[t] \in Request /\ Shape(req[t])
    BY <1>0 DEF TypeOK, Shapes
  <2>a. ASSUME Become(t, Idle), UNCHANGED <<disk, tmp>> PROVE g \in Copies(i)
    BY <2>a, <1>n DEF Idle
  <2>b. ASSUME NEW h \in Grant, Write(t, h), UNCHANGED <<disk, tmp>>
        PROVE  g \in Copies(i) \/ (i = j /\ g = h)
    <3>1. Become(t, [req[t] EXCEPT !.pc = "open", !.doc = h])
      BY <2>b DEF Write
    <3>. DEFINE r == [req[t] EXCEPT !.pc = "open", !.doc = h]
    <3>2. r.id = j /\ r.doc = h
      BY <2>0 DEF Request
    <3>. QED BY <2>b, <3>1, <3>2, <1>r
  <2>c. ASSUME NEW r, Become(t, r), r.id = j, r.doc = req[t].doc, j \in Id,
               disk'[i] \in Grant => disk'[i] \in Copies(i),
               tmp'[i] \in Grant => tmp'[i] \in Copies(i)
        PROVE  g \in Copies(i)
    BY <1>00, <2>c, CopiesAfter, CopyOfFiles
  <2>d. ASSUME j \in Id, Readable(j) PROVE disk[j] \in Copies(j)
    BY <2>d, CopyOfFiles DEF Readable
  <2>1. CASE CreateGrant(t)
    <3>1. j \in Id /\ req[t].doc \in Grant /\ Write(t, req[t].doc)
      BY <2>0, <2>1 DEF CreateGrant, At, Shape
    <3>. QED BY <2>1, <3>1, <2>b, CopyOfFiles DEF CreateGrant, Grown
  <2>2. CASE MarkCodeVerified(t)
    <3>1. j \in Id /\ req[t].call = "MarkCodeVerified"
      BY <2>0, <2>2 DEF MarkCodeVerified, At, Shape
    <3>2. CASE Readable(j) /\ Write(t, Verified(disk[j]))
      <4>1. disk[j] \in Copies(j) /\ Verified(disk[j]) \in Grant
        BY <3>1, <3>2, <2>d DEF Readable, Verified, Grant
      <4>2. i = j => Derived(Verified(disk[j]), i)
        BY <3>1, <4>1 DEF Derived
      <4>. QED BY <2>2, <3>2, <4>1, <4>2, <2>b DEF MarkCodeVerified, Grown
    <3>. QED BY <2>2, <3>2, <2>a DEF MarkCodeVerified, GiveUp, Grown
  <2>3. CASE GetGrant(t)
    <3>1. j \in Id
      BY <2>0, <2>3 DEF GetGrant, At, Shape
    <3>2. CASE Readable(j) /\ Overdue(disk[j]) /\ Write(t, Expired(disk[j]))
      <4>1. disk[j] \in Copies(j) /\ Expired(disk[j]) \in Grant
        BY <3>1, <3>2, <2>d DEF Readable, Expired, Grant, Status
      <4>2. i = j => Derived(Expired(disk[j]), i)
        BY <3>2, <4>1 DEF Derived
      <4>. QED BY <2>3, <3>2, <4>1, <4>2, <2>b DEF GetGrant, Grown
    <3>3. CASE Readable(j) /\ AfterGet(t, disk[j])
      <4>1. disk[j] \in Copies(j)
        BY <3>1, <3>3, <2>d
      <4>. QED BY <1>00, <2>3, <3>3, <4>1, AfterGetCopies, CopyOfFiles DEF GetGrant, Grown
    <3>4. CASE GiveUp(t)
      BY <2>3, <3>4, <2>a DEF GetGrant, GiveUp, Grown
    <3>. QED BY <2>3, <3>2, <3>3, <3>4 DEF GetGrant, ExpiresOnRead
  <2>4. CASE ApproveGrant(t)
    <3>. DEFINE asked == IF t \in ASThread THEN req[t].doc.approved
                                           ELSE req[t].doc.requested
                h == Approved(disk[j], asked, SubjectOf(t))
    <3>1. j \in Id /\ req[t].doc \in Copies(j) /\ req[t].call = "ApproveGrant"
      BY <2>0, <2>4, CopyOfFiles DEF ApproveGrant, At, Shape
    <3>2. CASE Readable(j) /\ Approvable(disk[j]) /\ Write(t, h)
      <4>1. disk[j] \in Copies(j) /\ SubjectOf(t) \in Subject
        BY <3>1, <3>2, <2>d DEF SubjectOf, Subject
      <4>2. asked \in {req[t].doc.approved, req[t].doc.requested}
        OBVIOUS
      <4>3. h \in Grant
        <5>1. asked \in SUBSET Access
          BY <3>1 DEF Copies, Grant
        <5>. QED BY <3>2, <4>1, <5>1, ChangedGrants DEF Readable
      <4>4. i = j => Derived(h, i)
        BY <3>1, <3>2, <4>1, <4>2 DEF Derived
      <4>. QED BY <2>4, <3>2, <4>3, <4>4, <2>b DEF ApproveGrant, Grown
    <3>. QED BY <2>4, <3>2, <2>a DEF ApproveGrant, GiveUp, Grown
  <2>5. CASE DenyGrant(t)
    <3>. DEFINE h == IF Overdue(disk[j]) THEN Expired(disk[j]) ELSE Denied(disk[j])
    <3>1. j \in Id
      BY <2>0, <2>5 DEF DenyGrant, At, Shape
    <3>2. CASE Readable(j) /\ Write(t, h)
      <4>1. disk[j] \in Copies(j) /\ h \in Grant
        BY <3>1, <3>2, <2>d DEF Readable, Expired, Denied, Grant, Status
      <4>2. i = j => Derived(h, i)
        BY <4>1 DEF Derived
      <4>. QED BY <2>5, <3>2, <4>1, <4>2, <2>b DEF DenyGrant, Grown
    <3>. QED BY <2>5, <3>2, <2>a DEF DenyGrant, GiveUp, Grown
  <2>6. CASE ListGrants(t)
    <3>. DEFINE r == [req[t] EXCEPT !.pc = "scan", !.todo = {k \in Id : disk[k] # None}]
    <3>1. Become(t, r) /\ r.id = j /\ r.doc = req[t].doc
      BY <2>0, <2>6 DEF ListGrants, Request
    <3>2. req[t].doc = None
      BY <2>0, <2>6 DEF ListGrants, At, Shape
    <3>. QED BY <2>6, <3>1, <3>2, <1>n DEF ListGrants, Grown
  <2>7. CASE ScanGrant(t)
    <3>1. req[t].doc = None
      BY <2>0, <2>7 DEF ScanGrant, At, Shape
    <3>2. PICK k \in req[t].todo :
            \/ Become(t, [req[t] EXCEPT !.pc = "call", !.call = "MarkCodeVerified",
                            !.id = k, !.todo = {}])
            \/ Become(t, [req[t] EXCEPT !.todo = @ \ {k}])
      BY <2>7 DEF ScanGrant
    <3>. DEFINE r == [req[t] EXCEPT !.pc = "call", !.call = "MarkCodeVerified",
                        !.id = k, !.todo = {}]
                s == [req[t] EXCEPT !.todo = @ \ {k}]
    <3>3. r.doc = None /\ s.doc = None
      BY <2>0, <3>1 DEF Request
    <3>4. Become(t, r) => g \in Copies(i)
      BY <2>7, <3>3, <1>n DEF ScanGrant
    <3>5. Become(t, s) => g \in Copies(i)
      BY <2>7, <3>3, <1>n DEF ScanGrant
    <3>. QED BY <3>2, <3>4, <3>5 DEF Grown
  <2>8. CASE ScanFails(t)
    BY <2>8, <2>a DEF ScanFails, GiveUp, Grown
  <2>9. CASE OpenTmp(t)
    <3>1. j \in Id
      BY <2>0, <2>9 DEF OpenTmp, Shape, Writing
    <3>2. tmp'[i] \in Grant => tmp'[i] \in Copies(i)
      BY <1>0, <2>9, <3>1, NullsAssumption, CopyOfFiles DEF OpenTmp, TypeOK
    <3>3. disk'[i] \in Grant => disk'[i] \in Copies(i)
      BY <2>9, CopyOfFiles DEF OpenTmp
    <3>. QED BY <2>0, <2>9, <3>1, <3>2, <3>3, <2>c DEF OpenTmp, Request, Grown
  <2>10. CASE WriteData(t)
    <3>1. j \in Id /\ req[t].doc \in Grant
      BY <2>0, <2>10 DEF WriteData, Shape, Writing
    <3>2. PICK c \in {req[t].doc, Torn} : Put(t, c)
      BY <2>10 DEF WriteData
    <3>3. /\ disk'[i] \in Grant => disk'[i] \in Copies(i)
          /\ tmp'[i] \in Grant => tmp'[i] \in Copies(i)
      BY <1>0, <3>1, <3>2, NullsAssumption, CopyOfFiles DEF Put, TypeOK
    <3>. QED BY <2>0, <2>10, <3>1, <3>3, <2>c DEF WriteData, Request, Grown
  <2>11. CASE RenameTmp(t)
    <3>1. j \in Id /\ Writing(req[t])
      BY <2>0, <2>11 DEF RenameTmp, Shape, Writing
    <3>2. /\ disk'[i] \in Grant => disk'[i] \in Copies(i)
          /\ tmp'[i] \in Grant => tmp'[i] \in Copies(i)
      BY <1>0, <2>11, <3>1, NullsAssumption, CopyOfFiles DEF RenameTmp, TypeOK
    <3>. QED BY <2>11, <3>1, <3>2, WriteReturnsCopies DEF RenameTmp, Grown
  <2>12. CASE RenameFindsNothing(t)
    <3>1. j \in Id /\ Writing(req[t])
      BY <2>0, <2>12 DEF RenameFindsNothing, Shape, Writing
    <3>2. /\ disk'[i] \in Grant => disk'[i] \in Copies(i)
          /\ tmp'[i] \in Grant => tmp'[i] \in Copies(i)
      BY <2>12, CopyOfFiles DEF RenameFindsNothing
    <3>. QED BY <2>12, <3>1, <3>2, WriteReturnsCopies DEF RenameFindsNothing, Grown
  <2>13. CASE WriteFails(t)
    <3>1. j \in Id /\ Writing(req[t])
      BY <2>0, <2>13 DEF WriteFails, Shape, Writing
    <3>2. /\ disk'[i] \in Grant => disk'[i] \in Copies(i)
          /\ tmp'[i] \in Grant => tmp'[i] \in Copies(i)
      BY <1>0, <2>13, <3>1, NullsAssumption, CopyOfFiles DEF WriteFails, Put, TypeOK
    <3>. QED BY <2>13, <3>1, <3>2, WriteReturnsCopies DEF WriteFails, Grown
  <2>14. CASE IssueToken(t)
    BY <2>14, <2>a DEF IssueToken, Grown
  <2>15. CASE IssueFails(t)
    BY <2>15, <2>a DEF IssueFails, GiveUp, Grown
  <2>16. CASE ReadFails(t)
    BY <2>16, <2>a DEF ReadFails, GiveUp, Grown
  <2>. QED BY <1>b, <2>1, <2>2, <2>3, <2>4, <2>5, <2>6, <2>7, <2>8, <2>9, <2>10,
              <2>11, <2>12, <2>13, <2>14, <2>15, <2>16 DEF Serve
<1>c. CASE Tick
  BY <1>c DEF Tick, Copies, Grown
<1>d. ASSUME NEW p \in Process, Crash(p) PROVE Grown(g, i)
  BY <1>0, <1>d, NullsAssumption DEF Crash, Copies, Grown, TypeOK, Idle
<1>. QED BY <1>a, <1>b, <1>c, <1>d DEF Next

\* What a step may add to the final answers given about a grant.
LEMMA ToldStep ==
  ASSUME TypeInv, Known, Next, NEW i \in Id
  PROVE  /\ told[i] \subseteq told'[i]
         /\ told'[i] # {} => told[i] # {} \/ disk[i] # None
         /\ "expired" \in told'[i] =>
              \/ "expired" \in told[i]
              \/ \E g \in Copies(i) : g.status = "expired"
<1>. DEFINE Answer(t, s) ==
              \/ told' = told
              \/ told' = [told EXCEPT ![req[t].id] = @ \cup {s}]
            Goal == /\ told[i] \subseteq told'[i]
                    /\ told'[i] # {} => told[i] # {} \/ disk[i] # None
                    /\ "expired" \in told'[i] =>
                         \/ "expired" \in told[i]
                         \/ \E g \in Copies(i) : g.status = "expired"
<1>0. TypeOK /\ Shapes
  BY DEF TypeInv
<1>1. ASSUME told' = told PROVE Goal
  BY <1>1
<1>2. ASSUME NEW t \in Thread, NEW g \in Copies(req[t].id), req[t].id \in Id,
             disk[req[t].id] # None, Answer(t, g.status)
      PROVE  Goal
  BY <1>0, <1>2 DEF TypeOK
<1>3. ASSUME NEW t \in Thread, NEW g \in Grant, AfterGet(t, g) PROVE Answer(t, g.status)
  BY <1>3 DEF AfterGet
<1>4. ASSUME NEW t \in Thread, NEW ok \in BOOLEAN, Writing(req[t]), WriteReturns(t, ok)
      PROVE  Goal
  <2>1. req[t].id \in Id /\ req[t].doc \in Copies(req[t].id) /\ req[t].doc \in Grant
    BY <1>0, <1>4, CopyOfFiles DEF Shapes, Shape
  <2>2. Answer(t, req[t].doc.status)
    BY <1>3, <1>4, <2>1 DEF WriteReturns
  <2>3. req[t].call = "CreateGrant" => told' = told
    BY <1>4 DEF WriteReturns
  <2>4. req[t].call # "CreateGrant" => disk[req[t].id] # None
    BY <2>1, NullsAssumption DEF Known
  <2>. QED BY <1>1, <1>2, <2>1, <2>2, <2>3, <2>4
<1>5. ASSUME NEW t \in Thread, GetGrant(t) PROVE Goal
  <2>1. req[t].id \in Id
    BY <1>0, <1>5 DEF GetGrant, At, Shapes, Shape
  <2>2. CASE Readable(req[t].id) /\ AfterGet(t, disk[req[t].id])
    BY <1>2, <1>3, <2>1, <2>2, NullsAssumption, CopyOfFiles DEF Readable
  <2>. QED BY <1>1, <1>5, <2>2 DEF GetGrant
<1>6. ASSUME NEW t \in Thread, RenameTmp(t) \/ RenameFindsNothing(t) \/ WriteFails(t)
      PROVE  Goal
  BY <1>4, <1>6 DEF RenameTmp, RenameFindsNothing, WriteFails, Writing
<1>7. ASSUME NEW t \in Thread, Arrive(t) PROVE Goal
  BY <1>1, <1>7 DEF Arrive, GrantRequest, VerifyRequest, DecisionRequest,
                    ContinueRequest, Ghosts
<1>8. ASSUME NEW t \in Thread, Serve(t), ~GetGrant(t), ~RenameTmp(t),
             ~RenameFindsNothing(t), ~WriteFails(t)
      PROVE  Goal
  BY <1>1, <1>8 DEF Serve, CreateGrant, MarkCodeVerified, ApproveGrant, DenyGrant,
       ListGrants, ScanGrant, ScanFails, ReadFails, OpenTmp, WriteData, IssueToken, IssueFails, Ghosts
<1>9. (Tick \/ \E p \in Process : Crash(p)) => Goal
  BY <1>1 DEF Tick, Crash, Ghosts
<1>. QED BY <1>5, <1>6, <1>7, <1>8, <1>9 DEF Next

(***************************************************************************)
(* How a request changes in a step: it arrives, its scan finds a grant, it *)
(* goes on with the grant it is about, or it ends.                         *)
(***************************************************************************)
Arrived(s) ==
  \/ s.call = "CreateGrant" /\ s.code = None /\ s.told = {} /\ s.pc = "call"
  \/ /\ s.call = "FindGrant" /\ s.code \in entered' /\ s.code # None
     /\ s.doc = None /\ s.told = {} /\ s.pc = "call"
  \/ /\ s.call = "GetGrant" /\ s.code = None /\ s.doc = None /\ s.pc = "call"
     /\ s.id \in Id /\ s.told \subseteq told[s.id]

Found(r, s) ==
  /\ r.call = "FindGrant" /\ s.call = "MarkCodeVerified" /\ s.code = r.code
  /\ s.doc = None /\ s.told = {} /\ s.pc = "call"
  /\ s.id \in Id /\ disk[s.id] \in Grant /\ disk[s.id].code = s.code

GoesOn(r, s) ==
  /\ s.id = r.id /\ s.code = r.code /\ s.told = r.told
  /\ \/ s.call = r.call
     \/ r.call = "GetGrant" /\ s.call \in {"ApproveGrant", "DenyGrant"}
  /\ s.doc # None => r.doc # None \/ disk[r.id] # None
  /\ s.pc = "issue" => /\ s.id \in Id /\ s.doc \in Copies(s.id)
                       /\ s.doc.status = "approved" /\ ~Overdue(s.doc)

Moves(r, s) == s = r \/ s = Idle \/ Arrived(s) \/ Found(r, s) \/ GoesOn(r, s)

LEMMA RequestStep ==
  ASSUME TypeInv, Next, NEW u \in Thread
  PROVE  Moves(req[u], req'[u])
<1>0. TypeOK /\ Shapes
  BY DEF TypeInv
<1>1. ASSUME NEW t \in Thread, NEW s, Become(t, s), Moves(req[t], s)
      PROVE  Moves(req[u], req'[u])
  BY <1>0, <1>1 DEF Become, TypeOK, Moves
<1>i. ASSUME NEW t \in Thread, Become(t, Idle) PROVE Moves(req[u], req'[u])
  BY <1>1, <1>i DEF Moves
<1>a. ASSUME NEW t \in Thread, Arrive(t) PROVE Moves(req[u], req'[u])
  <2>1. ASSUME NEW i \in Id, NEW c \in Code, NEW a \in SUBSET Access,
               GrantRequest(t, i, c, a)
        PROVE  Moves(req[u], req'[u])
    <3>. DEFINE s == [Idle EXCEPT !.op = "grant", !.call = "CreateGrant",
                        !.pc = "call", !.id = i, !.doc = NewGrant(c, a, Expiration)]
    <3>1. Arrived(s)
      BY DEF Arrived, Idle
    <3>. QED BY <1>1, <2>1, <3>1 DEF GrantRequest, Moves
  <2>2. ASSUME NEW c \in Code, VerifyRequest(t, c) PROVE Moves(req[u], req'[u])
    <3>. DEFINE s == [Idle EXCEPT !.op = "verify", !.call = "FindGrant",
                        !.pc = "call", !.code = c]
    <3>1. Arrived(s)
      BY <2>2, NullsAssumption DEF VerifyRequest, Arrived, Idle
    <3>. QED BY <1>1, <2>2, <3>1 DEF VerifyRequest, Moves
  <2>3. ASSUME NEW i \in Id, NEW op \in Op, DecisionRequest(t, i, op)
        PROVE  Moves(req[u], req'[u])
    <3>. DEFINE s == [Idle EXCEPT !.op = op, !.call = "GetGrant", !.pc = "call", !.id = i]
    <3>1. Arrived(s)
      BY DEF Arrived, Idle
    <3>. QED BY <1>1, <2>3, <3>1 DEF DecisionRequest, Moves
  <2>4. ASSUME NEW i \in Id, NEW right \in BOOLEAN, ContinueRequest(t, i, right)
        PROVE  Moves(req[u], req'[u])
    <3>. DEFINE s == [Idle EXCEPT !.op = "continue", !.call = "GetGrant", !.pc = "call",
                        !.id = i, !.auth = right, !.told = told[i]]
    <3>1. Arrived(s)
      BY DEF Arrived, Idle
    <3>. QED BY <1>1, <2>4, <3>1 DEF ContinueRequest, Moves
  <2>. QED BY <1>a, <2>1, <2>2, <2>3, <2>4 DEF Arrive
<1>b. ASSUME NEW t \in Thread, Serve(t) PROVE Moves(req[u], req'[u])
  <2>. DEFINE i == req[t].id
  <2>0. req[t] \in Request /\ Shape(req[t])
    BY <1>0 DEF TypeOK, Shapes
  <2>g. ASSUME GiveUp(t) PROVE Moves(req[u], req'[u])
    BY <2>g, <1>i DEF GiveUp
  <2>w. ASSUME NEW g, Write(t, g), req[t].doc # None \/ disk[i] # None
        PROVE  Moves(req[u], req'[u])
    <3>. DEFINE s == [req[t] EXCEPT !.pc = "open", !.doc = g]
    <3>1. GoesOn(req[t], s)
      BY <2>0, <2>w DEF GoesOn, Request
    <3>. QED BY <1>1, <2>w, <3>1 DEF Write, Moves
  <2>r. ASSUME i \in Id, Readable(i) PROVE disk[i] # None /\ disk[i] \in Copies(i)
    BY <2>r, NullsAssumption, CopyOfFiles DEF Readable
  <2>a. ASSUME NEW g \in Copies(i), i \in Id, AfterGet(t, g),
               req[t].call = "GetGrant", req[t].doc # None \/ disk[i] # None,
               g.status = "approved" => ~Overdue(g)
        PROVE  Moves(req[u], req'[u])
    <3>1. CASE Become(t, [req[t] EXCEPT !.pc = "call", !.call = "ApproveGrant", !.doc = g])
      <4>. DEFINE s == [req[t] EXCEPT !.pc = "call", !.call = "ApproveGrant", !.doc = g]
      <4>1. GoesOn(req[t], s)
        BY <2>0, <2>a DEF GoesOn, Request
      <4>. QED BY <1>1, <3>1, <4>1 DEF Moves
    <3>2. CASE Become(t, [req[t] EXCEPT !.pc = "call", !.call = "DenyGrant", !.doc = None])
      <4>. DEFINE s == [req[t] EXCEPT !.pc = "call", !.call = "DenyGrant", !.doc = None]
      <4>1. GoesOn(req[t], s)
        BY <2>0, <2>a DEF GoesOn, Request
      <4>. QED BY <1>1, <3>2, <4>1 DEF Moves
    <3>3. CASE MayIssue(t, g) /\ Become(t, [req[t] EXCEPT !.pc = "issue", !.doc = g])
      <4>. DEFINE s == [req[t] EXCEPT !.pc = "issue", !.doc = g]
      <4>1. GoesOn(req[t], s)
        BY <2>0, <2>a, <3>3 DEF GoesOn, Request, MayIssue
      <4>. QED BY <1>1, <3>3, <4>1 DEF Moves
    <3>. QED BY <2>a, <3>1, <3>2, <3>3, <1>i DEF AfterGet
  <2>t. ASSUME NEW ok \in BOOLEAN, Writing(req[t]), WriteReturns(t, ok)
        PROVE  Moves(req[u], req'[u])
    <3>1. i \in Id /\ req[t].doc \in Grant /\ req[t].doc \in Copies(i) /\ req[t].doc # None
      BY <2>0, <2>t, NullsAssumption, CopyOfFiles DEF Shape
    <3>2. CASE req[t].call = "GetGrant"
      BY <2>0, <2>a, <2>t, <3>1, <3>2 DEF WriteReturns, Shape
    <3>3. CASE req[t].call # "GetGrant"
      BY <2>t, <3>3, <1>i DEF WriteReturns
    <3>. QED BY <3>2, <3>3
  <2>1. CASE CreateGrant(t)
    <3>1. req[t].doc # None
      BY <2>0, <2>1, NullsAssumption DEF CreateGrant, At, Shape
    <3>. QED BY <2>1, <2>w, <3>1 DEF CreateGrant
  <2>2. CASE MarkCodeVerified(t)
    <3>1. i \in Id
      BY <2>0, <2>2 DEF MarkCodeVerified, At, Shape
    <3>. QED BY <2>2, <2>g, <2>r, <2>w, <3>1 DEF MarkCodeVerified
  <2>3. CASE GetGrant(t)
    <3>1. i \in Id /\ req[t].call = "GetGrant"
      BY <2>0, <2>3 DEF GetGrant, At, Shape
    <3>2. CASE Readable(i) /\ ~ExpiresOnRead(disk[i]) /\ AfterGet(t, disk[i])
      BY <2>a, <2>r, <3>1, <3>2 DEF ExpiresOnRead
    <3>. QED BY <2>3, <2>g, <2>r, <2>w, <3>1, <3>2 DEF GetGrant
  <2>4. CASE ApproveGrant(t)
    <3>1. i \in Id
      BY <2>0, <2>4 DEF ApproveGrant, At, Shape
    <3>. QED BY <2>4, <2>g, <2>r, <2>w, <3>1 DEF ApproveGrant
  <2>5. CASE DenyGrant(t)
    <3>1. i \in Id
      BY <2>0, <2>5 DEF DenyGrant, At, Shape
    <3>. QED BY <2>5, <2>g, <2>r, <2>w, <3>1 DEF DenyGrant
  <2>6. CASE ListGrants(t)
    <3>. DEFINE s == [req[t] EXCEPT !.pc = "scan", !.todo = {k \in Id : disk[k] # None}]
    <3>1. GoesOn(req[t], s)
      BY <2>0 DEF GoesOn, Request
    <3>. QED BY <1>1, <2>6, <3>1 DEF ListGrants, Moves
  <2>7. CASE ScanGrant(t)
    <3>1. PICK k \in req[t].todo :
            \/ Matches(t, k) /\ Become(t, [req[t] EXCEPT !.pc = "call",
                                 !.call = "MarkCodeVerified", !.id = k, !.todo = {}])
            \/ Become(t, [req[t] EXCEPT !.todo = @ \ {k}])
      BY <2>7 DEF ScanGrant
    <3>2. CASE Matches(t, k) /\ Become(t, [req[t] EXCEPT !.pc = "call",
                                  !.call = "MarkCodeVerified", !.id = k, !.todo = {}])
      <4>. DEFINE s == [req[t] EXCEPT !.pc = "call", !.call = "MarkCodeVerified",
                          !.id = k, !.todo = {}]
      <4>1. Found(req[t], s)
        BY <2>0, <2>7, <3>2 DEF Found, Matches, Readable, Request, ScanGrant, At, Shape
      <4>. QED BY <1>1, <3>2, <4>1 DEF Moves
    <3>3. CASE Become(t, [req[t] EXCEPT !.todo = @ \ {k}])
      <4>. DEFINE s == [req[t] EXCEPT !.todo = @ \ {k}]
      <4>1. GoesOn(req[t], s)
        BY <2>0, <2>7 DEF GoesOn, Request, ScanGrant, At
      <4>. QED BY <1>1, <3>3, <4>1 DEF Moves
    <3>. QED BY <3>1, <3>2, <3>3
  <2>8. CASE OpenTmp(t)
    <3>. DEFINE s == [req[t] EXCEPT !.pc = "data"]
    <3>1. GoesOn(req[t], s)
      BY <2>0 DEF GoesOn, Request
    <3>. QED BY <1>1, <2>8, <3>1 DEF OpenTmp, Moves
  <2>9. CASE WriteData(t)
    <3>. DEFINE s == [req[t] EXCEPT !.pc = "rename"]
    <3>1. GoesOn(req[t], s)
      BY <2>0 DEF GoesOn, Request
    <3>. QED BY <1>1, <2>9, <3>1 DEF WriteData, Moves
  <2>10. CASE RenameTmp(t) \/ RenameFindsNothing(t) \/ WriteFails(t)
    BY <2>10, <2>t DEF RenameTmp, RenameFindsNothing, WriteFails, Writing
  <2>11. CASE IssueToken(t) \/ IssueFails(t) \/ ScanFails(t) \/ ReadFails(t)
    BY <2>11, <2>g, <1>i DEF IssueToken, IssueFails, ScanFails, ReadFails
  <2>. QED BY <1>b, <2>1, <2>2, <2>3, <2>4, <2>5, <2>6, <2>7, <2>8, <2>9, <2>10, <2>11
           DEF Serve
<1>c. (Tick \/ \E p \in Process : Crash(p)) => Moves(req[u], req'[u])
  BY DEF Tick, Crash, Moves
<1>. QED BY <1>a, <1>b, <1>c DEF Next

\* Time does not run backwards, and an entered code stays entered.
LEMMA Monotone ==
  ASSUME TypeInv, Next
  PROVE  /\ clock \in Nat /\ clock' \in Nat /\ clock <= clock'
         /\ entered \subseteq entered'
<1>. USE DEF Ghosts
<1>0. clock \in Nat
  BY GrantsAssumption DEF TypeInv, TypeOK, Time
<1>1. ASSUME NEW t \in Thread, Arrive(t) PROVE clock' = clock /\ entered \subseteq entered'
  BY <1>1 DEF Arrive, GrantRequest, VerifyRequest, DecisionRequest, ContinueRequest
<1>2. ASSUME NEW t \in Thread, Serve(t) PROVE clock' = clock /\ entered' = entered
  BY <1>2 DEF Serve, CreateGrant, MarkCodeVerified, GetGrant, ApproveGrant, DenyGrant,
       ListGrants, ScanGrant, ScanFails, ReadFails, OpenTmp, WriteData, RenameTmp,
       RenameFindsNothing, WriteFails, IssueToken, IssueFails
<1>3. Tick \/ (\E p \in Process : Crash(p)) =>
        (clock' = clock \/ clock' = clock + 1) /\ entered' = entered
  BY DEF Tick, Crash
<1>. QED BY <1>0, <1>1, <1>2, <1>3 DEF Next

-----------------------------------------------------------------------------
(***************************************************************************)
(* Every part of the invariant is kept by every step.  From here on only   *)
(* the lemmas above speak of the actions.                                  *)
(***************************************************************************)
\* A copy that is not the first one of its grant is the same grant as an older one.
LEMMA GrownIsSame ==
  ASSUME TypeInv, Known, CopiesAgree, Next, NEW i \in Id, NEW g \in Copies(i)', ~Fresh(g, i)
  PROVE  /\ \E h \in Copies(i) : SameGrant(g, h)
         /\ \A h \in Copies(i) : SameGrant(g, h)
<1>1. g \in Copies(i) \/ Derived(g, i)
  BY CopiesStep DEF Grown
<1>2. \A h \in Copies(i) : h \in Grant
  BY DEF Copies
<1>3. PICK h \in Copies(i) : SameGrant(g, h)
  BY <1>1, <1>2 DEF Derived, SameGrant, Grant, Verified, Approved, Denied, Expired
<1>. QED BY <1>3 DEF CopiesAgree, SameGrant

LEMMA KnownStep ==
  ASSUME TypeInv, TypeInv', Known, Next
  PROVE  Known'
<1>1. \A i \in Id : disk[i] # None => disk'[i] # None
  BY FilesStay
<1>2. ASSUME NEW u \in Thread
      PROVE  /\ req'[u].doc # None /\ req'[u].call # "CreateGrant"
                  => disk'[req'[u].id] # None
             /\ req'[u].call = "MarkCodeVerified" => disk'[req'[u].id] # None
  <2>. DEFINE r == req[u]
              s == req'[u]
  <2>1. Moves(r, s) /\ Shape(s) /\ s \in Request
    BY RequestStep DEF TypeInv, TypeOK, Shapes
  <2>2. s.doc # None \/ s.call = "MarkCodeVerified" => s.id \in Id
    BY <2>1 DEF Shape, Request, Call
  <2>3. CASE s = r
    BY <1>1, <2>2, <2>3 DEF Known
  <2>4. CASE s = Idle
    BY <2>4 DEF Idle
  <2>5. CASE Arrived(s)
    BY <2>5 DEF Arrived
  <2>6. CASE Found(r, s)
    BY <1>1, <2>6, NullsAssumption DEF Found
  <2>7. CASE GoesOn(r, s)
    BY <1>1, <2>2, <2>7 DEF GoesOn, Known
  <2>. QED BY <2>1, <2>3, <2>4, <2>5, <2>6, <2>7 DEF Moves
<1>3. ASSUME NEW i \in Id, told'[i] # {} PROVE disk'[i] # None
  BY <1>1, <1>3, ToldStep DEF Known
<1>. QED BY <1>2, <1>3 DEF Known

LEMMA CopiesAgreeStep ==
  ASSUME TypeInv, Known, CopiesAgree, Next
  PROVE  CopiesAgree'
<1>1. ASSUME NEW i \in Id, NEW g \in Copies(i)', NEW h \in Copies(i)'
      PROVE  SameGrant(g, h)
  <2>1. CASE Fresh(g, i) \/ Fresh(h, i)
    BY <2>1 DEF Fresh, SameGrant
  <2>2. CASE ~Fresh(g, i) /\ ~Fresh(h, i)
    BY <2>2, GrownIsSame DEF SameGrant
  <2>. QED BY <2>1, <2>2
<1>. QED BY <1>1 DEF CopiesAgree, SameGrant

LEMMA CopiesConsistentStep ==
  ASSUME TypeInv, Known, CopiesAgree, CopiesConsistent, Next
  PROVE  CopiesConsistent'
<1>1. ASSUME NEW i \in Id, NEW g \in Copies(i)' PROVE Consistent(g)
  <2>0. \A h \in Copies(i) : h \in Grant /\ Consistent(h)
    BY DEF Copies, CopiesConsistent
  <2>1. CASE g \in Copies(i)
    BY <2>0, <2>1
  <2>2. CASE Fresh(g, i)
    BY <2>2 DEF Fresh, NewGrant, Consistent
  <2>3. ASSUME NEW h \in Copies(i), NEW k \in Copies(i), NEW t \in Thread,
               NEW a \in {k.approved, k.requested}, Approvable(h),
               g = Approved(h, a, SubjectOf(t))
        PROVE  Consistent(g)
    <3>. DEFINE s == SubjectOf(t)
    <3>0. s \in Subject
      BY DEF SubjectOf, Subject
    <3>1. h \in Grant /\ Consistent(h) /\ Consistent(k) /\ h.requested = k.requested
      BY <2>0 DEF CopiesAgree, SameGrant
    <3>2. /\ g.status = "approved" /\ g.subject = s /\ g.verified = h.verified
          /\ g.requested = h.requested
          /\ g.approved = IF a = {} THEN h.requested ELSE a
      BY <2>3, <3>1 DEF Approved, Grant
    <3>3. g.approved = g.requested
      BY <3>1, <3>2 DEF Consistent
    <3>. QED BY <2>3, <3>0, <3>1, <3>2, <3>3 DEF Consistent, Approvable, Subject
  <2>4. ASSUME NEW h \in Copies(i), g \in {Verified(h), Denied(h), Expired(h)}
        PROVE  Consistent(g)
    BY <2>0, <2>4 DEF Consistent, Verified, Denied, Expired, Grant
  <2>. QED BY <2>1, <2>2, <2>3, <2>4, CopiesStep DEF Grown, Derived
<1>. QED BY <1>1 DEF CopiesConsistent, Consistent

LEMMA ExpiryToldStep ==
  ASSUME TypeInv, TypeInv', Known, CopiesAgree, ExpiryTold, Next
  PROVE  ExpiryTold'
<1>1. ASSUME NEW i \in Id, NEW g \in Copies(i)',
             g.status = "expired" \/ "expired" \in told'[i]
      PROVE  clock' > g.expires
  <2>0. \A h \in Copies(i) : h \in Grant /\ h.expires \in Nat
    BY DEF Copies, Grant, Time
  <2>1. CASE Fresh(g, i)
    <3>1. g.status = "pending" /\ disk[i] = None
      BY <2>1 DEF Fresh, NewGrant
    <3>2. told'[i] = {}
      BY <3>1, ToldStep DEF Known
    <3>. QED BY <1>1, <3>1, <3>2
  <2>2. CASE ~Fresh(g, i)
    <3>1. PICK h \in Copies(i) : SameGrant(g, h)
      BY <2>2, GrownIsSame
    <3>2. \E k \in Copies(i) : clock > k.expires
      <4>1. CASE "expired" \in told'[i]
        BY <3>1, <4>1, ToldStep DEF ExpiryTold, Overdue
      <4>2. CASE g.status = "expired"
        <5>1. g \in Copies(i) \/ Derived(g, i)
          BY <2>2, CopiesStep DEF Grown
        <5>2. \E k \in Copies(i) : k.status = "expired" \/ Overdue(k)
          BY <2>0, <4>2, <5>1 DEF Derived, Verified, Approved, Denied, Expired, Grant
        <5>. QED BY <5>2 DEF ExpiryTold, Overdue
      <4>. QED BY <1>1, <4>1, <4>2
    <3>3. clock > g.expires
      BY <3>1, <3>2 DEF CopiesAgree, SameGrant
    <3>. QED BY <2>0, <3>1, <3>3, Monotone DEF SameGrant
  <2>. QED BY <2>1, <2>2
<1>2. ASSUME NEW u \in Thread, req'[u].told # {}
      PROVE  req'[u].id \in Id /\ req'[u].told \subseteq told'[req'[u].id]
  <2>. DEFINE r == req[u]
              s == req'[u]
  <2>1. \A i \in Id : told[i] \subseteq told'[i]
    BY ToldStep
  <2>2. CASE s = r \/ GoesOn(r, s)
    BY <1>2, <2>1, <2>2 DEF GoesOn, ExpiryTold
  <2>3. CASE s = Idle \/ Found(r, s)
    BY <1>2, <2>3 DEF Idle, Found
  <2>4. CASE Arrived(s)
    BY <1>2, <2>1, <2>4 DEF Arrived
  <2>. QED BY <2>2, <2>3, <2>4, RequestStep DEF Moves
<1>. QED BY <1>1, <1>2 DEF ExpiryTold, Overdue

LEMMA NoTokenAfterExpiryStep ==
  ASSUME TypeInv, ExpiryTold, NoTokenAfterExpiry, Next
  PROVE  NoTokenAfterExpiry'
<1>1. ASSUME NEW u \in Thread, req'[u].pc = "issue" PROVE "expired" \notin req'[u].told
  <2>. DEFINE r == req[u]
              s == req'[u]
  <2>1. CASE s = r
    BY <1>1, <2>1 DEF NoTokenAfterExpiry
  <2>2. CASE s = Idle \/ Arrived(s) \/ Found(r, s)
    BY <1>1, <2>2 DEF Idle, Arrived, Found
  <2>3. CASE GoesOn(r, s)
    <3>1. /\ s.id \in Id /\ s.doc \in Copies(s.id) /\ ~Overdue(s.doc)
          /\ s.id = r.id /\ s.told = r.told
      BY <1>1, <2>3 DEF GoesOn
    <3>2. "expired" \notin told[s.id]
      BY <3>1 DEF ExpiryTold
    <3>. QED BY <3>1, <3>2 DEF ExpiryTold
  <2>. QED BY <2>1, <2>2, <2>3, RequestStep DEF Moves
<1>. QED BY <1>1 DEF NoTokenAfterExpiry

LEMMA CodesEnteredStep ==
  ASSUME TypeInv, TypeInv', Known, CopiesAgree, CodesEntered, Next
  PROVE  CodesEntered'
<1>1. ASSUME NEW u \in Thread
      PROVE  /\ req'[u].code # None => req'[u].code \in entered'
             /\ req'[u].call \in {"FindGrant", "MarkCodeVerified"} => req'[u].code # None
             /\ \A i \in Id : req'[u].call = "MarkCodeVerified" /\ req'[u].id = i =>
                  \A g \in Copies(i)' : g.code = req'[u].code
  <2>. DEFINE r == req[u]
              s == req'[u]
  <2>0. entered \subseteq entered'
    BY Monotone
  <2>1. CASE s = Idle \/ Arrived(s)
    BY <2>1 DEF Idle, Arrived
  <2>2. CASE s = r \/ GoesOn(r, s)
    <3>1. /\ s.code = r.code /\ s.id = r.id
          /\ s.call \in {"FindGrant", "MarkCodeVerified"} => s.call = r.call
      BY <2>2 DEF GoesOn
    <3>2. ASSUME NEW i \in Id, s.call = "MarkCodeVerified", s.id = i,
                 NEW g \in Copies(i)'
          PROVE  g.code = s.code
      <4>1. r.call = "MarkCodeVerified" /\ r.id = i /\ disk[i] # None
        BY <3>1, <3>2 DEF Known
      <4>2. PICK h \in Copies(i) : SameGrant(g, h)
        BY <4>1, GrownIsSame DEF Fresh
      <4>. QED BY <3>1, <4>1, <4>2 DEF CodesEntered, SameGrant
    <3>. QED BY <2>0, <3>1, <3>2 DEF CodesEntered
  <2>3. CASE Found(r, s)
    <3>1. /\ r.call = "FindGrant" /\ s.code = r.code /\ s.id \in Id
          /\ disk[s.id] \in Grant /\ disk[s.id].code = s.code
      BY <2>3 DEF Found
    <3>2. ASSUME NEW i \in Id, s.id = i, NEW g \in Copies(i)' PROVE g.code = s.code
      <4>1. disk[i] \in Copies(i) /\ ~Fresh(g, i)
        BY <3>1, <3>2, CopyOfFiles, NullsAssumption DEF Fresh
      <4>. QED BY <3>1, <3>2, <4>1, GrownIsSame DEF SameGrant
    <3>. QED BY <2>0, <3>1, <3>2 DEF CodesEntered
  <2>. QED BY <2>1, <2>2, <2>3, RequestStep DEF Moves
<1>2. ASSUME NEW i \in Id, NEW g \in Copies(i)', g.verified PROVE g.code \in entered'
  <2>0. /\ \A h \in Copies(i) : h \in Grant /\ (h.verified => h.code \in entered)
        /\ entered \subseteq entered'
    BY Monotone DEF Copies, CodesEntered
  <2>1. CASE g \in Copies(i)
    BY <1>2, <2>0, <2>1
  <2>2. CASE Fresh(g, i)
    BY <1>2, <2>2 DEF Fresh, NewGrant
  <2>3. ASSUME NEW h \in Copies(i), g = Verified(h), NEW t \in Thread,
               req[t].call = "MarkCodeVerified", req[t].id = i
        PROVE  g.code \in entered'
    <3>1. g.code = h.code
      BY <2>0, <2>3 DEF Verified, Grant
    <3>2. h.code = req[t].code /\ req[t].code \in entered
      BY <2>3 DEF CodesEntered
    <3>. QED BY <2>0, <3>1, <3>2
  <2>4. ASSUME NEW h \in Copies(i), NEW a, NEW s,
               g \in {Approved(h, a, s), Denied(h), Expired(h)}
        PROVE  g.code \in entered'
    BY <1>2, <2>0, <2>4 DEF Approved, Denied, Expired, Grant
  <2>. QED BY <2>1, <2>2, <2>3, <2>4, CopiesStep DEF Grown, Derived
<1>. QED BY <1>1, <1>2 DEF CodesEntered

-----------------------------------------------------------------------------
LEMMA InitIInv == Init => IInv
<1>. SUFFICES ASSUME Init PROVE IInv
  OBVIOUS
<1>1. \A i \in Id : Copies(i) = {}
  BY NullsAssumption DEF Init, Copies, Idle
<1>2. Known /\ ExpiryTold /\ NoTokenAfterExpiry /\ CodesEntered
  BY <1>1 DEF Init, Idle, Known, ExpiryTold, NoTokenAfterExpiry, CodesEntered
<1>3. CopiesAgree /\ CopiesConsistent
  BY <1>1 DEF CopiesAgree, CopiesConsistent
<1>. QED BY <1>2, <1>3, InitTypeInv DEF IInv

LEMMA StepIInv == IInv /\ [Next]_vars => IInv'
<1>. SUFFICES ASSUME IInv, [Next]_vars PROVE IInv'
  OBVIOUS
<1>1. TypeInv'
  BY StepTypeInv DEF IInv
<1>2. CASE Next
  BY <1>1, <1>2, KnownStep, CopiesAgreeStep, CopiesConsistentStep, ExpiryToldStep,
     NoTokenAfterExpiryStep, CodesEnteredStep
  DEF IInv
<1>3. CASE UNCHANGED vars
  <2>1. \A i \in Id : Copies(i)' = Copies(i)
    BY <1>3 DEF vars, Copies
  <2>2. (Known /\ ExpiryTold /\ NoTokenAfterExpiry)'
    BY <1>3, <2>1 DEF vars, IInv, Known, ExpiryTold, NoTokenAfterExpiry, Overdue
  <2>3. (CopiesAgree /\ CopiesConsistent)'
    BY <2>1 DEF IInv, CopiesAgree, CopiesConsistent, SameGrant, Consistent
  <2>4. CodesEntered'
    BY <1>3, <2>1 DEF vars, IInv, CodesEntered, TypeInv, Shapes, Shape
  <2>. QED BY <1>1, <2>2, <2>3, <2>4 DEF IInv
<1>. QED BY <1>2, <1>3

LEMMA Invariance == Spec => []IInv
BY InitIInv, StepIInv, PTL DEF Spec

\* No grant on disk is ever half decided, whatever two processes that know
\* nothing of each other's mutex, their crashes and failed writes do to its
\* file: what is approved is what was requested, for a verified code
\* (ApproveGrant, CreateGrant, writeGrant).
THEOREM GrantsStayConsistent == Spec => []GrantConsistent
<1>1. IInv => GrantConsistent
  BY CopyOfFiles DEF IInv, CopiesConsistent, GrantConsistent, Readable
<1>. QED BY <1>1, Invariance, PTL

\* A grant is marked verified only if its own user code was entered, although
\* codes may collide and the scan holds no lock between two files
\* (FindGrantByUserCodePending, MarkCodeVerified).
THEOREM OnlyEnteredCodesVerify == Spec => []VerifiedByItsCode
<1>1. IInv => VerifiedByItsCode
  BY CopyOfFiles DEF IInv, CodesEntered, VerifiedByItsCode, Readable
<1>. QED BY <1>1, Invariance, PTL

\* Once a caller has been told that a grant is expired, no /continue that
\* arrives afterwards gets a token for it: the expiry is in every copy of the
\* grant, so losing the write of the status loses nothing (GetGrant).
THEOREM ExpiryIsFinal == Spec => []NoTokenAfterExpiry
<1>1. IInv => NoTokenAfterExpiry
  BY DEF IInv
<1>. QED BY <1>1, Invariance, PTL

-----------------------------------------------------------------------------
(* The two mutexes. *)

\* What an arriving request is.
Arrives(t, r) ==
  /\ Become(t, r) /\ r.pc = "call"
  /\ r.call = "CreateGrant" =>
       \E i \in Id, c \in Code, a \in SUBSET Access : GrantRequest(t, i, c, a)

LEMMA ArriveMoves ==
  ASSUME NEW t \in Thread, Arrive(t)
  PROVE  /\ req[t] = Idle
         /\ UNCHANGED <<disk, tmp, fd, mutex, clock, told>>
         /\ \E r : Arrives(t, r)
<1>. USE DEF Files, Ghosts, Bounds
<1>. DEFINE Same == req[t] = Idle /\ UNCHANGED <<disk, tmp, fd, mutex, clock, told>>
            Goal == Same /\ \E r : Arrives(t, r)
<1>1. ASSUME NEW i \in Id, NEW c \in Code, NEW a \in SUBSET Access, GrantRequest(t, i, c, a)
      PROVE  Goal
  <2>. DEFINE r == [Idle EXCEPT !.op = "grant", !.call = "CreateGrant", !.pc = "call",
                      !.id = i, !.doc = NewGrant(c, a, Expiration)]
  <2>1. r.pc = "call"
    BY DEF Idle
  <2>2. Become(t, r) /\ Same
    BY <1>1 DEF GrantRequest
  <2>3. Arrives(t, r)
    BY <1>1, <2>1, <2>2 DEF Arrives
  <2>. QED BY <2>2, <2>3
<1>2. ASSUME NEW c \in Code, VerifyRequest(t, c) PROVE Goal
  <2>. DEFINE r == [Idle EXCEPT !.op = "verify", !.call = "FindGrant", !.pc = "call", !.code = c]
  <2>1. r.pc = "call" /\ r.call = "FindGrant"
    BY DEF Idle
  <2>2. Become(t, r) /\ Same
    BY <1>2 DEF VerifyRequest
  <2>3. Arrives(t, r)
    BY <2>1, <2>2 DEF Arrives
  <2>. QED BY <2>2, <2>3
<1>3. ASSUME NEW i \in Id, NEW op \in Op, DecisionRequest(t, i, op) PROVE Goal
  <2>. DEFINE r == [Idle EXCEPT !.op = op, !.call = "GetGrant", !.pc = "call", !.id = i]
  <2>1. r.pc = "call" /\ r.call = "GetGrant"
    BY DEF Idle
  <2>2. Become(t, r) /\ Same
    BY <1>3 DEF DecisionRequest
  <2>3. Arrives(t, r)
    BY <2>1, <2>2 DEF Arrives
  <2>. QED BY <2>2, <2>3
<1>4. ASSUME NEW i \in Id, NEW right \in BOOLEAN, ContinueRequest(t, i, right) PROVE Goal
  <2>. DEFINE r == [Idle EXCEPT !.op = "continue", !.call = "GetGrant", !.pc = "call",
                      !.id = i, !.auth = right, !.told = told[i]]
  <2>1. r.pc = "call" /\ r.call = "GetGrant"
    BY DEF Idle
  <2>2. Become(t, r) /\ Same
    BY <1>4 DEF ContinueRequest
  <2>3. Arrives(t, r)
    BY <2>1, <2>2 DEF Arrives
  <2>. QED BY <2>2, <2>3
<1>. QED BY <1>1, <1>2, <1>3, <1>4 DEF Arrive

\* The goroutine of a step writes after it if and only if the step leaves it the lock.
LEMMA HolderMoves ==
  ASSUME TypeInv, HeldByAWriter, NEW t \in Thread, NEW r, Become(t, r),
         \/ (Writing(r) <=> Writing(req[t])) /\ mutex' = mutex
         \/ Writing(r) /\ LockFree(t) /\ mutex' = [mutex EXCEPT ![Proc(t)] = t]
         \/ ~Writing(r) /\ Writing(req[t]) /\ Unlock(t)
  PROVE  HeldByAWriter'
<1>0. /\ req \in [Thread -> Request] /\ mutex \in [Process -> Thread \cup {None}]
      /\ None \notin Thread /\ Proc(t) \in Process
  BY NullsAssumption DEF TypeInv, TypeOK, Proc, Process
<1>1. ASSUME NEW p \in Process, NEW u \in Thread
      PROVE  mutex'[p] = u <=> Proc(u) = p /\ Writing(req'[u])
  <2>0. /\ mutex[p] = u <=> Proc(u) = p /\ Writing(req[u])
        /\ mutex[p] = t <=> Proc(t) = p /\ Writing(req[t])
    BY DEF HeldByAWriter
  <2>1. req'[t] = r /\ (u # t => req'[u] = req[u])
    BY <1>0 DEF Become
  <2>2. CASE (Writing(r) <=> Writing(req[t])) /\ mutex' = mutex
    BY <2>0, <2>1, <2>2
  <2>3. CASE Writing(r) /\ LockFree(t) /\ mutex' = [mutex EXCEPT ![Proc(t)] = t]
    BY <1>0, <2>0, <2>1, <2>3 DEF LockFree
  <2>4. CASE ~Writing(r) /\ Writing(req[t]) /\ Unlock(t)
    BY <1>0, <2>0, <2>1, <2>4 DEF Unlock
  <2>. QED BY <2>2, <2>3, <2>4
<1>. QED BY <1>1 DEF HeldByAWriter

LEMMA HeldByAWriterStep ==
  ASSUME TypeInv, HeldByAWriter, Next
  PROVE  HeldByAWriter'
<1>0. req \in [Thread -> Request] /\ \A t \in Thread : req[t] \in Request
  BY DEF TypeInv, TypeOK
\* A step that neither begins nor ends a write.
<1>a. ASSUME NEW t \in Thread, NEW r, Become(t, r), ~Writing(r), ~Writing(req[t]), mutex' = mutex
      PROVE  HeldByAWriter'
  BY <1>a, HolderMoves
<1>b. ASSUME NEW t \in Thread, ~Writing(req[t]), GiveUp(t) PROVE HeldByAWriter'
  BY <1>a, <1>b DEF GiveUp, Idle, Writing
<1>c. ASSUME NEW t \in Thread, NEW g, LockFree(t), Write(t, g) PROVE HeldByAWriter'
  <2>. DEFINE r == [req[t] EXCEPT !.pc = "open", !.doc = g]
  <2>1. Become(t, r) /\ mutex' = [mutex EXCEPT ![Proc(t)] = t]
    BY <1>c DEF Write
  <2>2. Writing(r)
    BY <1>0 DEF Request, Writing
  <2>. QED BY <1>c, <2>1, <2>2, HolderMoves
<1>d. ASSUME NEW t \in Thread, NEW g, AfterGet(t, g)
      PROVE  \E r : Become(t, r) /\ ~Writing(r)
  <2>. DEFINE a == [req[t] EXCEPT !.pc = "call", !.call = "ApproveGrant", !.doc = g]
              d == [req[t] EXCEPT !.pc = "call", !.call = "DenyGrant", !.doc = None]
              i == [req[t] EXCEPT !.pc = "issue", !.doc = g]
  <2>1. ~Writing(a) /\ ~Writing(d) /\ ~Writing(i) /\ ~Writing(Idle)
    BY <1>0 DEF Writing, Idle, Request
  <2>2. Become(t, a) \/ Become(t, d) \/ Become(t, i) \/ Become(t, Idle)
    BY <1>d DEF AfterGet
  <2>. QED BY <2>1, <2>2
<1>e. ASSUME NEW t \in Thread, Writing(req[t]), NEW ok \in BOOLEAN, WriteReturns(t, ok)
      PROVE  HeldByAWriter'
  <2>1. Unlock(t) /\ (AfterGet(t, req[t].doc) \/ Become(t, Idle))
    BY <1>e DEF WriteReturns
  <2>2. PICK r : Become(t, r) /\ ~Writing(r)
    BY <1>d, <2>1 DEF Idle, Writing
  <2>. QED BY <1>e, <2>1, <2>2, HolderMoves
<1>1. ASSUME NEW t \in Thread, Arrive(t) PROVE HeldByAWriter'
  <2>1. ~Writing(req[t]) /\ mutex' = mutex
    BY <1>1, ArriveMoves DEF Idle, Writing
  <2>2. PICK r : Become(t, r) /\ r.pc = "call"
    BY <1>1, ArriveMoves DEF Arrives
  <2>. QED BY <1>a, <2>1, <2>2 DEF Writing
<1>2. ASSUME NEW t \in Thread,
             CreateGrant(t) \/ MarkCodeVerified(t) \/ ApproveGrant(t) \/ DenyGrant(t)
      PROVE  HeldByAWriter'
  <2>1. ~Writing(req[t]) /\ LockFree(t)
    BY <1>2 DEF CreateGrant, MarkCodeVerified, ApproveGrant, DenyGrant, At, Writing
  <2>2. GiveUp(t) \/ \E g : Write(t, g)
    BY <1>2 DEF CreateGrant, MarkCodeVerified, ApproveGrant, DenyGrant
  <2>. QED BY <1>b, <1>c, <2>1, <2>2
<1>3. ASSUME NEW t \in Thread, GetGrant(t) PROVE HeldByAWriter'
  <2>1. ~Writing(req[t]) /\ LockFree(t)
    BY <1>3 DEF GetGrant, At, Writing
  <2>2. GiveUp(t) \/ (\E g : Write(t, g)) \/ (\E g : AfterGet(t, g) /\ mutex' = mutex)
    BY <1>3 DEF GetGrant
  <2>. QED BY <1>a, <1>b, <1>c, <1>d, <2>1, <2>2
<1>4. ASSUME NEW t \in Thread, ListGrants(t) \/ ScanGrant(t) PROVE HeldByAWriter'
  <2>1. ~Writing(req[t]) /\ mutex' = mutex
    BY <1>4 DEF ListGrants, ScanGrant, At, Writing
  <2>2. ListGrants(t) => HeldByAWriter'
    <3>. DEFINE r == [req[t] EXCEPT !.pc = "scan", !.todo = {i \in Id : disk[i] # None}]
    <3>1. ListGrants(t) => Become(t, r)
      BY DEF ListGrants
    <3>2. ~Writing(r)
      BY <1>0 DEF Writing, Request
    <3>. QED BY <1>a, <2>1, <3>1, <3>2
  <2>3. ScanGrant(t) => HeldByAWriter'
    <3>. DEFINE r(k) == [req[t] EXCEPT !.pc = "call", !.call = "MarkCodeVerified",
                           !.id = k, !.todo = {}]
                n(k) == [req[t] EXCEPT !.todo = @ \ {k}]
    <3>1. ScanGrant(t) => \E k \in req[t].todo : Become(t, r(k)) \/ Become(t, n(k))
      BY DEF ScanGrant
    <3>2. \A k \in req[t].todo : ~Writing(r(k)) /\ ~Writing(n(k))
      BY <1>0, <2>1 DEF Writing, Request
    <3>. QED BY <1>a, <2>1, <3>1, <3>2
  <2>. QED BY <1>4, <2>2, <2>3
<1>5. ASSUME NEW t \in Thread, ScanFails(t) \/ ReadFails(t) \/ IssueToken(t) \/ IssueFails(t)
      PROVE  HeldByAWriter'
  <2>1. ~Writing(req[t]) /\ mutex' = mutex /\ Become(t, Idle)
    BY <1>5 DEF ScanFails, ReadFails, IssueToken, IssueFails, GiveUp, At, Writing
  <2>. QED BY <1>a, <2>1 DEF Idle, Writing
<1>6. ASSUME NEW t \in Thread, OpenTmp(t) \/ WriteData(t) PROVE HeldByAWriter'
  <2>. DEFINE r(pc) == [req[t] EXCEPT !.pc = pc]
  <2>1. mutex' = mutex /\ Writing(req[t]) /\ (Become(t, r("data")) \/ Become(t, r("rename")))
    BY <1>6 DEF OpenTmp, WriteData, Writing
  <2>2. Writing(r("data")) /\ Writing(r("rename"))
    BY <1>0 DEF Writing, Request
  <2>. QED BY <2>1, <2>2, HolderMoves
<1>7. ASSUME NEW t \in Thread, RenameTmp(t) \/ RenameFindsNothing(t) \/ WriteFails(t)
      PROVE  HeldByAWriter'
  <2>1. Writing(req[t]) /\ (WriteReturns(t, TRUE) \/ WriteReturns(t, FALSE))
    BY <1>7 DEF RenameTmp, RenameFindsNothing, WriteFails, Writing
  <2>. QED BY <1>e, <2>1
<1>8. Tick => HeldByAWriter'
  BY DEF Tick, HeldByAWriter
<1>9. ASSUME NEW p \in Process, Crash(p) PROVE HeldByAWriter'
  <2>0. mutex \in [Process -> Thread \cup {None}] /\ None \notin Thread
    BY NullsAssumption DEF TypeInv, TypeOK
  <2>1. ASSUME NEW q \in Process, NEW u \in Thread
        PROVE  mutex'[q] = u <=> Proc(u) = q /\ Writing(req'[u])
    <3>1. mutex'[q] = IF q = p THEN None ELSE mutex[q]
      BY <1>9, <2>0 DEF Crash
    <3>2. req'[u] = IF Proc(u) = p THEN Idle ELSE req[u]
      BY <1>9 DEF Crash
    <3>3. mutex[q] = u <=> Proc(u) = q /\ Writing(req[u])
      BY DEF HeldByAWriter
    <3>4. ~Writing(Idle)
      BY DEF Writing, Idle
    <3>. QED BY <2>0, <3>1, <3>2, <3>3, <3>4
  <2>. QED BY <2>1 DEF HeldByAWriter
<1>. QED BY <1>1, <1>2, <1>3, <1>4, <1>5, <1>6, <1>7, <1>8, <1>9 DEF Next, Serve

\* The mutex of a process is held by whoever is writing a grant there and by
\* nobody else: two goroutines never write at a time, and no path leaves the
\* store locked (Lock and defer Unlock in every call of FileStore).
THEOREM MutexIsTheWriters == Spec => []HeldByAWriter
<1>1. Init => HeldByAWriter
  BY NullsAssumption DEF Init, HeldByAWriter, Idle, Writing
<1>2. TypeInv /\ HeldByAWriter /\ [Next]_vars => HeldByAWriter'
  <2>1. UNCHANGED vars /\ HeldByAWriter => HeldByAWriter'
    BY DEF vars, HeldByAWriter
  <2>. QED BY <2>1, HeldByAWriterStep
<1>. QED BY <1>1, <1>2, InitTypeInv, StepTypeInv, PTL DEF Spec
=============================================================================
