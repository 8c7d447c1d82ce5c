-------------------------- MODULE AuthorizationProofs --------------------------
(***************************************************************************)
(* The whole server implements Authorization when one process serves the   *)
(* data directory, for any number of goroutines, ids, codes, accesses and  *)
(* tokens, and any bounds on failures and crashes.                         *)
(***************************************************************************)
EXTENDS GrantTokensProofs

(***************************************************************************)
(* The stale copy that tokens are issued from.  The grant on disk may be   *)
(* denied or expired by now, but what was approved, and by whom, is what   *)
(* the copy says: it takes a pending grant to approve it again.            *)
(***************************************************************************)
Served ==
  \A t \in Thread : req[t].pc = "issue" =>
    /\ disk[req[t].id] \in Grant
    /\ disk[req[t].id].approved = req[t].doc.approved
    /\ disk[req[t].id].subject = req[t].doc.subject

AuthInv == OneInv /\ SystemInv /\ Undenied /\ Served

\* Nothing that happens between GetGrant and the issuance makes the copy wrong in this.
LEMMA ServedStep ==
  ASSUME OneInv, [Next]_vars, Served
  PROVE  Served'
<1>. SUFFICES ASSUME NEW u \in Thread, req'[u].pc = "issue"
              PROVE  /\ disk'[req'[u].id] \in Grant
                     /\ disk'[req'[u].id].approved = req'[u].doc.approved
                     /\ disk'[req'[u].id].subject = req'[u].doc.subject
  BY DEF Served
<1>0. TypeInv /\ Locked /\ disk \in [Id -> Content]
  BY DEF OneInv, IInv, TypeInv, TypeOK
<1>1. CASE UNCHANGED vars
  BY <1>1 DEF vars, Served
<1>2. CASE Next /\ req'[u].doc = disk[req[u].id] /\ req'[u].id = req[u].id
           /\ Readable(req[u].id) /\ disk' = disk
  BY <1>2 DEF Readable
<1>3. CASE Next /\ req'[u] = req[u]
  <2>. DEFINE i == req[u].id
              g == disk[i]
  <2>1. /\ i \in Id /\ g \in Grant /\ req[u].doc.approved # {}
        /\ g.approved = req[u].doc.approved /\ g.subject = req[u].doc.subject
    <3>1. req[u].doc \in Grant /\ req[u].doc.status = "approved" /\ i \in Id
      BY <1>0, <1>3 DEF TypeInv, Shapes, Shape
    <3>2. req[u].doc \in Copies(i)
      BY <3>1, CopyOfFiles
    <3>3. req[u].doc.approved # {}
      BY <3>1, <3>2 DEF OneInv, IInv, CopiesConsistent, Consistent
    <3>. QED BY <1>3, <3>1, <3>3 DEF Served
  <2>2. g.status # "pending" /\ g # None
    <3>1. g \in Copies(i)
      BY <2>1, CopyOfFiles
    <3>. QED BY <2>1, <3>1, NullsAssumption DEF OneInv, IInv, CopiesConsistent, Consistent
  <2>3. CASE disk' = disk
    BY <1>3, <2>1, <2>3
  <2>4. ASSUME NEW t \in Thread, Replaces(t), req[t].id = i
        PROVE  /\ disk'[i] \in Grant /\ disk'[i].approved = g.approved
               /\ disk'[i].subject = g.subject
    <3>1. disk'[i] = req[t].doc /\ req[t].doc \in Grant
      BY <1>0, <2>1, <2>4 DEF Replaces
    <3>2. Change(g, req[t].doc, clock)
      BY <1>0, <2>4, ReplacesEnds DEF OneInv, Current
    <3>3. req[t].doc \in {g, Denied(g), Expired(g)}
      BY <2>2, <3>2 DEF Change, Pending, Approvable
    <3>. QED BY <2>1, <3>1, <3>3 DEF Denied, Expired, Grant
  <2>5. ASSUME NEW t \in Thread, Replaces(t), req[t].id # i
        PROVE  disk'[i] = g
    BY <1>0, <2>1, <2>5 DEF Replaces
  <2>. QED BY <1>0, <1>3, <2>1, <2>3, <2>4, <2>5, DiskStep
<1>. QED BY <1>0, <1>1, <1>2, <1>3, IssueMoves

\* With one process, every state of the server satisfies AuthInv.
LEMMA AuthInvariance ==
  ASSUME PGThread = {}
  PROVE  SystemSpec => []AuthInv
<1>1. SystemSpec => []OneInv
  BY SystemImplementsGrants, OneInvariance, PTL
<1>2. SystemInit => Undenied
  BY DEF SystemInit, T!Init, Undenied
<1>3. OneInv /\ SystemInv /\ Undenied /\ [SystemNext]_allVars /\ SystemInv' => Undenied'
  <2>1. SystemInv' => TP!TypeInv'
    BY DEF SystemInv, TP!TokenInv
  <2>2. OneInv => NoTokenAfterDenial
    BY DEF OneInv
  <2>. QED BY <2>1, <2>2, UndeniedStep
<1>4. SystemInit => Served
  BY DEF SystemInit, Init, Idle, Served
<1>5. OneInv /\ Served /\ [SystemNext]_allVars => Served'
  BY GrantsStep, ServedStep
<1>6. OneInv /\ SystemInv /\ Undenied /\ Served => AuthInv
  BY DEF AuthInv
<1>. QED BY <1>1, <1>2, <1>3, <1>4, <1>5, <1>6, SystemInvariance, PTL DEF SystemSpec

-----------------------------------------------------------------------------
(* What lookups find, step by step. *)

\* A lookup finds what is in the files, and not expired.
LEMMA BookIsFiled ==
  ASSUME TP!TokenInv
  PROVE  T!BookNow = TP!Filed(made, file, clock)
<1>1. T!BookNow = TP!BookNow
  BY DEF T!BookNow, TP!BookNow, T!Found, TP!Found, T!FromFile, TP!FromFile, T!Readable, TP!Readable,
         T!LiveAt, TP!LiveAt, T!Record, TP!Record, T!Time, TP!Time
<1>2. TP!TokenInv => TP!BookNow = TP!Filed(made, file, clock)
  BY TP!FoundIsFiled, SystemAssumption, GrantsAssumption, BoundsAssumption, NullsAssumption
     DEF Thread, TP!Record, T!Record, TP!Time, T!Time
<1>. QED BY <1>1, <1>2

\* The files and the clock change as in TokenStoreProofs.
LEMMA FilesMove ==
  ASSUME TypeInv, TP!TokenInv, [SystemNext]_allVars
  PROVE  \/ UNCHANGED <<made, clock>> /\ TP!Filed(made, file', clock) = TP!Filed(made, file, clock)
         \/ /\ UNCHANGED <<made, clock>>
            /\ \E k \in Token : /\ file[k] # made[k] /\ TP!LiveAt(made[k], clock)
                               /\ file' = [file EXCEPT ![k] = made[k]]
         \/ /\ UNCHANGED <<clock, file>>
            /\ \E k \in Token, r \in TP!Record : /\ made[k] = None /\ file[k] = None
                                              /\ made' = [made EXCEPT ![k] = r]
         \/ UNCHANGED <<made, file>> /\ clock < MaxTime /\ clock' = clock + 1
<1>1. [TP!Next]_(TP!vars)
  BY TokensStep, SameStore
<1>. QED BY <1>1, TP!FilesStep, SystemAssumption, GrantsAssumption, BoundsAssumption, NullsAssumption
         DEF Thread, TP!Record, T!Record, TP!Time, T!Time

\* What lookups find stays while nothing is made and no time passes, but for one
\* record that appears; a new token is unknown; and time drops what expires.
LEMMA BookStep ==
  ASSUME TypeInv, TP!TokenInv, TP!TokenInv', [SystemNext]_allVars
  PROVE  /\ UNCHANGED <<made, clock>> =>
              UNCHANGED T!BookNow \/ \E k \in Token : Protocol!B!Enter(k)
         /\ UNCHANGED <<made, clock, file>> => UNCHANGED T!BookNow
         /\ made' # made => UNCHANGED <<clock, T!BookNow>>
         /\ clock' # clock => Protocol!B!Pass
<1>1. /\ T!BookNow = TP!Filed(made, file, clock)
      /\ T!BookNow' = TP!Filed(made', file', clock')
  <2>1. (T!BookNow = TP!Filed(made, file, clock))'
    BY BookIsFiled, PTL
  <2>. QED BY <2>1, BookIsFiled
<1>2. /\ made \in [Token -> TP!Record \cup {None}] /\ clock \in Nat
      /\ file \in [Token -> TP!Record \cup {None, Torn}]
      /\ None \notin TP!Record /\ \A r \in TP!Record : r.exp \in Nat
  BY SystemAssumption, GrantsAssumption
     DEF TP!TokenInv, TP!TypeInv, TP!StoreTypeOK, TP!Record, T!Record, TP!Time, T!Time
<1>3. CASE UNCHANGED <<made, clock>> /\ TP!Filed(made, file', clock) = TP!Filed(made, file, clock)
  BY <1>1, <1>3
<1>4. ASSUME NEW k \in Token, UNCHANGED <<made, clock>>, file[k] # made[k],
             TP!LiveAt(made[k], clock), file' = [file EXCEPT ![k] = made[k]]
      PROVE  Protocol!B!Enter(k) /\ file' # file
  <2>1. T!BookNow[k] = None /\ T!BookNow' = [T!BookNow EXCEPT ![k] = made[k]]
    BY <1>1, <1>2, <1>4 DEF TP!Filed
  <2>. QED BY <1>2, <1>4, <2>1 DEF Protocol!B!Enter, Protocol!B!LiveAt, TP!LiveAt
<1>5. ASSUME NEW k \in Token, NEW r \in TP!Record, UNCHANGED <<clock, file>>,
             made[k] = None, file[k] = None, made' = [made EXCEPT ![k] = r]
      PROVE  UNCHANGED T!BookNow /\ made' # made
  BY <1>1, <1>2, <1>5 DEF TP!Filed, TP!LiveAt
<1>6. CASE UNCHANGED <<made, file>> /\ clock < MaxTime /\ clock' = clock + 1
  <2>1. T!BookNow' = [k \in Token |-> IF TP!LiveAt(T!BookNow[k], clock') THEN T!BookNow[k] ELSE None]
    BY <1>1, <1>2, <1>6 DEF TP!Filed, TP!LiveAt
  <2>2. Protocol!B!Pass
    BY <1>6, <2>1 DEF Protocol!B!Pass, Protocol!B!Drop, Protocol!B!LiveAt, TP!LiveAt
  <2>. QED BY <1>2, <1>6, <2>2
<1>. QED BY <1>3, <1>4, <1>5, <1>6, FilesMove

-----------------------------------------------------------------------------
(* The steps of the abstract server. *)

\* A change of a grant on disk is a move of the grant: its code was entered if it is
\* now verified, and its subject consented if it is now approved.
LEMMA ChangeIsMove ==
  ASSUME IInv, Consented, NEW i \in Id, NEW h \in Copies(i), Change(disk[i], h, clock),
         disk' = [disk EXCEPT ![i] = h], disk \in [Id -> Content],
         UNCHANGED <<clock, made, T!BookNow, source, given, entered, consents>>
  PROVE  Protocol!Move(i) \/ UNCHANGED disk
<1>. DEFINE g == disk[i]
<1>0. /\ Protocol!Set(i, h) /\ disk'[i] = h /\ h \in Grant
      /\ UNCHANGED <<Protocol!tokenVars, given, Protocol!outside>>
  BY DEF Protocol!Set, Protocol!tokenVars, Protocol!outside, Copies
<1>1. CASE g = None /\ IsNew(h)
  <2>1. Protocol!Create(i)
    BY <1>0, <1>1
    DEF IsNew, NewGrant, Time,
        Protocol!Create, Protocol!Exists, Protocol!NewGrant, Protocol!Time
  <2>. QED BY <1>0, <2>1 DEF Protocol!Move
<1>2. CASE g \in Grant /\ h = g
  BY <1>2
<1>3. CASE g \in Grant /\ Pending(g) /\ h = Verified(g)
  <2>1. Protocol!Verify(i)
    BY <1>0, <1>3, NullsAssumption
    DEF Protocol!Verify, Protocol!Exists, Protocol!Pending, Protocol!Verified,
        Pending, Verified
  <2>2. h.verified /\ h.code = g.code
    BY <1>3 DEF Verified, Grant
  <2>3. g.code \in entered
    BY <2>2 DEF IInv, CodesEntered
  <2>. QED BY <1>0, <2>1, <2>3 DEF Protocol!Move
<1>4. ASSUME g \in Grant, Approvable(g), NEW s \in Subject, h = Approved(g, g.requested, s)
      PROVE  Protocol!Move(i)
  <2>1. Protocol!Approve(i)
    BY <1>0, <1>4, NullsAssumption
    DEF Protocol!Approve, Protocol!Exists, Protocol!Approvable, Protocol!Approved,
        Protocol!Pending, Protocol!Subject, Approvable, Approved, Pending, Subject
  <2>2. h.subject = s /\ s # "none"
    BY <1>4 DEF Approved, Grant, Subject
  <2>3. <<i, h.subject>> \in consents
    BY <2>2 DEF Consented
  <2>. QED BY <1>0, <2>1, <2>3 DEF Protocol!Move
<1>5. CASE g \in Grant /\ g.status \in {"pending", "approved"} /\ h = Denied(g)
  <2>1. Protocol!Deny(i)
    BY <1>0, <1>5, NullsAssumption
    DEF Protocol!Deny, Protocol!Exists, Protocol!Denied, Denied
  <2>. QED BY <1>0, <2>1 DEF Protocol!Move
<1>6. CASE g \in Grant /\ clock > g.expires /\ h = Expired(g)
  <2>1. Protocol!Expire(i)
    BY <1>0, <1>6, NullsAssumption
    DEF Protocol!Expire, Protocol!Exists, Protocol!Expired, Expired
  <2>. QED BY <1>0, <2>1 DEF Protocol!Move
<1>. QED BY <1>1, <1>2, <1>3, <1>4, <1>5, <1>6 DEF Change

\* Users and subjects.
LEMMA AcceptsIsOutside ==
  ASSUME NEW t \in Thread, Accepts(t), UNCHANGED T!BookNow, req \in [Thread -> Request]
  PROVE  \/ \E c \in Code : Protocol!EnterCode(c)
         \/ \E i \in Id, s \in Subject : Protocol!Consent(i, s)
         \/ UNCHANGED Protocol!authVars
<1>. USE DEF Files, Ghosts, Bounds
<1>1. /\ UNCHANGED <<made, T!BookNow, source, given>>
      /\ consents' = IF req'[t].op = "approve"
                     THEN consents \cup {<<req'[t].id, SubjectOf(t)>>} ELSE consents
  BY DEF Accepts, tokenVars
<1>2. UNCHANGED <<disk, clock>>
  BY ArriveMoves DEF Accepts
<1>3. UNCHANGED <<Protocol!tokenVars, given>>
  BY <1>1 DEF Protocol!tokenVars
<1>4. ASSUME UNCHANGED <<entered, consents>> PROVE UNCHANGED Protocol!authVars
  BY <1>2, <1>3, <1>4 DEF Protocol!authVars, Protocol!outside
<1>5. ASSUME NEW i \in Id, NEW c \in Code, NEW a \in SUBSET Access, GrantRequest(t, i, c, a)
      PROVE  UNCHANGED Protocol!authVars
  <2>1. req'[t].op = "grant" /\ entered' = entered
    BY <1>5 DEF GrantRequest, Become, Idle
  <2>. QED BY <1>1, <1>4, <2>1
<1>6. ASSUME NEW c \in Code, VerifyRequest(t, c) PROVE Protocol!EnterCode(c)
  <2>1. req'[t].op = "verify" /\ entered' = entered \cup {c}
    BY <1>6 DEF VerifyRequest, Become, Idle
  <2>. QED BY <1>1, <1>2, <1>3, <2>1 DEF Protocol!EnterCode
<1>7. ASSUME NEW i \in Id, NEW op \in Op, DecisionRequest(t, i, op)
      PROVE  \/ \E s \in Subject : Protocol!Consent(i, s)
             \/ UNCHANGED Protocol!authVars
  <2>1. req'[t].op = op /\ req'[t].id = i /\ entered' = entered /\ op \in {"approve", "deny"}
    BY <1>7 DEF DecisionRequest, Become, Idle
  <2>2. SubjectOf(t) \in Subject
    BY DEF SubjectOf, Subject
  <2>3. CASE op = "approve"
    <3>1. Protocol!Consent(i, SubjectOf(t))
      BY <1>1, <1>2, <1>3, <2>1, <2>3 DEF Protocol!Consent
    <3>. QED BY <2>2, <3>1
  <2>. QED BY <1>1, <1>4, <2>1, <2>3
<1>8. ASSUME NEW i \in Id, NEW right \in BOOLEAN, ContinueRequest(t, i, right)
      PROVE  UNCHANGED Protocol!authVars
  <2>1. req'[t].op = "continue" /\ entered' = entered
    BY <1>8 DEF ContinueRequest, Become, Idle
  <2>. QED BY <1>1, <1>4, <2>1
<1>9. Protocol!Subject = Subject
  BY DEF Protocol!Subject, Subject
<1>. QED BY <1>5, <1>6, <1>7, <1>8 DEF Accepts, Arrive

\* The handlers.
LEMMA HandlesIsMove ==
  ASSUME OneInv, SystemInv, NEW t \in Thread, Handles(t), UNCHANGED T!BookNow
  PROVE  (\E i \in Id : Protocol!Move(i)) \/ UNCHANGED Protocol!authVars
<1>0. /\ TypeInv /\ Locked /\ IInv /\ Consented /\ disk \in [Id -> Content]
  BY DEF OneInv, IInv, TypeInv, TypeOK, SystemInv
<1>1. /\ clock' = clock /\ Next
      /\ UNCHANGED <<made, source, given, consents>>
  BY ClockStays DEF Handles, Next, tokenVars, history
<1>2. entered' = entered
  BY DEF Handles, Serve, CreateGrant, MarkCodeVerified, GetGrant, ApproveGrant, DenyGrant,
         ListGrants, ScanGrant, ScanFails, ReadFails, OpenTmp, WriteData, RenameTmp,
         RenameFindsNothing, WriteFails, IssueToken, IssueFails, Ghosts
<1>3. CASE disk' = disk
  BY <1>1, <1>2, <1>3 DEF Protocol!authVars, Protocol!tokenVars, Protocol!outside
<1>4. ASSUME NEW u \in Thread, Replaces(u)
      PROVE  (\E i \in Id : Protocol!Move(i)) \/ UNCHANGED disk
  <2>. DEFINE i == req[u].id
              h == req[u].doc
  <2>1. /\ i \in Id /\ h \in Grant /\ disk' = [disk EXCEPT ![i] = h]
        /\ Change(disk[i], h, clock)
    BY <1>0, <1>4, ReplacesEnds DEF Replaces, OneInv, Current
  <2>2. h \in Copies(i)
    BY <2>1, CopyOfFiles
  <2>. HIDE DEF i, h
  <2>3. Protocol!Move(i) \/ UNCHANGED disk
    BY <1>0, <1>1, <1>2, <2>1, <2>2, ChangeIsMove
  <2>. QED BY <2>1, <2>3
<1>. QED BY <1>0, <1>1, <1>3, <1>4, DiskStep

\* IssueOpaqueToken: the copy that it works from may be stale, but not in this.
LEMMA IssueIsIssue ==
  ASSUME AuthInv, NEW t \in ASThread, IssueOpaqueToken(t), TP!TypeInv', UNCHANGED T!BookNow
  PROVE  \E k \in Token, i \in Id : Protocol!Issue(k, i)
<1>. DEFINE i == req[t].id
<1>1. PICK k \in Token, a \in treq[t].todo : Makes(t, k, a)
  BY IssueMakes DEF AuthInv
<1>. DEFINE r == made'[k]
<1>2. /\ r \in TP!Record /\ r.access = a /\ r.exp = clock + TokenTTL
      /\ made[k] = None /\ made' = [made EXCEPT ![k] = r]
  BY <1>1 DEF Makes, AuthInv, SystemInv, TP!TokenInv, TP!TypeInv, TP!StoreTypeOK
<1>3. /\ t \in Thread /\ req[t].pc = "issue" /\ a \in req[t].doc.approved
  <2>1. T!At(t, "make")
    BY DEF IssueOpaqueToken, T!MakeToken
  <2>2. /\ req[t].pc = "issue" /\ treq[t].todo \subseteq treq[t].approved
        /\ treq[t].approved = req[t].doc.approved
    BY <2>1 DEF AuthInv, SystemInv, Linked, Link
  <2>. QED BY <1>1, <2>2 DEF Thread
<1>4. i \in Id /\ disk[i] # None
  BY <1>3, IssuedIsGranted DEF AuthInv, SystemInv
<1>5. disk[i].approved = req[t].doc.approved /\ disk[i].subject = req[t].doc.subject
  BY <1>3 DEF AuthInv, Served
<1>6. req[t].told = {}
  <2>1. req[t].told \in SUBSET {"denied", "expired"} /\ "expired" \notin req[t].told
    BY <1>3, IssuedIsGranted DEF AuthInv, SystemInv
  <2>2. "denied" \notin req[t].told
    BY <1>3 DEF AuthInv, OneInv, NoTokenAfterDenial
  <2>. QED BY <2>1, <2>2
<1>7. source' = [source EXCEPT ![k] = [id |-> i, sub |-> disk[i].subject, told |-> {}]]
  BY <1>1, <1>5, <1>6 DEF Makes, AuthInv, SystemInv, Sourced, IssueOpaqueToken
<1>8. UNCHANGED <<disk, clock, T!BookNow, given, Protocol!outside>>
  BY DEF IssueOpaqueToken, vars, T!MakeToken, T!Seen, Protocol!outside
<1>9. r \in Protocol!B!Record /\ Protocol!B!Make(k, r)
  BY <1>2 DEF Protocol!B!Record, TP!Record, Protocol!B!Time, TP!Time, Protocol!B!Make
<1>. HIDE DEF i, r
<1>. QED BY <1>2, <1>3, <1>4, <1>5, <1>7, <1>8, <1>9 DEF Protocol!Issue, Protocol!Exists

\* The answer of /continue.
LEMMA StoredIsGive ==
  ASSUME AuthInv, NEW t \in ASThread, TokenStored(t), UNCHANGED T!BookNow
  PROVE  (\E i \in Id, ks \in SUBSET Token : Protocol!Give(i, ks)) \/ UNCHANGED Protocol!authVars
<1>0. /\ UNCHANGED <<disk, clock, made, source, entered, consents>>
      /\ T!CacheRecord(t) /\ T!At(t, "cache")
  BY DEF TokenStored, T!CacheRecord, history, IssueToken, vars, Files
<1>1. CASE given' = given
  BY <1>0, <1>1 DEF Protocol!authVars, Protocol!tokenVars, Protocol!outside
<1>2. CASE given' # given
  <2>. DEFINE i == req[t].id
              ks == treq[t].got \cup {treq[t].token}
              q == [treq[t] EXCEPT !.got = @ \cup {treq[t].token}]
  <2>0. /\ SystemInv /\ IInv /\ Consented /\ TP!TokenInv
        /\ treq[t] \in TP!Request /\ TP!Shape(treq[t]) /\ TP!Putting(treq[t])
    BY <1>0 DEF AuthInv, SystemInv, TP!TokenInv, TP!TypeInv, TP!StoreTypeOK, TP!Putting, T!At
  <2>1. /\ q.todo = treq[t].todo /\ q.approved = treq[t].approved /\ q.got = ks
        /\ ks \subseteq Token
    BY <2>0 DEF TP!Request, TP!Shape
  <2>2. /\ treq[t].todo = {}
        /\ given' = given \cup {[access |-> treq[t].approved, tokens |-> ks]}
    <3>1. \/ /\ q.todo = {}
             /\ given' = given \cup {[access |-> q.approved, tokens |-> q.got]}
          \/ UNCHANGED given
      BY <1>0 DEF T!CacheRecord
    <3>. HIDE DEF q, ks
    <3>. QED BY <1>2, <2>1, <3>1
  <2>3. /\ t \in Thread /\ req[t].pc = "issue" /\ treq[t].approved = req[t].doc.approved
        /\ \A k \in ks : Issued(k, i)
    BY <2>0 DEF SystemInv, Linked, Link, Thread
  <2>4. /\ i \in Id /\ disk[i] # None /\ disk[i] \in Copies(i)
        /\ disk[i].requested = treq[t].approved
    <3>1. i \in Id /\ disk[i] # None
      BY <2>0, <2>3, IssuedIsGranted
    <3>2. disk[i] \in Copies(i)
      BY <3>1 DEF AuthInv, OneInv, NeverTorn, Readable, Copies
    <3>. QED BY <2>0, <2>3, <3>1, <3>2, IssuedIsGranted
  <2>5. ASSUME NEW k \in ks
        PROVE  /\ source[k] # None /\ source[k].id = i
               /\ made[k].access \in disk[i].requested
    <3>1. k \in Token /\ made[k] # None /\ source[k].id = i
      BY <2>1, <2>3 DEF Issued
    <3>2. source[k] \in Source /\ Granted(source[k], made[k].access)
      BY <2>0, <3>1 DEF SystemInv, Sourced
    <3>. HIDE DEF i
    <3>. QED BY <2>4, <3>1, <3>2, SystemAssumption DEF Granted
  <2>6. ASSUME NEW a \in treq[t].approved PROVE \E k \in ks : made[k].access = a
    <3>1. \/ treq[t].rec.access = a
          \/ \E k \in treq[t].got : made[k].access = a
      BY <2>0, <2>2, <2>6 DEF TP!TokenInv, TP!Complete
    <3>2. treq[t].rec = made[treq[t].token]
      BY <2>0, SystemAssumption DEF TP!TokenInv, TP!AsMade, TP!Shape, T!Record, TP!Record, T!Time, TP!Time
    <3>. QED BY <3>1, <3>2
  <2>7. {made[k].access : k \in ks} = disk[i].requested
    BY <2>4, <2>5, <2>6
  <2>8. ASSUME NEW k \in ks, Protocol!B!LiveAt(made[k], clock) PROVE T!BookNow[k] = made[k]
    <3>1. k \in Token /\ TP!LiveAt(made[k], clock)
      BY <2>1, <2>8 DEF Protocol!B!LiveAt, TP!LiveAt
    <3>2. CASE k = treq[t].token
      <4>1. file[k] = treq[t].rec /\ treq[t].rec = made[k]
        BY <1>0, <2>0, <3>2, SystemAssumption
           DEF TP!TokenInv, TP!Owned, TP!AsMade, TP!Shape, T!At, TP!At,
               T!Record, TP!Record, T!Time, TP!Time
      <4>. QED BY <2>0, <3>1, <4>1, BookIsFiled DEF TP!Filed
    <3>3. CASE k \in treq[t].got
      <4>1. TP!Known(k)
        BY <3>3 DEF TP!Known
      <4>2. file[k] = made[k]
        BY <2>0, <3>1, <4>1 DEF TP!TokenInv, TP!Kept, TP!OnDisk
      <4>. QED BY <2>0, <3>1, <4>2, BookIsFiled DEF TP!Filed
    <3>. QED BY <3>2, <3>3
  <2>9. UNCHANGED <<disk, clock, Protocol!tokenVars, Protocol!outside>>
    BY <1>0 DEF Protocol!tokenVars, Protocol!outside
  <2>. HIDE DEF i, ks
  <2>10. Protocol!Give(i, ks)
    BY <2>2, <2>4, <2>5, <2>7, <2>8, <2>9 DEF Protocol!Give, Protocol!Exists
  <2>. QED BY <2>1, <2>4, <2>10
<1>. QED BY <1>1, <1>2

\* The other steps of an issuance and of introspection, and crashes.
LEMMA OthersAreQuiet ==
  ASSUME \/ \E t \in ASThread : \/ StartIssue(t) \/ StoreToken(t)
                                \/ IssueRefused(t) \/ Introspect(t)
         \/ Crashes
  PROVE  UNCHANGED <<disk, clock, made, source, given, entered, consents>>
<1>1. ASSUME NEW t \in ASThread, StartIssue(t)
      PROVE  UNCHANGED <<disk, clock, made, source, given, entered, consents>>
  BY <1>1 DEF StartIssue, T!IssueRequest, T!Seen, vars, history
<1>2. ASSUME NEW t \in ASThread, StoreToken(t)
      PROVE  UNCHANGED <<disk, clock, made, source, given, entered, consents>>
  BY <1>2 DEF StoreToken, T!OpenFile, T!FillFile, T!Seen, vars, history
<1>3. ASSUME NEW t \in ASThread, IssueRefused(t)
      PROVE  UNCHANGED <<disk, clock, made, source, given, entered, consents>>
  BY <1>3 DEF IssueRefused, IssueFails, GiveUp, Files, Ghosts, T!vars, T!PutFails, T!Refuse, history
<1>4. ASSUME NEW t \in ASThread, Introspect(t)
      PROVE  UNCHANGED <<disk, clock, made, source, given, entered, consents>>
  BY <1>4 DEF Introspect, T!IntrospectRequest, T!GetByHash, T!ReadFails, T!FillCache,
       T!ReturnFill, T!Answer, T!Seen, vars, history
<1>5. CASE Crashes
  BY <1>5 DEF Crashes, Crash, T!Restart, T!Seen, tokenVars, Ghosts, history
<1>. QED BY <1>1, <1>2, <1>3, <1>4, <1>5

\* Every step of the server is one of the protocol, or nothing.
LEMMA StepIsProtocol ==
  ASSUME AuthInv, AuthInv', [SystemNext]_allVars
  PROVE  [Protocol!AuthNext]_(Protocol!authVars)
<1>0. /\ OneInv /\ SystemInv /\ TypeInv /\ TP!TokenInv /\ TP!TokenInv' /\ TP!TypeInv'
      /\ req \in [Thread -> Request] /\ made' \in [Token -> TP!Record \cup {None}]
  BY DEF AuthInv, OneInv, IInv, SystemInv, TypeInv, TypeOK, TP!TokenInv, TP!TypeInv, TP!StoreTypeOK
<1>b. /\ UNCHANGED <<made, clock>> =>
           UNCHANGED T!BookNow \/ \E k \in Token : Protocol!B!Enter(k)
      /\ UNCHANGED <<made, clock, file>> => UNCHANGED T!BookNow
      /\ made' # made => UNCHANGED <<clock, T!BookNow>>
      /\ clock' # clock => Protocol!B!Pass
  BY <1>0, BookStep
<1>1. ASSUME NEW t \in Thread, Accepts(t) PROVE [Protocol!AuthNext]_(Protocol!authVars)
  <2>1. UNCHANGED <<made, clock, file>>
    BY <1>1, ClockStays DEF Accepts, tokenVars
  <2>2. Protocol!Subject = Subject
    BY DEF Protocol!Subject, Subject
  <2>. QED BY <1>0, <1>1, <1>b, <2>1, <2>2, AcceptsIsOutside DEF Protocol!AuthNext
<1>2. ASSUME NEW t \in Thread, Handles(t) PROVE [Protocol!AuthNext]_(Protocol!authVars)
  <2>1. UNCHANGED <<made, clock, file>>
    BY <1>2, ClockStays DEF Handles, tokenVars
  <2>. QED BY <1>0, <1>2, <1>b, <2>1, HandlesIsMove DEF Protocol!AuthNext
<1>3. ASSUME NEW t \in ASThread, IssueOpaqueToken(t)
      PROVE  [Protocol!AuthNext]_(Protocol!authVars)
  <2>1. made' # made
    <3>1. PICK k \in Token, a \in treq[t].todo : Makes(t, k, a)
      BY <1>0, <1>3, IssueMakes
    <3>. QED BY <3>1 DEF Makes
  <2>. QED BY <1>0, <1>3, <1>b, <2>1, IssueIsIssue DEF Protocol!AuthNext
<1>4. ASSUME NEW t \in ASThread, TokenStored(t) PROVE [Protocol!AuthNext]_(Protocol!authVars)
  <2>1. UNCHANGED <<made, clock, file>>
    BY <1>4 DEF TokenStored, T!CacheRecord
  <2>. QED BY <1>4, <1>b, <2>1, StoredIsGive DEF Protocol!AuthNext
<1>5. ASSUME \/ \E t \in ASThread : \/ StartIssue(t) \/ StoreToken(t)
                                    \/ IssueRefused(t) \/ Introspect(t)
             \/ Crashes
      PROVE  [Protocol!AuthNext]_(Protocol!authVars)
  <2>1. UNCHANGED <<disk, clock, made, source, given, entered, consents>>
    BY <1>5, OthersAreQuiet
  <2>2. CASE UNCHANGED T!BookNow
    BY <2>1, <2>2 DEF Protocol!authVars, Protocol!tokenVars, Protocol!outside
  <2>3. ASSUME NEW k \in Token, Protocol!B!Enter(k) PROVE Protocol!Record(k)
    BY <2>1, <2>3 DEF Protocol!Record, Protocol!outside
  <2>. QED BY <1>b, <2>1, <2>2, <2>3 DEF Protocol!AuthNext
<1>6. CASE Passes
  <2>1. /\ clock < MaxTime /\ clock' = clock + 1 /\ clock \in Nat
        /\ UNCHANGED <<disk, source, given, entered, consents>>
    BY <1>0, <1>6, GrantsAssumption
       DEF Passes, Tick, T!Tick, T!Seen, Files, Ghosts, history, TypeInv, TypeOK, Time
  <2>2. Protocol!Pass
    BY <1>b, <2>1 DEF Protocol!Pass, Protocol!Wait, Protocol!outside
  <2>. QED BY <2>2 DEF Protocol!AuthNext
<1>7. CASE UNCHANGED allVars
  <2>1. UNCHANGED <<disk, clock, made, file, source, given, entered, consents>>
    BY <1>7 DEF allVars, vars, tokenVars, history
  <2>. QED BY <1>b, <2>1 DEF Protocol!authVars, Protocol!tokenVars, Protocol!outside
<1>. QED BY <1>1, <1>2, <1>3, <1>4, <1>5, <1>6, <1>7 DEF SystemNext, Issue

\* The whole server of one process implements Authorization: with its files, caches
\* and locks, stale copies of grants, failed writes and crashes, each of its steps
\* is none or one of the protocol, so that a token is of the access and for the
\* subject of an approval, for a code that was entered and a subject who consented,
\* and nobody was told that the grant is over before its client came (cmd/as).
THEOREM ServerImplementsAuthorization ==
  ASSUME PGThread = {}
  PROVE  SystemSpec => ServerIsAtomic
<1>1. SystemInit => Protocol!AuthInit
  <2>. SUFFICES ASSUME SystemInit PROVE Protocol!AuthInit
    OBVIOUS
  <2>1. T!BookNow = [k \in Token |-> None]
    BY DEF SystemInit, T!Init, T!BookNow, T!Found, T!FromFile, T!Readable, T!LiveAt
  <2>. QED BY <2>1 DEF SystemInit, Init, T!Init, Protocol!AuthInit, Protocol!LifeInit,
                     Protocol!B!BookInit
<1>2. AuthInv /\ AuthInv' /\ [SystemNext]_allVars => [Protocol!AuthNext]_(Protocol!authVars)
  BY StepIsProtocol
<1>. QED BY <1>1, <1>2, AuthInvariance, PTL DEF SystemSpec, ServerIsAtomic, Protocol!AuthSpec
=============================================================================
