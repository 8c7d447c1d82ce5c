------------------------- MODULE GrantOneProcessProofs -------------------------
(***************************************************************************)
(* What holds of GrantStore when one process serves the data directory: no *)
(* goroutine of the playground, any number of them in the server, any ids, *)
(* codes and accesses, and any bounds on failures and crashes.             *)
(***************************************************************************)
EXTENDS GrantStoreProofs

(***************************************************************************)
(* The mutex at work: whoever writes holds it, so the temporary file is    *)
(* the writer's own, from the moment it is opened until it is renamed.     *)
(***************************************************************************)
WritesAlone(t) ==
  /\ Writing(req[t]) => mutex["as"] = t
  /\ fd[t] = IF req[t].pc = "data" THEN "tmp" ELSE "none"
  /\ req[t].pc = "data" => tmp[req[t].id] = Empty
  /\ req[t].pc = "rename" => tmp[req[t].id] = req[t].doc

Locked == \A t \in Thread : WritesAlone(t)

\* A goroutine that creates a grant is the only one, and the grant has no file yet.
IsNew(g) == \E c \in Code, a \in (SUBSET Access) \ {{}}, e \in Time : g = NewGrant(c, a, e)

Drafts ==
  \A t \in Thread : req[t].call = "CreateGrant" =>
    /\ disk[req[t].id] = None /\ IsNew(req[t].doc)
    /\ \A u \in Thread : req[u].call = "CreateGrant" /\ req[u].id = req[t].id => u = t

\* What one call of the store may make of the grant on disk.
Change(g, h, now) ==
  \/ g = None /\ IsNew(h)
  \/ /\ g \in Grant
     /\ \/ h = g
        \/ Pending(g) /\ h = Verified(g)
        \/ Approvable(g) /\ \E s \in Subject : h = Approved(g, g.requested, s)
        \/ g.status \in {"pending", "approved"} /\ h = Denied(g)
        \/ now > g.expires /\ h = Expired(g)

\* What a goroutine is about to write is still a change of what is on disk.
Current == \A t \in Thread : Writing(req[t]) => Change(disk[req[t].id], req[t].doc, clock)

\* A grant that somebody was told is denied is denied, or has expired since.
Final(g) == g.status \in {"denied", "expired"}
DenialStays == \A i \in Id : "denied" \in told[i] => Readable(i) /\ Final(disk[i])

OneInv == /\ IInv /\ Locked /\ NeverTorn /\ Drafts /\ Current
          /\ DenialStays /\ NoTokenAfterDenial

-----------------------------------------------------------------------------
(* The mutex. *)

LEMMA OneLock ==
  ASSUME PGThread = {}, NEW t \in Thread
  PROVE  Proc(t) = "as"
BY DEF Thread, Proc

\* A goroutine that does not write, neither before nor after, disturbs nobody.
LEMMA QuietStep ==
  ASSUME TypeInv, Locked, NEW t \in Thread, NEW r, Become(t, r),
         ~Writing(r), ~Writing(req[t]), UNCHANGED <<tmp, fd, mutex>>
  PROVE  Locked'
<1>1. ASSUME NEW u \in Thread PROVE WritesAlone(u)'
  <2>0. WritesAlone(u) /\ WritesAlone(t) /\ req \in [Thread -> Request]
    BY DEF Locked, TypeInv, TypeOK
  <2>1. CASE u = t
    BY <2>0, <2>1 DEF Become, WritesAlone, Writing
  <2>2. CASE u # t
    BY <2>0, <2>2 DEF Become, WritesAlone, Writing
  <2>. QED BY <2>1, <2>2
<1>. QED BY <1>1 DEF Locked

\* Whoever finds the lock free is the only writer afterwards.
LEMMA WriteStep ==
  ASSUME PGThread = {}, TypeInv, Locked, NEW t \in Thread, NEW g, Write(t, g),
         LockFree(t), ~Writing(req[t]), UNCHANGED <<tmp, fd>>
  PROVE  Locked'
<1>0. /\ req \in [Thread -> Request] /\ mutex \in [Process -> Thread \cup {None}]
      /\ mutex["as"] = None /\ None \notin Thread
  BY OneLock, NullsAssumption DEF TypeInv, TypeOK, LockFree
<1>1. mutex'["as"] = t
  BY <1>0, OneLock DEF Write, Process
<1>2. ASSUME NEW u \in Thread PROVE WritesAlone(u)'
  <2>0. WritesAlone(u) /\ ~Writing(req[u])
    BY <1>0 DEF Locked, WritesAlone
  <2>1. CASE u = t
    <3>1. req'[t].pc = "open"
      BY <1>0 DEF Write, Become, Request
    <3>. QED BY <1>1, <2>0, <2>1, <3>1 DEF WritesAlone, Writing
  <2>2. CASE u # t
    <3>1. req'[u] = req[u]
      BY <1>0, <2>2 DEF Write, Become
    <3>. QED BY <2>0, <3>1 DEF WritesAlone, Writing
  <2>. QED BY <2>1, <2>2
<1>. QED BY <1>2 DEF Locked

\* Nobody else writes while a goroutine does.
LEMMA AloneThere ==
  ASSUME Locked, NEW t \in Thread, Writing(req[t]), NEW u \in Thread, u # t
  PROVE  ~Writing(req[u]) /\ fd[u] = "none"
BY DEF Locked, WritesAlone, Writing

\* What a handler does after GetGrant: no write, and no creation.
Ends(t, status) ==
  /\ req'[t] = Idle
  /\ \/ told' = told
     \/ told' = [told EXCEPT ![req[t].id] = @ \cup {status}]

Issues(t, g) ==
  /\ MayIssue(t, g) /\ told' = told
  /\ req'[t].pc = "issue" /\ req'[t].call = req[t].call
  /\ req'[t].id = req[t].id /\ req'[t].told = req[t].told /\ req'[t].doc = g

Decides(t) ==
  /\ told' = told
  /\ req'[t].pc = "call" /\ req'[t].call \in {"ApproveGrant", "DenyGrant"}

LEMMA AfterGetMoves ==
  ASSUME TypeInv, NEW t \in Thread, NEW g, AfterGet(t, g)
  PROVE  /\ Ends(t, g.status) \/ Issues(t, g) \/ Decides(t)
         /\ \A u \in Thread : u # t => req'[u] = req[u]
<1>. DEFINE Frame == \A u \in Thread : u # t => req'[u] = req[u]
<1>0. req \in [Thread -> Request] /\ req[t] \in Request
  BY DEF TypeInv, TypeOK
<1>1. ASSUME NEW r, Become(t, r) PROVE req'[t] = r /\ Frame
  BY <1>0, <1>1 DEF Become
<1>2. CASE /\ Become(t, [req[t] EXCEPT !.pc = "call", !.call = "ApproveGrant", !.doc = g])
           /\ UNCHANGED told
  <2>. DEFINE r == [req[t] EXCEPT !.pc = "call", !.call = "ApproveGrant", !.doc = g]
  <2>1. r.pc = "call" /\ r.call = "ApproveGrant"
    BY <1>0 DEF Request
  <2>. QED BY <1>1, <1>2, <2>1 DEF Decides
<1>3. CASE /\ Become(t, [req[t] EXCEPT !.pc = "call", !.call = "DenyGrant", !.doc = None])
           /\ UNCHANGED told
  <2>. DEFINE r == [req[t] EXCEPT !.pc = "call", !.call = "DenyGrant", !.doc = None]
  <2>1. r.pc = "call" /\ r.call = "DenyGrant"
    BY <1>0 DEF Request
  <2>. QED BY <1>1, <1>3, <2>1 DEF Decides
<1>4. CASE /\ MayIssue(t, g) /\ UNCHANGED told
           /\ Become(t, [req[t] EXCEPT !.pc = "issue", !.doc = g])
  <2>. DEFINE r == [req[t] EXCEPT !.pc = "issue", !.doc = g]
  <2>1. /\ r.pc = "issue" /\ r.call = req[t].call /\ r.id = req[t].id
        /\ r.told = req[t].told /\ r.doc = g
    BY <1>0 DEF Request
  <2>. QED BY <1>1, <1>4, <2>1 DEF Issues
<1>5. CASE /\ Become(t, Idle)
           /\ \/ told' = told
              \/ told' = [told EXCEPT ![req[t].id] = @ \cup {g.status}]
  BY <1>1, <1>5 DEF Ends
<1>. QED BY <1>2, <1>3, <1>4, <1>5 DEF AfterGet

\* A write that returns ends the call: /continue, which reads what it expired,
\* issues nothing, and only a denial that is written is told.
LEMMA ReturnMoves ==
  ASSUME TypeInv, NEW t \in Thread, Writing(req[t]), NEW ok \in BOOLEAN, WriteReturns(t, ok)
  PROVE  /\ Ends(t, req[t].doc.status) \/ Decides(t)
         /\ "denied" \in told'[req[t].id] =>
              \/ "denied" \in told[req[t].id]
              \/ ok /\ req[t].doc.status = "denied"
         /\ \A u \in Thread : u # t => req'[u] = req[u]
<1>0. /\ req \in [Thread -> Request] /\ told \in [Id -> SUBSET {"denied", "expired"}]
      /\ Shape(req[t]) /\ req[t].id \in Id
  BY DEF TypeInv, TypeOK, Shapes, Shape
<1>1. CASE req[t].call = "GetGrant"
  <2>1. AfterGet(t, req[t].doc) /\ req[t].doc.status = "expired"
    BY <1>0, <1>1 DEF WriteReturns, Shape
  <2>2. ~Issues(t, req[t].doc)
    BY <2>1 DEF Issues, MayIssue
  <2>3. (Ends(t, req[t].doc.status) \/ Decides(t)) /\ \A u \in Thread : u # t => req'[u] = req[u]
    BY <2>1, <2>2, AfterGetMoves
  <2>. QED BY <1>0, <2>1, <2>3 DEF Ends, Decides
<1>2. CASE req[t].call # "GetGrant"
  <2>1. Become(t, Idle)
    BY <1>2 DEF WriteReturns
  <2>2. /\ req'[t] = Idle
        /\ \A u \in Thread : u # t => req'[u] = req[u]
    BY <1>0, <2>1 DEF Become
  <2>3. told' = IF req[t].call = "DenyGrant" /\ (ok \/ req[t].doc.status = "expired")
                THEN [told EXCEPT ![req[t].id] = @ \cup {req[t].doc.status}]
                ELSE told
    BY <1>2 DEF WriteReturns
  <2>. QED BY <1>0, <2>2, <2>3 DEF Ends
<1>. QED BY <1>1, <1>2

\* When the write has returned, nobody writes and the mutex is free.
LEMMA ReturnStep ==
  ASSUME PGThread = {}, TypeInv, Locked, NEW t \in Thread, Writing(req[t]),
         NEW ok \in BOOLEAN, WriteReturns(t, ok), fd' = [u \in Thread |-> "none"]
  PROVE  Locked'
<1>1. ~Writing(req'[t]) /\ \A u \in Thread : u # t => req'[u] = req[u]
  BY ReturnMoves DEF Ends, Decides, Idle, Writing
<1>3. ASSUME NEW u \in Thread PROVE ~Writing(req'[u]) /\ fd'[u] = "none"
  BY <1>1, <1>3, AloneThere
<1>. QED BY <1>3 DEF Locked, WritesAlone, Writing

LEMMA LockedStep ==
  ASSUME PGThread = {}, TypeInv, Locked, Next
  PROVE  Locked'
<1>. USE DEF Files, Ghosts, Bounds
<1>0. /\ req \in [Thread -> Request] /\ fd \in [Thread -> {"none", "tmp", "disk", "lost"}]
      /\ mutex \in [Process -> Thread \cup {None}] /\ tmp \in [Id -> Content]
      /\ \A t \in Thread : Shape(req[t])
  BY DEF TypeInv, TypeOK, Shapes
<1>1. ASSUME NEW t \in Thread, Arrive(t) PROVE Locked'
  <2>1. ~Writing(req[t])
    BY <1>1, ArriveMoves DEF Idle, Writing
  <2>2. PICK r : Become(t, r) /\ r.pc = "call"
    BY <1>1, ArriveMoves DEF Arrives
  <2>. QED BY <1>1, <2>1, <2>2, ArriveMoves, QuietStep DEF Writing
<1>2. ASSUME NEW t \in Thread, ~Writing(req[t]), GiveUp(t) \/ Become(t, Idle),
             UNCHANGED <<tmp, fd, mutex>>
      PROVE  Locked'
  BY <1>2, QuietStep DEF GiveUp, Idle, Writing
<1>3. ASSUME NEW t \in Thread,
             CreateGrant(t) \/ MarkCodeVerified(t) \/ ApproveGrant(t) \/ DenyGrant(t)
      PROVE  Locked'
  <2>1. ~Writing(req[t]) /\ LockFree(t) /\ UNCHANGED <<tmp, fd>>
    BY <1>3 DEF CreateGrant, MarkCodeVerified, ApproveGrant, DenyGrant, At, Writing
  <2>2. CASE GiveUp(t)
    BY <2>1, <2>2, <1>2 DEF GiveUp
  <2>3. CASE \E g : Write(t, g)
    BY <2>1, <2>3, WriteStep
  <2>. QED BY <1>3, <2>2, <2>3 DEF CreateGrant, MarkCodeVerified, ApproveGrant, DenyGrant
<1>4. ASSUME NEW t \in Thread, GetGrant(t) PROVE Locked'
  <2>1. ~Writing(req[t]) /\ LockFree(t) /\ UNCHANGED <<tmp, fd>>
    BY <1>4 DEF GetGrant, At, Writing
  <2>2. CASE GiveUp(t)
    BY <2>1, <2>2, <1>2 DEF GiveUp
  <2>3. CASE Write(t, Expired(disk[req[t].id]))
    BY <2>1, <2>3, WriteStep
  <2>4. CASE AfterGet(t, disk[req[t].id]) /\ UNCHANGED mutex
    <3>1. ~Writing(req'[t]) /\ \A u \in Thread : u # t => req'[u] = req[u]
      BY <2>4, AfterGetMoves DEF Ends, Issues, Decides, Idle, Writing
    <3>2. ASSUME NEW u \in Thread PROVE WritesAlone(u)'
      BY <2>1, <2>4, <3>1 DEF Locked, WritesAlone, Writing
    <3>. QED BY <3>2 DEF Locked
  <2>. QED BY <1>4, <2>2, <2>3, <2>4 DEF GetGrant
<1>5. ASSUME NEW t \in Thread, ListGrants(t) PROVE Locked'
  <2>. DEFINE r == [req[t] EXCEPT !.pc = "scan", !.todo = {i \in Id : disk[i] # None}]
  <2>1. r.pc = "scan"
    BY <1>0 DEF Request
  <2>2. ~Writing(req[t]) /\ UNCHANGED <<tmp, fd, mutex>> /\ Become(t, r)
    BY <1>5 DEF ListGrants, At, Writing
  <2>. QED BY <2>1, <2>2, QuietStep DEF Writing
<1>6. ASSUME NEW t \in Thread, ScanGrant(t) PROVE Locked'
  <2>0. ~Writing(req[t]) /\ req[t].pc = "scan" /\ UNCHANGED <<tmp, fd, mutex>>
    BY <1>6 DEF ScanGrant, At, Writing
  <2>1. PICK k \in req[t].todo :
          \/ Become(t, [req[t] EXCEPT !.pc = "call", !.call = "MarkCodeVerified",
                          !.id = k, !.todo = {}])
          \/ Become(t, [req[t] EXCEPT !.todo = @ \ {k}])
    BY <1>6 DEF ScanGrant
  <2>. DEFINE r == [req[t] EXCEPT !.pc = "call", !.call = "MarkCodeVerified",
                      !.id = k, !.todo = {}]
              s == [req[t] EXCEPT !.todo = @ \ {k}]
  <2>2. r.pc = "call" /\ s.pc = "scan"
    BY <1>0, <2>0 DEF Request
  <2>3. Become(t, r) => Locked'
    BY <2>0, <2>2, QuietStep DEF Writing
  <2>4. Become(t, s) => Locked'
    BY <2>0, <2>2, QuietStep DEF Writing
  <2>. QED BY <2>1, <2>3, <2>4
<1>7. ASSUME NEW t \in Thread, OpenTmp(t) PROVE Locked'
  <2>. DEFINE i == req[t].id
  <2>0. Writing(req[t]) /\ i \in Id /\ mutex["as"] = t
    BY <1>0, <1>7 DEF OpenTmp, Shape, Writing, Locked, WritesAlone
  <2>1. req'[t].pc = "data" /\ req'[t].id = i /\ tmp'[i] = Empty /\ fd'[t] = "tmp"
    BY <1>0, <1>7, <2>0 DEF OpenTmp, Become, Request
  <2>2. ASSUME NEW u \in Thread PROVE WritesAlone(u)'
    <3>1. CASE u = t
      BY <1>7, <2>0, <2>1, <3>1 DEF OpenTmp, WritesAlone, Writing
    <3>2. CASE u # t
      <4>1. req'[u] = req[u] /\ fd'[u] = fd[u]
        BY <1>0, <1>7, <3>2 DEF OpenTmp, Become
      <4>. QED BY <2>0, <3>2, <4>1, AloneThere DEF WritesAlone, Writing
    <3>. QED BY <3>1, <3>2
  <2>. QED BY <2>2 DEF Locked
<1>8. ASSUME NEW t \in Thread, WriteData(t) PROVE Locked'
  <2>. DEFINE i == req[t].id
  <2>0. /\ Writing(req[t]) /\ i \in Id /\ mutex["as"] = t
        /\ fd[t] = "tmp" /\ tmp[i] = Empty
    BY <1>0, <1>8 DEF WriteData, Shape, Writing, Locked, WritesAlone
  <2>1. Put(t, req[t].doc)
    BY <1>8, <2>0 DEF WriteData, OpenFile
  <2>2. /\ req'[t].pc = "rename" /\ req'[t].id = i /\ req'[t].doc = req[t].doc
        /\ tmp'[i] = req[t].doc /\ fd'[t] = "none" /\ mutex' = mutex
    BY <1>0, <1>8, <2>0, <2>1 DEF WriteData, Become, Request, Put
  <2>3. ASSUME NEW u \in Thread PROVE WritesAlone(u)'
    <3>1. CASE u = t
      BY <2>0, <2>2, <3>1 DEF WritesAlone, Writing
    <3>2. CASE u # t
      <4>1. req'[u] = req[u] /\ fd'[u] = fd[u]
        BY <1>0, <1>8, <2>1, <3>2 DEF WriteData, Become, Put
      <4>. QED BY <2>0, <3>2, <4>1, AloneThere DEF WritesAlone, Writing
    <3>. QED BY <3>1, <3>2
  <2>. QED BY <2>3 DEF Locked
<1>9. ASSUME NEW t \in Thread, RenameTmp(t) \/ RenameFindsNothing(t) \/ WriteFails(t)
      PROVE  Locked'
  <2>0. Writing(req[t])
    BY <1>9 DEF RenameTmp, RenameFindsNothing, WriteFails, Writing
  <2>1. \A u \in Thread : u # t => fd[u] = "none"
    BY <2>0, AloneThere
  <2>2. req[t].pc # "data" => fd[t] = "none"
    BY DEF Locked, WritesAlone
  <2>3. fd' = [u \in Thread |-> "none"]
    BY <1>0, <1>9, <2>1, <2>2 DEF RenameTmp, RenameFindsNothing, WriteFails, Put, Moved
  <2>. QED BY <1>9, <2>0, <2>3, ReturnStep DEF RenameTmp, RenameFindsNothing, WriteFails
<1>10. ASSUME NEW t \in Thread, IssueToken(t) \/ IssueFails(t) \/ ScanFails(t) \/ ReadFails(t)
       PROVE  Locked'
  <2>1. ~Writing(req[t]) /\ UNCHANGED <<tmp, fd, mutex>>
    BY <1>10 DEF IssueToken, IssueFails, ScanFails, ReadFails, GiveUp, At, Writing
  <2>. QED BY <1>10, <2>1, <1>2 DEF IssueToken, IssueFails, ScanFails, ReadFails
<1>11. CASE Tick
  BY <1>11 DEF Tick, Locked, WritesAlone
<1>12. ASSUME NEW p \in Process, Crash(p) PROVE Locked'
  <2>1. p = "as"
    BY <1>12, OneLock DEF Crash
  <2>2. ASSUME NEW u \in Thread PROVE WritesAlone(u)'
    BY <1>12, <2>1, OneLock DEF Crash, WritesAlone, Writing, Idle
  <2>. QED BY <2>2 DEF Locked
<1>. QED BY <1>1, <1>3, <1>4, <1>5, <1>6, <1>7, <1>8, <1>9, <1>10, <1>11, <1>12
         DEF Next, Serve

-----------------------------------------------------------------------------
(* The files: only a rename changes a grant, to what its writer had in hand. *)

Replaces(t) ==
  /\ RenameTmp(t) /\ req[t].id \in Id /\ req[t].doc \in Grant
  /\ disk' = [disk EXCEPT ![req[t].id] = req[t].doc]

LEMMA DiskStep ==
  ASSUME TypeInv, Locked, Next
  PROVE  disk' = disk \/ \E t \in Thread : Replaces(t)
<1>. USE DEF Files
<1>1. ASSUME NEW t \in Thread, Serve(t) PROVE disk' = disk \/ Replaces(t)
  <2>0. WritesAlone(t) /\ Shape(req[t])
    BY DEF Locked, TypeInv, Shapes
  <2>1. CASE WriteData(t)
    BY <2>0, <2>1 DEF WriteData, Put, WritesAlone
  <2>2. CASE WriteFails(t)
    BY <2>0, <2>2 DEF WriteFails, Put, WritesAlone
  <2>3. CASE RenameTmp(t)
    BY <2>0, <2>3 DEF RenameTmp, Replaces, WritesAlone, Shape, Writing
  <2>. QED BY <1>1, <2>1, <2>2, <2>3
           DEF Serve, CreateGrant, MarkCodeVerified, GetGrant, ApproveGrant, DenyGrant,
               ListGrants, ScanGrant, ScanFails, ReadFails, OpenTmp, RenameFindsNothing, IssueToken, IssueFails
<1>2. (Tick \/ \E p \in Process : Crash(p)) => disk' = disk
  BY DEF Tick, Crash
<1>. QED BY <1>1, <1>2, ArriveMoves DEF Next

LEMMA NeverTornStep ==
  ASSUME TypeInv, Locked, NeverTorn, Next
  PROVE  NeverTorn'
<1>1. CASE disk' = disk
  BY <1>1 DEF NeverTorn, Readable
<1>2. ASSUME NEW t \in Thread, Replaces(t) PROVE NeverTorn'
  BY <1>2 DEF NeverTorn, Readable, Replaces, TypeInv, TypeOK
<1>. QED BY <1>1, <1>2, DiskStep

\* A step of one goroutine is no step of another.
LEMMA OthersWait ==
  ASSUME TypeInv, NEW t \in Thread, Arrive(t) \/ Serve(t), NEW u \in Thread, u # t
  PROVE  req'[u] = req[u]
<1>0. req \in [Thread -> Request]
  BY DEF TypeInv, TypeOK
<1>1. ASSUME NEW r, Become(t, r) PROVE req'[u] = req[u]
  BY <1>0, <1>1 DEF Become
<1>2. CASE Arrive(t)
  BY <1>1, <1>2, ArriveMoves DEF Arrives
<1>3. CASE CreateGrant(t) \/ MarkCodeVerified(t) \/ ApproveGrant(t) \/ DenyGrant(t)
  BY <1>1, <1>3 DEF CreateGrant, MarkCodeVerified, ApproveGrant, DenyGrant, Write, GiveUp
<1>4. CASE GetGrant(t)
  BY <1>1, <1>4, AfterGetMoves DEF GetGrant, Write, GiveUp
<1>5. CASE ListGrants(t) \/ ScanGrant(t) \/ ScanFails(t) \/ ReadFails(t)
  BY <1>1, <1>5 DEF ListGrants, ScanGrant, ScanFails, ReadFails, GiveUp
<1>6. CASE OpenTmp(t) \/ WriteData(t)
  BY <1>1, <1>6 DEF OpenTmp, WriteData
<1>7. CASE RenameTmp(t) \/ RenameFindsNothing(t) \/ WriteFails(t)
  BY <1>7, ReturnMoves DEF RenameTmp, RenameFindsNothing, WriteFails, Writing
<1>8. CASE IssueToken(t) \/ IssueFails(t)
  BY <1>1, <1>8 DEF IssueToken, IssueFails, GiveUp
<1>. QED BY <1>2, <1>3, <1>4, <1>5, <1>6, <1>7, <1>8 DEF Serve

\* A request that begins to write.
Begins(t, g) ==
  /\ req[t].pc = "call" /\ req'[t].pc = "open" /\ req'[t].call = req[t].call
  /\ req'[t].id = req[t].id /\ req'[t].doc = g
  /\ UNCHANGED <<disk, clock, told>>

LEMMA WriteMoves ==
  ASSUME TypeInv, NEW t \in Thread, NEW g, Write(t, g), req[t].pc = "call",
         UNCHANGED <<disk, clock, told>>
  PROVE  Begins(t, g)
<1>. DEFINE r == [req[t] EXCEPT !.pc = "open", !.doc = g]
<1>1. req \in [Thread -> Request] /\ req[t] \in Request
  BY DEF TypeInv, TypeOK
<1>2. r.pc = "open" /\ r.call = req[t].call /\ r.id = req[t].id /\ r.doc = g
  BY <1>1 DEF Request
<1>3. req'[t] = r
  BY <1>1 DEF Write, Become
<1>. QED BY <1>2, <1>3 DEF Begins

\* A request that goes on with the write or the creation it is at.
Proceeds(t) ==
  /\ req'[t].call = req[t].call /\ req'[t].id = req[t].id /\ req'[t].doc = req[t].doc
  /\ Writing(req[t]) /\ Writing(req'[t]) /\ told' = told

\* A request that is idle, scans, or enters a call after another.
Elsewhere(t) == ~Writing(req'[t]) /\ req'[t].call # "CreateGrant" /\ req'[t].pc # "issue"

\* What a goroutine does, as far as writing is concerned.
LEMMA ServeMoves ==
  ASSUME TypeInv, NEW t \in Thread, Serve(t)
  PROVE  \/ CreateGrant(t) /\ Begins(t, req[t].doc)
         \/ MarkCodeVerified(t) /\ Begins(t, Verified(disk[req[t].id])) /\ req[t].id \in Id
            /\ Readable(req[t].id) /\ Pending(disk[req[t].id])
         \/ ApproveGrant(t) /\ Readable(req[t].id) /\ Approvable(disk[req[t].id])
            /\ \E a \in {req[t].doc.approved, req[t].doc.requested}, s \in Subject :
                 Begins(t, Approved(disk[req[t].id], a, s))
         \/ DenyGrant(t) /\ Readable(req[t].id)
            /\ Begins(t, IF Overdue(disk[req[t].id]) THEN Expired(disk[req[t].id])
                                                    ELSE Denied(disk[req[t].id]))
         \/ GetGrant(t) /\ Readable(req[t].id) /\ Overdue(disk[req[t].id])
            /\ Begins(t, Expired(disk[req[t].id]))
         \/ GetGrant(t) /\ Readable(req[t].id) /\ Issues(t, disk[req[t].id])
         \/ Proceeds(t)
         \/ Elsewhere(t)
<1>. USE DEF Files, Ghosts
<1>. DEFINE i == req[t].id
            g == disk[i]
<1>0. /\ req \in [Thread -> Request] /\ req[t] \in Request /\ Shape(req[t])
  BY DEF TypeInv, TypeOK, Shapes
<1>i. ASSUME Become(t, Idle) PROVE Elsewhere(t)
  BY <1>0, <1>i DEF Become, Elsewhere, Idle, Writing
<1>1. CASE CreateGrant(t)
  BY <1>1, WriteMoves DEF CreateGrant, At
<1>2. CASE MarkCodeVerified(t)
  <2>1. CASE Readable(i) /\ Pending(g) /\ Write(t, Verified(g))
    <3>1. Begins(t, Verified(g)) /\ i \in Id
      BY <1>0, <1>2, <2>1, WriteMoves DEF MarkCodeVerified, At, Shape
    <3>. QED BY <1>2, <2>1, <3>1
  <2>. QED BY <1>2, <2>1, <1>i DEF MarkCodeVerified, GiveUp
<1>3. CASE ApproveGrant(t)
  <2>. DEFINE asked == IF t \in ASThread THEN req[t].doc.approved ELSE req[t].doc.requested
  <2>1. CASE Readable(i) /\ Approvable(g) /\ Write(t, Approved(g, asked, SubjectOf(t)))
    <3>1. Begins(t, Approved(g, asked, SubjectOf(t)))
      BY <1>3, <2>1, WriteMoves DEF ApproveGrant, At
    <3>2. asked \in {req[t].doc.approved, req[t].doc.requested} /\ SubjectOf(t) \in Subject
      BY DEF SubjectOf, Subject
    <3>. QED BY <1>3, <2>1, <3>1, <3>2
  <2>. QED BY <1>3, <2>1, <1>i DEF ApproveGrant, GiveUp
<1>4. CASE DenyGrant(t)
  <2>. DEFINE h == IF Overdue(g) THEN Expired(g) ELSE Denied(g)
  <2>1. CASE Readable(i) /\ Write(t, h)
    <3>1. Begins(t, h)
      BY <1>4, <2>1, WriteMoves DEF DenyGrant, At
    <3>. QED BY <1>4, <2>1, <3>1
  <2>. QED BY <1>4, <2>1, <1>i DEF DenyGrant, GiveUp
<1>5. CASE GetGrant(t)
  <2>1. CASE Readable(i) /\ ExpiresOnRead(g) /\ Write(t, Expired(g)) /\ UNCHANGED told
    <3>1. Begins(t, Expired(g))
      BY <1>5, <2>1, WriteMoves DEF GetGrant, At
    <3>. QED BY <1>5, <2>1, <3>1 DEF ExpiresOnRead
  <2>2. CASE Readable(i) /\ AfterGet(t, g)
    <3>1. Ends(t, g.status) \/ Decides(t) => Elsewhere(t)
      BY DEF Ends, Decides, Elsewhere, Idle, Writing
    <3>. QED BY <1>5, <2>2, <3>1, AfterGetMoves
  <2>. QED BY <1>5, <2>1, <2>2, <1>i DEF GetGrant, GiveUp
<1>6. CASE ListGrants(t)
  <2>. DEFINE r == [req[t] EXCEPT !.pc = "scan", !.todo = {k \in Id : disk[k] # None}]
  <2>1. r.pc = "scan" /\ r.call = "FindGrant"
    BY <1>0, <1>6 DEF ListGrants, At, Request
  <2>2. req'[t] = r
    BY <1>0, <1>6 DEF ListGrants, Become
  <2>. QED BY <2>1, <2>2 DEF Elsewhere, Writing
<1>7. CASE ScanGrant(t)
  <2>1. PICK k \in req[t].todo :
          \/ Become(t, [req[t] EXCEPT !.pc = "call", !.call = "MarkCodeVerified",
                          !.id = k, !.todo = {}])
          \/ Become(t, [req[t] EXCEPT !.todo = @ \ {k}])
    BY <1>7 DEF ScanGrant
  <2>. DEFINE r == [req[t] EXCEPT !.pc = "call", !.call = "MarkCodeVerified",
                      !.id = k, !.todo = {}]
              s == [req[t] EXCEPT !.todo = @ \ {k}]
  <2>2. /\ r.pc = "call" /\ r.call = "MarkCodeVerified"
        /\ s.pc = "scan" /\ s.call = "FindGrant"
    BY <1>0, <1>7 DEF ScanGrant, At, Request
  <2>3. req'[t] = r \/ req'[t] = s
    BY <1>0, <2>1 DEF Become
  <2>. QED BY <2>2, <2>3 DEF Elsewhere, Writing
<1>8. CASE OpenTmp(t)
  <2>. DEFINE r == [req[t] EXCEPT !.pc = "data"]
  <2>1. r.pc = "data" /\ r.call = req[t].call /\ r.id = i /\ r.doc = req[t].doc
    BY <1>0 DEF Request
  <2>2. req'[t] = r /\ told' = told /\ req[t].pc = "open"
    BY <1>0, <1>8 DEF OpenTmp, Become
  <2>. QED BY <2>1, <2>2 DEF Proceeds, Writing
<1>9. CASE WriteData(t)
  <2>. DEFINE r == [req[t] EXCEPT !.pc = "rename"]
  <2>1. r.pc = "rename" /\ r.call = req[t].call /\ r.id = i /\ r.doc = req[t].doc
    BY <1>0 DEF Request
  <2>2. req'[t] = r /\ told' = told /\ req[t].pc = "data"
    BY <1>0, <1>9 DEF WriteData, Become
  <2>. QED BY <2>1, <2>2 DEF Proceeds, Writing
<1>10. CASE RenameTmp(t) \/ RenameFindsNothing(t) \/ WriteFails(t)
  <2>1. Ends(t, req[t].doc.status) \/ Decides(t)
    BY <1>10, ReturnMoves DEF RenameTmp, RenameFindsNothing, WriteFails, Writing
  <2>. QED BY <2>1 DEF Ends, Decides, Elsewhere, Idle, Writing
<1>11. CASE IssueToken(t) \/ IssueFails(t) \/ ScanFails(t) \/ ReadFails(t)
  BY <1>11, <1>i DEF IssueToken, IssueFails, ScanFails, ReadFails, GiveUp
<1>. QED BY <1>1, <1>2, <1>3, <1>4, <1>5, <1>6, <1>7, <1>8, <1>9, <1>10, <1>11 DEF Serve

-----------------------------------------------------------------------------
(* Each part of the invariant is kept by every step. *)

\* Time changes in Tick only.
LEMMA ClockStep ==
  ASSUME Next
  PROVE  clock' = clock \/ Tick
<1>1. ASSUME NEW t \in Thread, Serve(t) PROVE clock' = clock
  BY <1>1 DEF Serve, CreateGrant, MarkCodeVerified, GetGrant, ApproveGrant, DenyGrant,
       ListGrants, ScanGrant, ScanFails, ReadFails, OpenTmp, WriteData, RenameTmp,
       RenameFindsNothing, WriteFails, IssueToken, IssueFails
<1>2. ASSUME NEW p \in Process, Crash(p) PROVE clock' = clock
  BY <1>2 DEF Crash
<1>. QED BY <1>1, <1>2, ArriveMoves DEF Next

\* What replaces a grant on disk ends its request.
LEMMA ReplacesEnds ==
  ASSUME TypeInv, NEW t \in Thread, Replaces(t)
  PROVE  Writing(req[t]) /\ ~Writing(req'[t]) /\ req'[t].call # "CreateGrant"
<1>1. Writing(req[t]) /\ WriteReturns(t, TRUE)
  BY DEF Replaces, RenameTmp, Writing
<1>2. Ends(t, req[t].doc.status) \/ Decides(t)
  BY <1>1, ReturnMoves
<1>. QED BY <1>1, <1>2 DEF Ends, Decides, Idle, Writing

\* A request that is creating a grant has just arrived, or was at it before.
LEMMA DraftMoves ==
  ASSUME TypeInv, Next, NEW u \in Thread, req'[u].call = "CreateGrant"
  PROVE  \/ /\ req[u].call = "CreateGrant"
            /\ req'[u].id = req[u].id /\ req'[u].doc = req[u].doc
         \/ \E i \in Id, c \in Code, a \in SUBSET Access : GrantRequest(u, i, c, a)
<1>. DEFINE Goal == \/ /\ req[u].call = "CreateGrant"
                       /\ req'[u].id = req[u].id /\ req'[u].doc = req[u].doc
                    \/ \E i \in Id, c \in Code, a \in SUBSET Access : GrantRequest(u, i, c, a)
<1>0. req \in [Thread -> Request]
  BY DEF TypeInv, TypeOK
<1>1. CASE req'[u] = req[u]
  BY <1>1
<1>2. ASSUME NEW t \in Thread, Arrive(t) \/ Serve(t), u # t PROVE Goal
  BY <1>1, <1>2, OthersWait
<1>3. CASE Arrive(u)
  <2>1. PICK r : Arrives(u, r)
    BY <1>3, ArriveMoves
  <2>2. req'[u] = r
    BY <1>0, <2>1 DEF Arrives, Become
  <2>. QED BY <2>1, <2>2 DEF Arrives
<1>4. CASE Serve(u)
  <2>1. ~Elsewhere(u)
    BY DEF Elsewhere
  <2>2. MarkCodeVerified(u) \/ ApproveGrant(u) \/ DenyGrant(u) \/ GetGrant(u)
          => req[u].call # "CreateGrant"
    BY DEF MarkCodeVerified, ApproveGrant, DenyGrant, GetGrant, At
  <2>. QED BY <1>4, <2>1, <2>2, ServeMoves DEF Begins, Issues, Proceeds
<1>5. CASE Tick
  BY <1>1, <1>5 DEF Tick
<1>6. ASSUME NEW p \in Process, Crash(p) PROVE Goal
  BY <1>6 DEF Crash, Idle
<1>. QED BY <1>2, <1>3, <1>4, <1>5, <1>6 DEF Next

LEMMA DraftsStep ==
  ASSUME TypeInv, Known, Locked, Drafts, Next
  PROVE  Drafts'
<1>0. /\ req \in [Thread -> Request] /\ disk \in [Id -> Content]
      /\ \A t \in Thread : Shape(req[t])
  BY DEF TypeInv, TypeOK, Shapes
<1>. DEFINE Old(u) == /\ req[u].call = "CreateGrant" /\ req[u].id \in Id
                      /\ req'[u].id = req[u].id /\ req'[u].doc = req[u].doc
            New(u) == \E i \in Id, c \in Code, a \in SUBSET Access : GrantRequest(u, i, c, a)
<1>1. ASSUME NEW u \in Thread, req'[u].call = "CreateGrant" PROVE Old(u) \/ New(u)
  BY <1>0, <1>1, DraftMoves DEF Shape
<1>2. ASSUME NEW u \in Thread, New(u)
      PROVE  /\ disk' = disk /\ disk[req'[u].id] = None /\ IsNew(req'[u].doc)
             /\ \A t \in Thread : req[t].call = "CreateGrant" => req[t].id # req'[u].id
             /\ \A t \in Thread : t # u => req'[t] = req[t]
  <2>1. PICK i \in Id, c \in Code, a \in SUBSET Access : GrantRequest(u, i, c, a)
    BY <1>2
  <2>. DEFINE r == [Idle EXCEPT !.op = "grant", !.call = "CreateGrant", !.pc = "call",
                      !.id = i, !.doc = NewGrant(c, a, Expiration)]
  <2>2. r.id = i /\ r.doc = NewGrant(c, a, Expiration)
    BY DEF Idle
  <2>3. req'[u] = r /\ disk' = disk /\ \A t \in Thread : t # u => req'[t] = req[t]
    BY <1>0, <2>1 DEF GrantRequest, Become, Files
  <2>4. Expiration \in Time
    BY <2>1, GrantsAssumption DEF GrantRequest, Expiration, Time, TypeInv, TypeOK
  <2>5. /\ a \in (SUBSET Access) \ {{}} /\ disk[i] = None
        /\ \A t \in Thread : req[t].call = "CreateGrant" => req[t].id # i
    BY <2>1 DEF GrantRequest
  <2>6. IsNew(r.doc)
    BY <2>2, <2>4, <2>5 DEF IsNew
  <2>. QED BY <2>2, <2>3, <2>5, <2>6
<1>3. ASSUME NEW u \in Thread, Old(u), req'[u].call = "CreateGrant"
      PROVE  disk'[req[u].id] = None
  <2>1. disk[req[u].id] = None
    BY <1>3 DEF Drafts
  <2>2. ASSUME NEW t \in Thread, Replaces(t) PROVE disk'[req[u].id] = None
    <3>1. req[t].id # req[u].id
      <4>1. t # u
        BY <1>3, <2>2, ReplacesEnds
      <4>2. req[t].call = "CreateGrant" => req[t].id # req[u].id
        BY <1>3, <4>1 DEF Drafts
      <4>3. req[t].doc # None
        BY <2>2, NullsAssumption DEF Replaces
      <4>. QED BY <2>1, <4>2, <4>3 DEF Known
    <3>. QED BY <1>0, <1>3, <2>1, <2>2, <3>1 DEF Replaces
  <2>. QED BY <2>1, <2>2, DiskStep
<1>4. ASSUME NEW u \in Thread, req'[u].call = "CreateGrant"
      PROVE  /\ disk'[req'[u].id] = None /\ IsNew(req'[u].doc)
             /\ \A t \in Thread : req'[t].call = "CreateGrant" /\ req'[t].id = req'[u].id => t = u
  <2>1. CASE New(u)
    <3>1. ASSUME NEW t \in Thread, req'[t].call = "CreateGrant", req'[t].id = req'[u].id, t # u
          PROVE  FALSE
      BY <1>2, <2>1, <3>1
    <3>. QED BY <1>2, <2>1, <3>1
  <2>2. CASE Old(u)
    <3>1. IsNew(req'[u].doc)
      BY <2>2 DEF Drafts
    <3>2. ASSUME NEW t \in Thread, req'[t].call = "CreateGrant", req'[t].id = req'[u].id
          PROVE  t = u
      <4>1. CASE New(t)
        BY <1>2, <2>2, <3>2, <4>1
      <4>2. CASE Old(t)
        BY <2>2, <3>2, <4>2 DEF Drafts
      <4>. QED BY <1>1, <3>2, <4>1, <4>2
    <3>. QED BY <1>3, <1>4, <2>2, <3>1, <3>2
  <2>. QED BY <1>1, <1>4, <2>1, <2>2
<1>. QED BY <1>4 DEF Drafts

LEMMA ChangeLater ==
  ASSUME NEW g, NEW h, NEW n \in Nat, NEW m \in Nat, n <= m, Change(g, h, n)
  PROVE  Change(g, h, m)
<1>1. g \in Grant => g.expires \in Nat
  BY DEF Grant, Time
<1>. QED BY <1>1 DEF Change

\* A final status is never left.
LEMMA ChangeFinal ==
  ASSUME NEW g \in Grant, NEW h, NEW n, Final(g), Change(g, h, n)
  PROVE  Final(h)
<1>1. g # None /\ ~Pending(g) /\ ~Approvable(g)
  BY NullsAssumption DEF Final, Pending, Approvable
<1>2. Denied(g).status = "denied" /\ Expired(g).status = "expired"
  BY DEF Denied, Expired, Grant
<1>3. g.status \notin {"pending", "approved"}
  BY DEF Final
<1>4. h = g \/ h = Expired(g)
  BY <1>1, <1>3 DEF Change
<1>. QED BY <1>2, <1>4 DEF Final

\* The store decides on what is on disk: what it begins to write is one change.
LEMMA BeginsCurrent ==
  ASSUME IInv, Drafts, NEW t \in Thread, Serve(t), Writing(req'[t]), ~Proceeds(t)
  PROVE  /\ disk' = disk /\ clock' = clock
         /\ Change(disk[req'[t].id], req'[t].doc, clock)
<1>. DEFINE i == req[t].id
            g == disk[i]
<1>0. TypeInv /\ Shape(req[t]) /\ ~Elsewhere(t)
  BY DEF IInv, TypeInv, Shapes, Elsewhere
<1>1. ASSUME NEW h, Begins(t, h), Change(g, h, clock)
      PROVE  /\ disk' = disk /\ clock' = clock
             /\ Change(disk[req'[t].id], req'[t].doc, clock)
  BY <1>1 DEF Begins
<1>2. CASE CreateGrant(t) /\ Begins(t, req[t].doc)
  <2>1. g = None /\ IsNew(req[t].doc)
    BY <1>2 DEF CreateGrant, At, Drafts
  <2>. QED BY <1>1, <1>2, <2>1 DEF Change
<1>3. CASE /\ MarkCodeVerified(t) /\ Begins(t, Verified(g))
           /\ i \in Id /\ Readable(i) /\ Pending(g)
  <2>1. Change(g, Verified(g), clock)
    BY <1>3 DEF Change, Readable
  <2>. QED BY <1>1, <1>3, <2>1
<1>4. ASSUME ApproveGrant(t), Readable(i), Approvable(g),
             NEW a \in {req[t].doc.approved, req[t].doc.requested}, NEW s \in Subject,
             Begins(t, Approved(g, a, s))
      PROVE  /\ disk' = disk /\ clock' = clock
             /\ Change(disk[req'[t].id], req'[t].doc, clock)
  <2>1. i \in Id /\ req[t].doc \in Grant
    BY <1>0, <1>4 DEF ApproveGrant, At, Shape
  <2>2. g \in Copies(i) /\ req[t].doc \in Copies(i)
    BY <1>4, <2>1, CopyOfFiles DEF Readable
  <2>3. /\ Consistent(g) /\ Consistent(req[t].doc)
        /\ SameGrant(g, req[t].doc)
    BY <2>1, <2>2 DEF IInv, CopiesAgree, CopiesConsistent
  <2>4. a = {} \/ a = g.requested
    BY <2>3 DEF Consistent, SameGrant
  <2>5. Approved(g, a, s) = Approved(g, g.requested, s)
    BY <2>4 DEF Approved
  <2>6. Change(g, Approved(g, a, s), clock)
    BY <1>4, <2>5 DEF Change, Readable
  <2>. QED BY <1>1, <1>4, <2>6
<1>5. CASE /\ DenyGrant(t) /\ Readable(i)
           /\ Begins(t, IF Overdue(g) THEN Expired(g) ELSE Denied(g))
  <2>1. i \in Id /\ g \in Grant
    BY <1>0, <1>5 DEF DenyGrant, At, Shape, Readable
  <2>2. CASE Overdue(g)
    <3>1. Change(g, Expired(g), clock)
      BY <2>1, <2>2 DEF Change, Overdue
    <3>. QED BY <1>1, <1>5, <2>2, <3>1
  <2>3. CASE ~Overdue(g)
    <3>1. g.status # "expired"
      BY <2>1, <2>3, CopyOfFiles DEF IInv, ExpiryTold
    <3>2. g.status = "denied" => Denied(g) = g
      BY <2>1 DEF Denied, Grant
    <3>3. Change(g, Denied(g), clock)
      BY <2>1, <3>1, <3>2 DEF Change, Grant, Status
    <3>. QED BY <1>1, <1>5, <2>3, <3>3
  <2>. QED BY <2>2, <2>3
<1>6. CASE GetGrant(t) /\ Readable(i) /\ Overdue(g) /\ Begins(t, Expired(g))
  <2>1. Change(g, Expired(g), clock)
    BY <1>6 DEF Change, Overdue, Readable
  <2>. QED BY <1>1, <1>6, <2>1
<1>7. ~Issues(t, g)
  BY DEF Issues, Writing
<1>. QED BY <1>0, <1>2, <1>3, <1>4, <1>5, <1>6, <1>7, ServeMoves

LEMMA CurrentStep ==
  ASSUME IInv, Locked, Drafts, Current, Next
  PROVE  Current'
<1>. SUFFICES ASSUME NEW u \in Thread, Writing(req'[u])
              PROVE  Change(disk'[req'[u].id], req'[u].doc, clock')
  BY DEF Current
<1>0. TypeInv /\ req \in [Thread -> Request]
  BY DEF IInv, TypeInv, TypeOK
<1>1. CASE Writing(req[u]) /\ req'[u].id = req[u].id /\ req'[u].doc = req[u].doc
  <2>1. ASSUME NEW t \in Thread, Replaces(t) PROVE FALSE
    BY <1>0, <1>1, <2>1, ReplacesEnds, AloneThere
  <2>2. disk' = disk
    BY <1>0, <2>1, DiskStep
  <2>3. Change(disk[req[u].id], req[u].doc, clock)
    BY <1>1 DEF Current
  <2>. QED BY <1>0, <1>1, <2>2, <2>3, Monotone, ChangeLater
<1>2. ASSUME NEW t \in Thread, Arrive(t) \/ Serve(t), t # u
      PROVE  Change(disk'[req'[u].id], req'[u].doc, clock')
  BY <1>0, <1>1, <1>2, OthersWait
<1>3. CASE Serve(u)
  <2>1. CASE Proceeds(u)
    BY <1>1, <2>1 DEF Proceeds
  <2>2. CASE ~Proceeds(u)
    BY <1>3, <2>2, BeginsCurrent
  <2>. QED BY <2>1, <2>2
<1>4. ~Arrive(u)
  <2>1. ASSUME Arrive(u) PROVE FALSE
    <3>1. PICK r : Arrives(u, r)
      BY <2>1, ArriveMoves
    <3>2. req'[u] = r
      BY <1>0, <3>1 DEF Arrives, Become
    <3>. QED BY <3>1, <3>2 DEF Arrives, Writing
  <2>. QED BY <2>1
<1>5. CASE Tick
  BY <1>1, <1>5 DEF Tick
<1>6. ASSUME NEW p \in Process, Crash(p)
      PROVE  Change(disk'[req'[u].id], req'[u].doc, clock')
  <2>1. req'[u] = Idle \/ req'[u] = req[u]
    BY <1>6 DEF Crash
  <2>. QED BY <1>1, <2>1 DEF Idle, Writing
<1>. QED BY <1>2, <1>3, <1>4, <1>5, <1>6 DEF Next

\* "Denied" is said of a grant that is denied on disk as it is said.
LEMMA DenialTold ==
  ASSUME TypeInv, Locked, Next, NEW i \in Id, "denied" \in told'[i], "denied" \notin told[i]
  PROVE  disk'[i] \in Grant /\ Final(disk'[i])
<1>. USE DEF Files, Ghosts
<1>0. told \in [Id -> SUBSET {"denied", "expired"}] /\ disk \in [Id -> Content]
  BY DEF TypeInv, TypeOK
<1>1. told' # told
  OBVIOUS
<1>2. ASSUME NEW t \in Thread, GetGrant(t) PROVE disk'[i] \in Grant /\ Final(disk'[i])
  <2>1. Readable(req[t].id) /\ AfterGet(t, disk[req[t].id]) /\ disk' = disk
    BY <1>1, <1>2 DEF GetGrant
  <2>2. Ends(t, disk[req[t].id].status)
    BY <1>1, <2>1, AfterGetMoves DEF Issues, Decides
  <2>3. i = req[t].id /\ disk[i].status = "denied"
    BY <1>0, <1>1, <2>2 DEF Ends
  <2>. QED BY <2>1, <2>3 DEF Readable, Final
<1>3. ASSUME NEW t \in Thread, NEW ok \in BOOLEAN, Writing(req[t]), WriteReturns(t, ok)
      PROVE  i = req[t].id /\ ok /\ req[t].doc.status = "denied"
  <2>1. Ends(t, req[t].doc.status) \/ Decides(t)
    BY <1>3, ReturnMoves
  <2>2. i = req[t].id
    BY <1>0, <1>1, <2>1 DEF Ends, Decides
  <2>. QED BY <1>3, <2>2, ReturnMoves
<1>4. ASSUME NEW t \in Thread, RenameFindsNothing(t) \/ WriteFails(t) PROVE FALSE
  <2>1. Writing(req[t]) /\ WriteReturns(t, FALSE)
    BY <1>4 DEF RenameFindsNothing, WriteFails, Writing
  <2>. QED BY <2>1, <1>3
<1>5. ASSUME NEW t \in Thread, RenameTmp(t) PROVE disk'[i] \in Grant /\ Final(disk'[i])
  <2>1. Writing(req[t]) /\ WriteReturns(t, TRUE) /\ WritesAlone(t)
    BY <1>5 DEF RenameTmp, Writing, Locked
  <2>2. i = req[t].id /\ req[t].doc.status = "denied"
    BY <2>1, <1>3
  <2>3. disk'[i] = req[t].doc /\ req[t].doc \in Grant
    BY <1>0, <1>5, <2>1, <2>2 DEF RenameTmp, WritesAlone, TypeInv, Shapes, Shape
  <2>. QED BY <2>2, <2>3 DEF Final
<1>6. ASSUME NEW t \in Thread, Serve(t), ~GetGrant(t), ~RenameTmp(t),
             ~RenameFindsNothing(t), ~WriteFails(t)
      PROVE  FALSE
  BY <1>1, <1>6 DEF Serve, CreateGrant, MarkCodeVerified, ApproveGrant, DenyGrant,
       ListGrants, ScanGrant, ScanFails, ReadFails, OpenTmp, WriteData, IssueToken, IssueFails
<1>7. ASSUME NEW t \in Thread, Arrive(t) PROVE FALSE
  BY <1>1, <1>7, ArriveMoves
<1>8. ~Tick /\ ~ \E p \in Process : Crash(p)
  BY <1>1 DEF Tick, Crash
<1>. QED BY <1>2, <1>4, <1>5, <1>6, <1>7, <1>8 DEF Next

LEMMA DenialStaysStep ==
  ASSUME TypeInv, Locked, Current, DenialStays, Next
  PROVE  DenialStays'
<1>. SUFFICES ASSUME NEW i \in Id, "denied" \in told'[i]
              PROVE  disk'[i] \in Grant /\ Final(disk'[i])
  BY DEF DenialStays, Readable
<1>1. CASE "denied" \notin told[i]
  BY <1>1, DenialTold
<1>2. CASE "denied" \in told[i]
  <2>1. disk[i] \in Grant /\ Final(disk[i])
    BY <1>2 DEF DenialStays, Readable
  <2>2. CASE disk' = disk
    BY <2>1, <2>2
  <2>3. ASSUME NEW t \in Thread, Replaces(t) PROVE disk'[i] \in Grant /\ Final(disk'[i])
    <3>0. /\ disk' = [disk EXCEPT ![req[t].id] = req[t].doc]
          /\ req[t].doc \in Grant /\ disk \in [Id -> Content]
      BY <2>3 DEF Replaces, TypeInv, TypeOK
    <3>1. CASE req[t].id = i
      <4>1. Change(disk[i], req[t].doc, clock)
        BY <2>3, <3>1, ReplacesEnds DEF Current
      <4>2. Final(req[t].doc)
        BY <2>1, <4>1, ChangeFinal
      <4>. QED BY <3>0, <3>1, <4>2
    <3>2. CASE req[t].id # i
      BY <2>1, <3>0, <3>2
    <3>. QED BY <3>1, <3>2
  <2>. QED BY <2>2, <2>3, DiskStep
<1>. QED BY <1>1, <1>2

\* A request that reaches the issuance has read an approved grant just then.
LEMMA IssueMoves ==
  ASSUME TypeInv, Next, NEW u \in Thread, req'[u].pc = "issue"
  PROVE  \/ req'[u] = req[u]
         \/ /\ req[u].id \in Id /\ Readable(req[u].id)
            /\ disk[req[u].id].status = "approved" /\ req'[u].told = req[u].told
            /\ req'[u].id = req[u].id /\ req'[u].doc = disk[req[u].id] /\ disk' = disk
<1>. DEFINE Goal ==
       \/ req'[u] = req[u]
       \/ /\ req[u].id \in Id /\ Readable(req[u].id)
          /\ disk[req[u].id].status = "approved" /\ req'[u].told = req[u].told
          /\ req'[u].id = req[u].id /\ req'[u].doc = disk[req[u].id] /\ disk' = disk
<1>0. req \in [Thread -> Request] /\ Shape(req[u])
  BY DEF TypeInv, TypeOK, Shapes
<1>1. ASSUME NEW t \in Thread, Arrive(t) \/ Serve(t), t # u PROVE Goal
  BY <1>1, OthersWait
<1>2. ASSUME Arrive(u) PROVE FALSE
  <2>1. PICK r : Arrives(u, r)
    BY <1>2, ArriveMoves
  <2>2. req'[u] = r
    BY <1>0, <2>1 DEF Arrives, Become
  <2>. QED BY <2>1, <2>2 DEF Arrives
<1>3. CASE Serve(u)
  <2>1. GetGrant(u) /\ Readable(req[u].id) /\ Issues(u, disk[req[u].id])
    BY <1>3, ServeMoves DEF Begins, Proceeds, Elsewhere, Writing
  <2>2. req[u].id \in Id /\ disk' = disk
    BY <1>0, <2>1 DEF GetGrant, At, Shape, Files
  <2>. QED BY <2>1, <2>2 DEF Issues, MayIssue
<1>4. CASE Tick
  BY <1>4 DEF Tick
<1>5. ASSUME NEW p \in Process, Crash(p) PROVE Goal
  BY <1>5 DEF Crash, Idle
<1>. QED BY <1>1, <1>2, <1>3, <1>4, <1>5 DEF Next

LEMMA NoTokenAfterDenialStep ==
  ASSUME TypeInv, ExpiryTold, DenialStays, NoTokenAfterDenial, Next
  PROVE  NoTokenAfterDenial'
<1>. SUFFICES ASSUME NEW u \in Thread, req'[u].pc = "issue"
              PROVE  "denied" \notin req'[u].told
  BY DEF NoTokenAfterDenial
<1>1. CASE req'[u] = req[u]
  BY <1>1 DEF NoTokenAfterDenial
<1>2. CASE /\ req[u].id \in Id /\ Readable(req[u].id)
           /\ disk[req[u].id].status = "approved" /\ req'[u].told = req[u].told
  <2>1. "denied" \notin told[req[u].id]
    BY <1>2 DEF DenialStays, Final
  <2>. QED BY <1>2, <2>1 DEF ExpiryTold
<1>. QED BY <1>1, <1>2, IssueMoves

-----------------------------------------------------------------------------
LEMMA InitOneInv == Init => OneInv
<1>. SUFFICES ASSUME Init PROVE OneInv
  OBVIOUS
<1>1. IInv
  BY InitIInv
<1>2. \A t \in Thread : req[t] = Idle /\ fd[t] = "none"
  BY DEF Init
<1>3. Locked /\ Drafts /\ Current /\ NoTokenAfterDenial
  BY <1>2 DEF Locked, WritesAlone, Drafts, Current, NoTokenAfterDenial, Idle, Writing
<1>4. NeverTorn /\ DenialStays
  BY DEF Init, NeverTorn, DenialStays
<1>. QED BY <1>1, <1>3, <1>4 DEF OneInv

LEMMA StepOneInv ==
  ASSUME PGThread = {}
  PROVE  OneInv /\ [Next]_vars => OneInv'
<1>. SUFFICES ASSUME OneInv, [Next]_vars PROVE OneInv'
  OBVIOUS
<1>1. IInv'
  BY StepIInv DEF OneInv
<1>2. CASE Next
  <2>1. TypeInv /\ Known /\ ExpiryTold
    BY DEF OneInv, IInv
  <2>. QED BY <1>1, <1>2, <2>1, LockedStep, NeverTornStep, DraftsStep, CurrentStep,
              DenialStaysStep, NoTokenAfterDenialStep
           DEF OneInv
<1>3. CASE UNCHANGED vars
  <2>1. UNCHANGED <<disk, tmp, mutex, clock, req, fd, told>>
    BY <1>3 DEF vars
  <2>2. Locked'
    BY <2>1 DEF OneInv, Locked, WritesAlone
  <2>3. Drafts' /\ Current'
    BY <2>1 DEF OneInv, Drafts, Current
  <2>4. NeverTorn' /\ DenialStays' /\ NoTokenAfterDenial'
    BY <2>1 DEF OneInv, NeverTorn, DenialStays, NoTokenAfterDenial, Readable
  <2>. QED BY <1>1, <2>2, <2>3, <2>4 DEF OneInv
<1>. QED BY <1>2, <1>3

LEMMA OneInvariance ==
  ASSUME PGThread = {}
  PROVE  Spec => []OneInv
<1>1. OneInv /\ [Next]_vars => OneInv'
  BY StepOneInv
<1>. QED BY <1>1, InitOneInv, PTL DEF Spec

\* One process that writes a temporary file and renames it keeps every grant
\* readable, through any failed writes and crashes (writeGrant).
THEOREM GrantsStayReadable ==
  ASSUME PGThread = {}
  PROVE  Spec => []NeverTorn
<1>1. OneInv => NeverTorn
  BY DEF OneInv
<1>. QED BY <1>1, OneInvariance, PTL

\* In one process, no /continue that arrives after somebody was told that the
\* grant is denied is issued a token, although DenyGrant and ApproveGrant work
\* on what their handlers read before (DenyGrant, ApproveGrant, ContinueGrant).
THEOREM DenialIsFinal ==
  ASSUME PGThread = {}
  PROVE  Spec => []NoTokenAfterDenial
<1>1. OneInv => NoTokenAfterDenial
  BY DEF OneInv
<1>. QED BY <1>1, OneInvariance, PTL

-----------------------------------------------------------------------------
(* One process implements the atomic store. *)

\* What a rename makes of a grant is a step of the abstract store.
LEMMA ChangeIsLife ==
  ASSUME NEW i \in Id, NEW h, Change(disk[i], h, clock), clock' = clock,
         disk' = [disk EXCEPT ![i] = h], disk \in [Id -> Content]
  PROVE  Lifecycle!LifeNext \/ UNCHANGED <<disk, clock>>
<1>. DEFINE g == disk[i]
<1>0. Lifecycle!Set(i, h)
  BY DEF Lifecycle!Set
<1>1. CASE g = None /\ IsNew(h)
  <2>1. Lifecycle!Create(i)
    BY <1>0, <1>1
    DEF IsNew, NewGrant, Time,
        Lifecycle!Create, Lifecycle!Exists, Lifecycle!NewGrant, Lifecycle!Time
  <2>. QED BY <2>1 DEF Lifecycle!LifeNext
<1>2. CASE g \in Grant /\ h = g
  <2>1. disk' = disk
    BY <1>2
  <2>. QED BY <2>1
<1>3. CASE g \in Grant /\ Pending(g) /\ h = Verified(g)
  <2>1. Lifecycle!Verify(i)
    BY <1>0, <1>3, NullsAssumption
    DEF Lifecycle!Verify, Lifecycle!Exists, Lifecycle!Pending, Lifecycle!Verified,
        Pending, Verified
  <2>. QED BY <2>1 DEF Lifecycle!LifeNext
<1>4. CASE g \in Grant /\ Approvable(g) /\ \E s \in Subject : h = Approved(g, g.requested, s)
  <2>1. Lifecycle!Approve(i)
    BY <1>0, <1>4, NullsAssumption
    DEF Lifecycle!Approve, Lifecycle!Exists, Lifecycle!Approvable, Lifecycle!Approved,
        Lifecycle!Pending, Lifecycle!Subject, Approvable, Approved, Pending, Subject
  <2>. QED BY <2>1 DEF Lifecycle!LifeNext
<1>5. CASE g \in Grant /\ g.status \in {"pending", "approved"} /\ h = Denied(g)
  <2>1. Lifecycle!Deny(i)
    BY <1>0, <1>5, NullsAssumption
    DEF Lifecycle!Deny, Lifecycle!Exists, Lifecycle!Denied, Denied
  <2>. QED BY <2>1 DEF Lifecycle!LifeNext
<1>6. CASE g \in Grant /\ clock > g.expires /\ h = Expired(g)
  <2>1. Lifecycle!Expire(i)
    BY <1>0, <1>6, NullsAssumption
    DEF Lifecycle!Expire, Lifecycle!Exists, Lifecycle!Expired, Expired
  <2>. QED BY <2>1 DEF Lifecycle!LifeNext
<1>. QED BY <1>1, <1>2, <1>3, <1>4, <1>5, <1>6 DEF Change

LEMMA StepIsLife ==
  ASSUME OneInv, [Next]_vars
  PROVE  [Lifecycle!LifeNext]_<<disk, clock>>
<1>0. TypeInv /\ Locked /\ disk \in [Id -> Content]
  BY DEF OneInv, IInv, TypeInv, TypeOK
<1>1. CASE UNCHANGED vars
  BY <1>1 DEF vars
<1>2. CASE Tick
  <2>1. Lifecycle!Wait
    BY <1>2 DEF Tick, Files, Lifecycle!Wait
  <2>. QED BY <2>1 DEF Lifecycle!LifeNext
<1>3. CASE Next /\ ~Tick
  <2>1. clock' = clock
    BY <1>3, ClockStep
  <2>2. ASSUME NEW t \in Thread, Replaces(t)
        PROVE  Lifecycle!LifeNext \/ UNCHANGED <<disk, clock>>
    <3>1. Change(disk[req[t].id], req[t].doc, clock)
      BY <1>0, <2>2, ReplacesEnds DEF OneInv, Current
    <3>. QED BY <1>0, <2>1, <2>2, <3>1, ChangeIsLife DEF Replaces
  <2>. QED BY <1>0, <1>3, <2>1, <2>2, DiskStep
<1>. QED BY <1>1, <1>2, <1>3

\* The FileStore of one process, with its files, its mutex, failed writes and
\* crashes, implements the store of GrantLifecycle, in which each call is one
\* step on the current grant and a decided grant is never open again.
THEOREM StoreImplementsLifecycle ==
  ASSUME PGThread = {}
  PROVE  Spec => StoreIsAtomic
<1>1. Init => Lifecycle!LifeInit
  BY DEF Init, Lifecycle!LifeInit
<1>2. OneInv /\ [Next]_vars => [Lifecycle!LifeNext]_(Lifecycle!lifeVars)
  BY StepIsLife DEF Lifecycle!lifeVars
<1>3. Spec => []OneInv
  BY OneInvariance
<1>. QED BY <1>1, <1>2, <1>3, PTL DEF Spec, StoreIsAtomic, Lifecycle!LifeSpec

-----------------------------------------------------------------------------
(* A grant is never undone. *)

\* One call of the store takes nothing back.  That approved access is not
\* replaced rests on the grant's consistency: a pending grant has none.
LEMMA ChangeContinues ==
  ASSUME NEW g \in Grant, Consistent(g), NEW h \in Grant, NEW n, Change(g, h, n)
  PROVE  Continues(g, h)
<1>. USE DEF Stage
<1>1. g # None /\ g.status \in Status
  BY NullsAssumption DEF Grant
<1>2. CASE h = g
  BY <1>1, <1>2 DEF Continues, Status
<1>3. CASE Pending(g) /\ h = Verified(g)
  BY <1>1, <1>3 DEF Continues, Verified, Grant, Status
<1>4. CASE Approvable(g) /\ \E s \in Subject : h = Approved(g, g.requested, s)
  <2>1. g.status = "pending" /\ g.subject = "none"
    BY <1>4 DEF Approvable, Pending, Consistent
  <2>. QED BY <1>4, <2>1 DEF Continues, Approved, Grant
<1>5. CASE g.status \in {"pending", "approved"} /\ h = Denied(g)
  BY <1>5 DEF Continues, Denied, Grant
<1>6. CASE h = Expired(g)
  BY <1>1, <1>6 DEF Continues, Expired, Grant, Status
<1>. QED BY <1>1, <1>2, <1>3, <1>4, <1>5, <1>6 DEF Change

LEMMA StepContinues ==
  ASSUME OneInv, [Next]_vars, NEW i \in Id, disk[i] # None
  PROVE  Readable(i)' /\ Continues(disk[i], disk'[i])
<1>. DEFINE g == disk[i]
<1>0. TypeInv /\ Locked /\ disk \in [Id -> Content]
  BY DEF OneInv, IInv, TypeInv, TypeOK
<1>1. g \in Grant /\ Consistent(g)
  <2>1. Readable(i)
    BY DEF OneInv, NeverTorn
  <2>. QED BY <2>1, CopyOfFiles DEF OneInv, IInv, CopiesConsistent, Readable
<1>2. CASE disk' = disk
  <2>1. Change(g, g, clock)
    BY <1>1 DEF Change
  <2>. QED BY <1>1, <1>2, <2>1, ChangeContinues DEF Readable
<1>3. ASSUME NEW t \in Thread, Replaces(t) PROVE Readable(i)' /\ Continues(g, disk'[i])
  <2>1. CASE req[t].id = i
    <3>1. disk'[i] = req[t].doc /\ req[t].doc \in Grant
      BY <1>0, <1>3, <2>1 DEF Replaces
    <3>2. Change(g, req[t].doc, clock)
      BY <1>0, <1>3, <2>1, ReplacesEnds DEF OneInv, Current
    <3>. QED BY <1>1, <3>1, <3>2, ChangeContinues DEF Readable
  <2>2. CASE req[t].id # i
    <3>1. disk'[i] = g
      BY <1>0, <1>3, <2>2 DEF Replaces
    <3>2. Change(g, g, clock)
      BY <1>1 DEF Change
    <3>. QED BY <1>1, <3>1, <3>2, ChangeContinues DEF Readable
  <2>. QED BY <2>1, <2>2
<1>4. CASE UNCHANGED vars
  BY <1>2, <1>4 DEF vars
<1>. QED BY <1>0, <1>2, <1>3, <1>4, DiskStep

\* In one process no call undoes what another has done to a grant, whichever
\* writes fail and whenever the process crashes: a decision stays decided, and
\* what was approved stays what it was (writeGrant, MarkCodeVerified,
\* ApproveGrant, DenyGrant, GetGrant).
THEOREM NoGrantIsUndone ==
  ASSUME PGThread = {}
  PROVE  Spec => NothingUndone
<1>1. OneInv /\ [Next]_vars =>
        [\A i \in Id : disk[i] # None => Readable(i)' /\ Continues(disk[i], disk'[i])]_disk
  BY StepContinues
<1>. QED BY <1>1, OneInvariance, PTL DEF Spec, NothingUndone
=============================================================================
