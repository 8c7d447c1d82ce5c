------------------------------ MODULE GrantStore ------------------------------
(***************************************************************************)
(* The grants of the authorization server: the FileStore that keeps one    *)
(* JSON file per grant (internal/gnap/store_fs.go) and the HTTP handlers   *)
(* that read and change it.  The state of a grant lives on disk only.  The *)
(* server and the playground are two processes over one data directory,    *)
(* each with a mutex of its own, so a call of the store is a read, a       *)
(* change and a write (open the temporary file, fill it, rename it) that   *)
(* only the goroutines of the same process cannot interleave.              *)
(*                                                                         *)
(* A definition whose name ends in _F is the one after it with a fault a   *)
(* later change might introduce; no specification uses it.  PROJECT.json   *)
(* names the property that each fault must break.                          *)
(***************************************************************************)
EXTENDS Grants

CONSTANTS
  ASThread,   \* request goroutines of the authorization server (cmd/as)
  PGThread,   \* request goroutines of the playground (cmd/playground)
  MaxFail,    \* bound: failed file operations
  MaxCrash,   \* bound: crashes of a process
  MaxMint,    \* bound: completed issuances of a grant are counted up to this
  None, Empty, Torn   \* no file; a truncated one; one that is no JSON

Thread == ASThread \cup PGThread
Process == {"as", "playground"}
Proc(t) == IF t \in ASThread THEN "as" ELSE "playground"
SubjectOf(t) == IF t \in ASThread THEN "user:device" ELSE "user:debug"

Content == Grant \cup {None, Empty, Torn}

ASSUME BoundsAssumption == MaxFail \in Nat /\ MaxCrash \in Nat /\ MaxMint \in Nat

ASSUME ThreadsAssumption == ASThread \cap PGThread = {}

ASSUME NullsAssumption ==
  /\ None \notin Grant /\ Empty \notin Grant /\ Torn \notin Grant
  /\ None # Empty /\ None # Torn /\ Empty # Torn
  /\ None \notin Thread /\ None \notin Id /\ None \notin Code

VARIABLES
  disk,     \* disk[i]: the file grants/i.json
  tmp,      \* tmp[i]: the file grants/i.json.tempFilePath
  mutex,    \* mutex[p]: the goroutine that holds FileStore.mu of process p
  clock,    \* time.Now(), read by both processes
  req,      \* req[t]: the request goroutine t serves
  fd,       \* fd[t]: where the descriptor that goroutine t writes to points
  minted,   \* minted[i]: how often IssueToken completed for grant i
  told,     \* told[i]: the final answers some caller has had about grant i
  entered,  \* the user codes entered at /device/verify so far
  fails, crashes

vars == <<disk, tmp, mutex, clock, req, fd, minted, told, entered, fails, crashes>>

(***************************************************************************)
(* A request: the handler (op), the store call it is in, its next step     *)
(* (pc), the grant id, the code and files of a scan, the right             *)
(* continuation token or not, the grant last read or about to be written   *)
(* (doc), and, for /continue, what had been told about the grant when the  *)
(* request arrived.                                                        *)
(***************************************************************************)
Op == {"grant", "verify", "approve", "deny", "continue"}
Call == {"CreateGrant", "FindGrant", "MarkCodeVerified", "GetGrant",
         "ApproveGrant", "DenyGrant"}

Request == [op : Op \cup {"none"}, call : Call \cup {"none"},
            pc : {"idle", "call", "scan", "open", "data", "rename", "issue"},
            id : Id \cup {None}, code : Code \cup {None}, todo : SUBSET Id,
            auth : BOOLEAN, doc : Grant \cup {None},
            told : SUBSET {"denied", "expired"}]

Idle == [op |-> "none", call |-> "none", pc |-> "idle", id |-> None,
         code |-> None, todo |-> {}, auth |-> FALSE, doc |-> None,
         told |-> {}]

Init ==
  /\ disk = [i \in Id |-> None]
  /\ tmp = [i \in Id |-> None]
  /\ mutex = [p \in Process |-> None]
  /\ clock = 0
  /\ req = [t \in Thread |-> Idle]
  /\ fd = [t \in Thread |-> "none"]
  /\ minted = [i \in Id |-> 0]
  /\ told = [i \in Id |-> {}]
  /\ entered = {}
  /\ fails = 0
  /\ crashes = 0

Readable(i) == disk[i] \in Grant
Expiration_F == clock + 60 * TTL         \* a TTL in the wrong unit
Expiration == clock + TTL
Overdue(g) == clock > g.expires
ExpiresOnRead_F(g) == Overdue(g) /\ Pending(g)               \* not if approved
ExpiresOnReadApproved_F(g) == Overdue(g) /\ g.status = "approved"
ExpiresOnRead(g) == Overdue(g) /\ g.status # "expired"
LockFree_F(t) == TRUE                    \* a store that forgets its mutex
LockFree(t) == mutex[Proc(t)] = None
At(t, pc, call) == req[t].pc = pc /\ req[t].call = call
Become(t, r) == req' = [req EXCEPT ![t] = r]
Files == <<disk, tmp, fd>>
Ghosts == <<minted, told, entered>>
Bounds == <<fails, crashes>>

-----------------------------------------------------------------------------
(* Requests arrive. *)

\* POST /grants: CreateGrant draws the id, the code and the expiry before it locks.
GrantRequest(t, i, c, a) ==
  /\ t \in ASThread /\ req[t] = Idle
  /\ disk[i] = None /\ tmp[i] = None
  /\ \A u \in Thread : req[u].call = "CreateGrant" => req[u].id # i
  /\ a # {} /\ clock + TTL < MaxTime
  /\ Become(t, [Idle EXCEPT !.op = "grant", !.call = "CreateGrant", !.pc = "call",
                  !.id = i, !.doc = NewGrant(c, a, Expiration)])
  /\ UNCHANGED <<Files, mutex, clock, Ghosts, Bounds>>

\* POST /device/verify and /device/verify/json.
VerifyRequest(t, c) ==
  /\ t \in ASThread /\ req[t] = Idle
  /\ Become(t, [Idle EXCEPT !.op = "verify", !.call = "FindGrant", !.pc = "call",
                  !.code = c])
  /\ entered' = entered \cup {c}
  /\ UNCHANGED <<Files, mutex, clock, minted, told, Bounds>>

\* POST /device/consent at the server, POST /debug/approve and /debug/deny at
\* the playground.
DecisionRequest(t, i, op) ==
  /\ op \in {"approve", "deny"} /\ req[t] = Idle
  /\ Become(t, [Idle EXCEPT !.op = op, !.call = "GetGrant", !.pc = "call",
                  !.id = i])
  /\ UNCHANGED <<Files, mutex, clock, Ghosts, Bounds>>

\* POST /continue/{grantId}, with the right continuation token or a wrong one.
ContinueRequest(t, i, right) ==
  /\ t \in ASThread /\ req[t] = Idle
  /\ Become(t, [Idle EXCEPT !.op = "continue", !.call = "GetGrant", !.pc = "call",
                  !.id = i, !.auth = right, !.told = told[i]])
  /\ UNCHANGED <<Files, mutex, clock, Ghosts, Bounds>>

-----------------------------------------------------------------------------
(* The calls of the store: lock, read the file, decide. *)

\* An early return: the deferred unlock runs and the handler answers.
GiveUp(t) == Become(t, Idle) /\ UNCHANGED mutex

\* The call goes on to write g, still under the lock.
Write(t, g) ==
  /\ mutex' = [mutex EXCEPT ![Proc(t)] = t]
  /\ Become(t, [req[t] EXCEPT !.pc = "open", !.doc = g])

CreateGrant(t) ==
  /\ At(t, "call", "CreateGrant") /\ LockFree(t)
  /\ Write(t, req[t].doc)
  /\ UNCHANGED <<Files, clock, Ghosts, Bounds>>

MarkCodeVerified(t) ==
  /\ At(t, "call", "MarkCodeVerified") /\ LockFree(t)
  /\ LET g == disk[req[t].id] IN
       IF Readable(req[t].id) /\ Pending(g)
       THEN Write(t, Verified(g))
       ELSE GiveUp(t)
  /\ UNCHANGED <<Files, clock, Ghosts, Bounds>>

ApproveGrant(t) ==
  /\ At(t, "call", "ApproveGrant") /\ LockFree(t)
  /\ LET g == disk[req[t].id]
         asked == IF t \in ASThread THEN req[t].doc.approved
                                    ELSE req[t].doc.requested
     IN IF Readable(req[t].id) /\ Approvable(g)
        THEN Write(t, Approved(g, asked, SubjectOf(t)))
        ELSE GiveUp(t)
  /\ UNCHANGED <<Files, clock, Ghosts, Bounds>>

DenyGrant(t) ==
  /\ At(t, "call", "DenyGrant") /\ LockFree(t)
  /\ LET g == disk[req[t].id] IN
       IF Readable(req[t].id)
       THEN Write(t, IF Overdue(g) THEN Expired(g) ELSE Denied(g))
       ELSE GiveUp(t)
  /\ UNCHANGED <<Files, clock, Ghosts, Bounds>>

\* What the handler does with the grant g that GetGrant returned: the consent
\* and debug handlers go on to the second call, /continue answers by status.
MayIssue(t, g) == req[t].op = "continue" /\ req[t].auth /\ g.status = "approved"

AfterGet(t, g) ==
  \/ /\ req[t].op = "approve"
     /\ Become(t, [req[t] EXCEPT !.pc = "call", !.call = "ApproveGrant", !.doc = g])
     /\ UNCHANGED told
  \/ /\ req[t].op = "deny"
     /\ Become(t, [req[t] EXCEPT !.pc = "call", !.call = "DenyGrant", !.doc = None])
     /\ UNCHANGED told
  \/ /\ MayIssue(t, g)
     /\ Become(t, [req[t] EXCEPT !.pc = "issue", !.doc = g])
     /\ UNCHANGED told
  \/ /\ req[t].op = "continue" /\ ~MayIssue(t, g)
     /\ Become(t, Idle)
     /\ told' = IF req[t].auth /\ g.status \in {"denied", "expired"}
                THEN [told EXCEPT ![req[t].id] = @ \cup {g.status}]
                ELSE told

\* GetGrant expires an overdue grant as it reads it, whatever its status.
GetGrant(t) ==
  /\ At(t, "call", "GetGrant") /\ LockFree(t)
  /\ LET g == disk[req[t].id] IN
       \/ /\ ~Readable(req[t].id)
          /\ GiveUp(t) /\ UNCHANGED told
       \/ /\ Readable(req[t].id) /\ ExpiresOnRead(g)
          /\ Write(t, Expired(g)) /\ UNCHANGED told
       \/ /\ Readable(req[t].id) /\ ~ExpiresOnRead(g)
          /\ AfterGet(t, g) /\ UNCHANGED mutex
  /\ UNCHANGED <<Files, clock, minted, entered, Bounds>>

\* FindGrantByUserCodePending lists the directory under the read lock ...
ListGrants(t) ==
  /\ At(t, "call", "FindGrant") /\ LockFree(t)
  /\ Become(t, [req[t] EXCEPT !.pc = "scan", !.todo = {i \in Id : disk[i] # None}])
  /\ UNCHANGED <<Files, mutex, clock, Ghosts, Bounds>>

Matches_F(t, i) == Readable(i) /\ Pending(disk[i])         \* any pending grant
Matches(t, i) == Readable(i) /\ Pending(disk[i]) /\ disk[i].code = req[t].code

\* ... and takes it again for each file, so the files may change in between.  A
\* file that cannot be read is passed over.
ScanGrant(t) ==
  /\ At(t, "scan", "FindGrant") /\ LockFree(t)
  /\ \E i \in req[t].todo :
       /\ \A j \in req[t].todo : i <= j
       /\ \/ /\ Matches(t, i) /\ UNCHANGED fails
             /\ Become(t, [req[t] EXCEPT !.pc = "call", !.call = "MarkCodeVerified",
                              !.id = i, !.todo = {}])
          \/ /\ ~Matches(t, i) /\ UNCHANGED fails
             /\ Become(t, [req[t] EXCEPT !.todo = @ \ {i}])
          \/ /\ fails < MaxFail /\ fails' = fails + 1
             /\ Become(t, [req[t] EXCEPT !.todo = @ \ {i}])
  /\ UNCHANGED <<Files, mutex, clock, Ghosts, crashes>>

ScanFails(t) ==
  /\ At(t, "scan", "FindGrant") /\ req[t].todo = {}
  /\ GiveUp(t)
  /\ UNCHANGED <<Files, clock, Ghosts, Bounds>>

\* The file of the grant, or the directory of a scan, cannot be read.
ReadFails(t) ==
  /\ req[t].pc = "call" /\ req[t].call # "CreateGrant" /\ LockFree(t)
  /\ fails < MaxFail /\ fails' = fails + 1
  /\ GiveUp(t)
  /\ UNCHANGED <<Files, clock, Ghosts, crashes>>

-----------------------------------------------------------------------------
(* writeGrant: os.WriteFile of the temporary file, then os.Rename. *)

\* An unlock at the end of each call instead of a deferred one, left out where
\* GetGrant expires the grant.
Unlock_F(t) == IF req[t].call = "GetGrant" THEN UNCHANGED mutex
               ELSE mutex' = [mutex EXCEPT ![Proc(t)] = None]
Unlock(t) == mutex' = [mutex EXCEPT ![Proc(t)] = None]

\* The call returns; ok is whether writeGrant succeeded.  GetGrant ignores a
\* failed write, and so does DenyGrant when the grant has expired.
WriteReturns(t, ok) ==
  /\ Unlock(t)
  /\ IF req[t].call = "GetGrant"
     THEN AfterGet(t, req[t].doc)
     ELSE /\ Become(t, Idle)
          /\ told' = IF req[t].call = "DenyGrant"
                        /\ (ok \/ req[t].doc.status = "expired")
                     THEN [told EXCEPT ![req[t].id] = @ \cup {req[t].doc.status}]
                     ELSE told

\* A writeGrant that truncates the grant's own file.
OpenTmp_F(t) ==
  /\ req[t].pc = "open"
  /\ disk' = [disk EXCEPT ![req[t].id] = Empty]
  /\ tmp' = [tmp EXCEPT ![req[t].id] = Empty]
  /\ fd' = [fd EXCEPT ![t] = "tmp"]
  /\ Become(t, [req[t] EXCEPT !.pc = "data"])
  /\ UNCHANGED <<mutex, clock, Ghosts, Bounds>>

\* O_CREATE|O_TRUNC: another writer's descriptor stays on the same file.
OpenTmp(t) ==
  /\ req[t].pc = "open"
  /\ tmp' = [tmp EXCEPT ![req[t].id] = Empty]
  /\ fd' = [fd EXCEPT ![t] = "tmp"]
  /\ Become(t, [req[t] EXCEPT !.pc = "data"])
  /\ UNCHANGED <<disk, mutex, clock, Ghosts, Bounds>>

\* What bytes c written to the open file of t leave there: the descriptor may
\* meanwhile be that of the grant's own file, or of one renamed over.
Put(t, c) ==
  /\ tmp' = IF fd[t] = "tmp" THEN [tmp EXCEPT ![req[t].id] = c] ELSE tmp
  /\ disk' = IF fd[t] = "disk" THEN [disk EXCEPT ![req[t].id] = c] ELSE disk
  /\ fd' = [fd EXCEPT ![t] = "none"]

OpenFile(t) == CASE fd[t] = "tmp" -> tmp[req[t].id]
                 [] fd[t] = "disk" -> disk[req[t].id]
                 [] OTHER -> Empty

\* Filling a file that holds another writer's bytes may leave some of them.
WriteData(t) ==
  /\ req[t].pc = "data"
  /\ \E c \in {req[t].doc, Torn} :
       /\ OpenFile(t) = Empty => c = req[t].doc
       /\ Put(t, c)
  /\ Become(t, [req[t] EXCEPT !.pc = "rename"])
  /\ UNCHANGED <<mutex, clock, Ghosts, Bounds>>

\* Where a descriptor on a temporary file points once that file is renamed.
Moved(f) == CASE f = "tmp" -> "disk" [] f = "disk" -> "lost" [] OTHER -> f

RenameTmp(t) ==
  /\ req[t].pc = "rename"
  /\ LET i == req[t].id IN
       /\ tmp[i] # None
       /\ disk' = [disk EXCEPT ![i] = tmp[i]]
       /\ tmp' = [tmp EXCEPT ![i] = None]
       /\ fd' = [u \in Thread |-> IF req[u].id = i THEN Moved(fd[u]) ELSE fd[u]]
  /\ WriteReturns(t, TRUE)
  /\ UNCHANGED <<clock, minted, entered, Bounds>>

\* The other process has renamed the temporary file away.
RenameFindsNothing(t) ==
  /\ req[t].pc = "rename" /\ tmp[req[t].id] = None
  /\ WriteReturns(t, FALSE)
  /\ UNCHANGED <<Files, clock, minted, entered, Bounds>>

\* Opening, filling or renaming fails; a failed fill leaves a torn file.
WriteFails(t) ==
  /\ req[t].pc \in {"open", "data", "rename"}
  /\ fails < MaxFail /\ fails' = fails + 1
  /\ IF req[t].pc = "data" THEN Put(t, Torn) ELSE UNCHANGED Files
  /\ WriteReturns(t, FALSE)
  /\ UNCHANGED <<clock, minted, entered, crashes>>

-----------------------------------------------------------------------------
(* The rest of /continue, time, and crashes. *)

\* token.IssueToken on the grant as GetGrant returned it; no lock is held.
IssueToken(t) ==
  /\ req[t].pc = "issue" /\ req[t].doc.approved # {}
  /\ minted' = [minted EXCEPT ![req[t].id] = IF @ < MaxMint THEN @ + 1 ELSE @]
  /\ Become(t, Idle)
  /\ UNCHANGED <<Files, mutex, clock, told, entered, Bounds>>

\* Nothing was approved, or the token store failed.
IssueFails(t) ==
  /\ req[t].pc = "issue"
  /\ GiveUp(t)
  /\ UNCHANGED <<Files, clock, Ghosts, Bounds>>

Tick ==
  /\ clock < MaxTime
  /\ clock' = clock + 1
  /\ UNCHANGED <<Files, mutex, req, Ghosts, Bounds>>

\* A process dies and is started again: its goroutines and its mutex are new.
Crash(p) ==
  /\ crashes < MaxCrash /\ crashes' = crashes + 1
  /\ \E t \in Thread : Proc(t) = p
  /\ req' = [t \in Thread |-> IF Proc(t) = p THEN Idle ELSE req[t]]
  /\ fd' = [t \in Thread |-> IF Proc(t) = p THEN "none" ELSE fd[t]]
  /\ mutex' = [mutex EXCEPT ![p] = None]
  /\ UNCHANGED <<disk, tmp, clock, Ghosts, fails>>

Arrive(t) ==
  \/ \E i \in Id, c \in Code, a \in SUBSET Access : GrantRequest(t, i, c, a)
  \/ \E c \in Code : VerifyRequest(t, c)
  \/ \E i \in Id, op \in Op : DecisionRequest(t, i, op)
  \/ \E i \in Id, right \in BOOLEAN : ContinueRequest(t, i, right)

Serve(t) ==
  \/ CreateGrant(t) \/ MarkCodeVerified(t) \/ GetGrant(t)
  \/ ApproveGrant(t) \/ DenyGrant(t)
  \/ ListGrants(t) \/ ScanGrant(t) \/ ScanFails(t) \/ ReadFails(t)
  \/ OpenTmp(t) \/ WriteData(t) \/ RenameTmp(t) \/ RenameFindsNothing(t)
  \/ WriteFails(t)
  \/ IssueToken(t) \/ IssueFails(t)

Next ==
  \/ \E t \in Thread : Arrive(t) \/ Serve(t)
  \/ Tick
  \/ \E p \in Process : Crash(p)

Spec == Init /\ [][Next]_vars

(***************************************************************************)
(* Fairness.  A goroutine that can run runs, and sync.RWMutex lets no      *)
(* waiting goroutine starve, hence strong fairness for the steps of a      *)
(* request.  Time passes.  Polls is the client's part: app.js calls        *)
(* /continue every two seconds for as long as the page is open.            *)
(***************************************************************************)
Scheduled == /\ \A t \in Thread : SF_vars(Serve(t))
             /\ WF_vars(Tick)

Polls == \A i \in Id : SF_vars(\E t \in ASThread : ContinueRequest(t, i, TRUE))

FairSpec == Spec /\ Scheduled
PollingSpec == FairSpec /\ Polls

-----------------------------------------------------------------------------
(* Properties. *)

TypeOK ==
  /\ disk \in [Id -> Content]
  /\ tmp \in [Id -> Content]
  /\ mutex \in [Process -> Thread \cup {None}]
  /\ clock \in Time
  /\ req \in [Thread -> Request]
  /\ fd \in [Thread -> {"none", "tmp", "disk", "lost"}]
  /\ minted \in [Id -> 0..MaxMint]
  /\ told \in [Id -> SUBSET {"denied", "expired"}]
  /\ entered \subseteq Code
  /\ fails \in 0..MaxFail
  /\ crashes \in 0..MaxCrash

\* No grant on disk is half decided, whatever the two processes and their
\* failed writes do to its file: access is approved if and only if somebody
\* decided, only for a verified code, never before the decision, and it is
\* exactly what the client requested (ApproveGrant, CreateGrant).
Consistent(g) ==
  /\ g.requested # {}
  /\ g.approved # {} <=> g.subject # "none"
  /\ g.approved # {} => g.approved = g.requested /\ g.verified
  /\ g.status = "approved" => g.approved # {}
  /\ g.status = "pending" => g.approved = {}

GrantConsistent == \A i \in Id : Readable(i) => Consistent(disk[i])

\* A grant is verified only if somebody entered its user code, although codes
\* may collide and the scan reads the files one by one without a lock in
\* between (FindGrantByUserCodePending, MarkCodeVerified).
VerifiedByItsCode ==
  \A i \in Id : Readable(i) /\ disk[i].verified => disk[i].code \in entered

\* Once some caller was told that a grant is expired, no /continue that
\* arrives later reaches IssueToken, although GetGrant ignores a failed write
\* of the expiry and the other process may write an older state back.
NoTokenAfterExpiry ==
  \A t \in Thread : req[t].pc = "issue" => "expired" \notin req[t].told

\* Once a caller was told that a grant is denied, no /continue that arrives
\* later reaches IssueToken.  For one process: DenyGrant and ApproveGrant run
\* under the same mutex.
NoTokenAfterDenial ==
  \A t \in Thread : req[t].pc = "issue" => "denied" \notin req[t].told

\* Writing a temporary file and renaming it keeps every grant readable through
\* crashes and failed writes, if one process serves the directory (writeGrant).
NeverTorn == \A i \in Id : disk[i] = None \/ Readable(i)

\* In each process the mutex is held by the goroutine that is writing a grant,
\* and by nobody else: no two write at a time, and no early return, failed
\* write or crash leaves it locked (Lock, defer Unlock).
Writing(r) == r.pc \in {"open", "data", "rename"}

HeldByAWriter ==
  \A p \in Process, t \in Thread : mutex[p] = t <=> Proc(t) = p /\ Writing(req[t])

\* The file store of one process implements the atomic store of grants: no
\* call works on a state that another call has replaced meanwhile, and no
\* grant moves backwards.
Lifecycle == INSTANCE GrantLifecycle WITH grant <- disk
StoreIsAtomic == Lifecycle!LifeSpec

\* With one process no grant is ever undone: a grant that exists stays, with its
\* code, its request and its expiry; a code once verified stays so; what was
\* approved, and for whom, is never replaced; and the status never goes back.
\* Each call writes the whole record as it read it, under the mutex, and a write
\* may fail or a crash cut it short (writeGrant, ApproveGrant, DenyGrant).
Stage == [pending |-> 0, approved |-> 1, denied |-> 2, expired |-> 3]

Continues(g, h) ==
  /\ h.code = g.code /\ h.requested = g.requested /\ h.expires = g.expires
  /\ g.verified => h.verified
  /\ g.subject # "none" => h.subject = g.subject /\ h.approved = g.approved
  /\ Stage[g.status] <= Stage[h.status]

NothingUndone ==
  [][\A i \in Id : disk[i] # None => Readable(i)' /\ Continues(disk[i], disk'[i])]_disk

\* Every request ends: no path through the store leaves its mutex locked.
EveryRequestEnds == \A t \in Thread : req[t] # Idle ~> req[t] = Idle

\* A /continue with the right token ends with the answer that its grant is over:
\* GetGrant has read it so, or has just expired it (callContinue in app.js).
HearsFinal(i) ==
  /\ crashes' = crashes
  /\ \E t \in ASThread :
       /\ req[t].op = "continue" /\ req[t].auth /\ req[t].id = i
       /\ req'[t] = Idle
       /\ LET g == IF req[t].pc = "call" /\ fails' = fails THEN disk[i] ELSE req[t].doc IN
            g \in Grant /\ g.status \in {"denied", "expired"}

\* Once there is a grant, the client that polls /continue for it is told in the end
\* that it is over, and again whenever it asks on, whoever else was told: the grant
\* expires on read even if nobody ever decides, and though writing that may fail.
PollingEnds ==
  \A i \in Id : [](disk[i] = None) \/ []<><<HearsFinal(i)>>_vars

\* The playground's diagram gives a pending grant one decision: "approved" and
\* "denied" lead to "finalized" only (app.js, diagramDef).  DenyGrant does not
\* ask whether the grant is still pending.
DecidedOnce ==
  [][\A i \in Id : ~ /\ Readable(i) /\ disk[i].status = "approved"
                     /\ Readable(i)' /\ disk'[i].status = "denied"]_disk

\* The same diagram has a grant finalized by the issuance of its token, and no
\* transition out of that.  /continue changes nothing about the grant, so a
\* client that polls again is issued another token.
IssuedOnce == \A i \in Id : minted[i] <= 1

\* Marking a code verified is an atomic transition in the store (device.go):
\* it succeeds only on a grant that is pending as it does.  The mutex is that
\* of one process, and the playground decides grants in the same directory.
MarksCode(t) == At(t, "rename", "MarkCodeVerified") /\ req'[t] = Idle

VerifyIsAtomic ==
  [][\A t \in Thread, i \in Id :
       MarksCode(t) /\ i = req[t].id /\ Readable(i) => Pending(disk[i])]_disk
=============================================================================
