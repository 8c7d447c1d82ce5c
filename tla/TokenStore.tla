------------------------------ MODULE TokenStore ------------------------------
(***************************************************************************)
(* The tokens of the authorization server: their store, one file per token *)
(* behind a cache (internal/gnap/store_tokens.go), the issuance of the     *)
(* tokens of a grant (internal/token), and introspection                   *)
(* (internal/handlers/introspect.go).  Put writes the file in place and    *)
(* then fills the cache; GetByHash falls back from the cache to the file   *)
(* and gives the lock up before it caches what it read; a restart fills    *)
(* the cache from the files it can read.                                   *)
(*                                                                         *)
(* A definition whose name ends in _F is the one after it with a fault; no *)
(* specification uses it.                                                  *)
(***************************************************************************)
EXTENDS Tokens

CONSTANTS
  Thread,     \* request goroutines
  Approvals,  \* sets of access that a grant may be approved for
  Audience,   \* locations that a grant may name
  Asked,      \* sets of access that a resource server may ask for
  ASGrantURL, \* the issuer that introspection answers for
  MaxFail,    \* bound: failed file operations
  MaxCrash,   \* bound: restarts of the server
  Torn        \* a file that is no JSON

ASSUME StoreAssumption ==
  /\ Approvals \cup Asked \subseteq SUBSET Access /\ Audience \subseteq SUBSET RS
  /\ MaxFail \in Nat /\ MaxCrash \in Nat /\ ASGrantURL \in Issuer
  /\ Torn \notin Record \cup {None} /\ None \notin Thread /\ None \notin Token

VARIABLES
  made,     \* made[k]: the record made for token k, before it is stored
  clock,
  file,     \* file[k]: tokens/k.json
  cache,    \* cache[k]: the record in memory
  lock,     \* the goroutine that holds the write lock across a step
  req,      \* req[t]: the request goroutine t serves
  given,    \* the answers of /continue that carried tokens
  gone,     \* queries about tokens that clients had, answered as inactive
  fails, crashes

vars == <<made, clock, file, cache, lock, req, given, gone, fails, crashes>>

(***************************************************************************)
(* A request: its next step (pc), the token at hand, the record it has     *)
(* read, who asks and for what.  For an issuance, the access still without *)
(* a token (todo), what was approved, and the tokens made.  For an         *)
(* introspection, whether a client had the token on arrival (held), what   *)
(* had been seen by then (gone), and whether reading failed (err).         *)
(***************************************************************************)
Query == Token \X RS \X Asked

Request == [pc : {"idle", "make", "put", "data", "cache", "get", "fill", "return", "judge",
                  "revoke", "stuck"},
            token : Token \cup {None}, rec : Record \cup {None},
            approved : SUBSET Access, todo : SUBSET Access, got : SUBSET Token,
            iss : Issuer \cup {None}, aud : SUBSET RS,
            rs : RS \cup {None}, asks : SUBSET Access,
            held : BOOLEAN, gone : BOOLEAN, err : BOOLEAN]

Idle == [pc |-> "idle", token |-> None, rec |-> None, approved |-> {}, todo |-> {},
         got |-> {}, iss |-> None, aud |-> {}, rs |-> None, asks |-> {},
         held |-> FALSE, gone |-> FALSE, err |-> FALSE]

Init ==
  /\ made = [k \in Token |-> None]
  /\ clock = 0
  /\ file = [k \in Token |-> None]
  /\ cache = [k \in Token |-> None]
  /\ lock = None
  /\ req = [t \in Thread |-> Idle]
  /\ given = {}
  /\ gone = {}
  /\ fails = 0
  /\ crashes = 0

Become(t, r) == req' = [req EXCEPT ![t] = r]
At(t, pc) == req[t].pc = pc
Readable(k) == file[k] \in Record
Held(k) == \E g \in given : k \in g.tokens
Seen == <<given, gone>>
Bounds == <<fails, crashes>>

-----------------------------------------------------------------------------
(* Issuance: IssueToken makes and stores one token per approved access. *)

\* /continue has found the grant approved.
IssueRequest(t, as, iss, aud) ==
  /\ At(t, "idle") /\ as # {}
  /\ Become(t, [Idle EXCEPT !.pc = "make", !.approved = as, !.todo = as,
                            !.iss = iss, !.aud = aud])
  /\ UNCHANGED <<made, clock, file, cache, lock, Seen, Bounds>>

\* IssueOpaqueToken makes a random token and its record for the next access.
MakeToken(t) ==
  /\ At(t, "make") /\ clock + TTL <= MaxTime
  /\ \E k \in Token, a \in req[t].todo :
       LET rec == [iss |-> req[t].iss, access |-> a, aud |-> req[t].aud,
                   exp |-> clock + TTL] IN
         /\ made[k] = None
         /\ made' = [made EXCEPT ![k] = rec]
         /\ Become(t, [req[t] EXCEPT !.pc = "put", !.token = k, !.rec = rec,
                                     !.todo = @ \ {a}])
  /\ UNCHANGED <<clock, file, cache, lock, Seen, Bounds>>

\* Put locks and truncates the file of the new token ...
OpenFile(t) ==
  /\ At(t, "put") /\ lock = None
  /\ lock' = t
  /\ file' = [file EXCEPT ![req[t].token] = Torn]
  /\ Become(t, [req[t] EXCEPT !.pc = "data"])
  /\ UNCHANGED <<made, clock, cache, Seen, Bounds>>

\* A Put that fills the cache and leaves the file to be written some time.
FillFile_F(t) ==
  /\ At(t, "data")
  /\ cache' = [cache EXCEPT ![req[t].token] = req[t].rec]
  /\ Become(t, [req[t] EXCEPT !.pc = "cache"])
  /\ UNCHANGED <<made, clock, file, lock, Seen, Bounds>>

\* ... fills it ...
FillFile(t) ==
  /\ At(t, "data")
  /\ file' = [file EXCEPT ![req[t].token] = req[t].rec]
  /\ Become(t, [req[t] EXCEPT !.pc = "cache"])
  /\ UNCHANGED <<made, clock, cache, lock, Seen, Bounds>>

\* An IssueToken that returns inside its loop.
CacheRecord_F(t) ==
  /\ At(t, "cache")
  /\ cache' = [cache EXCEPT ![req[t].token] = req[t].rec]
  /\ lock' = None
  /\ given' = given \cup {[access |-> req[t].approved, tokens |-> {req[t].token}]}
  /\ Become(t, Idle)
  /\ UNCHANGED <<made, clock, file, gone, Bounds>>

\* ... caches the record and unlocks.  IssueToken goes on to the next access, or
\* answers with all the tokens.
CacheRecord(t) ==
  /\ At(t, "cache")
  /\ cache' = [cache EXCEPT ![req[t].token] = req[t].rec]
  /\ lock' = None
  /\ LET r == [req[t] EXCEPT !.got = @ \cup {req[t].token}] IN
       \/ /\ r.todo = {}
          /\ given' = given \cup {[access |-> r.approved, tokens |-> r.got]}
          /\ Become(t, Idle)
       \/ /\ r.todo # {}
          /\ Become(t, [r EXCEPT !.pc = "make", !.token = None, !.rec = None])
          /\ UNCHANGED given
  /\ UNCHANGED <<made, clock, file, gone, Bounds>>

\* An issuance that answers with the tokens made before the failure.
Refuse_F(t) ==
  /\ Become(t, Idle)
  /\ given' = IF req[t].got = {} THEN given
              ELSE given \cup {[access |-> req[t].approved, tokens |-> req[t].got]}
\* IssueToken returns the error and none of the tokens it has stored already.
Refuse(t) == Become(t, Idle) /\ UNCHANGED given

\* An error return before the unlock.
PutFails_F(t) ==
  /\ At(t, "data") /\ UNCHANGED file
  /\ fails < MaxFail /\ fails' = fails + 1
  /\ UNCHANGED lock
  /\ Refuse(t)
  /\ UNCHANGED <<made, clock, cache, gone, crashes>>

\* os.WriteFile cannot open the file, fails on the way, or on closing it.
PutFails(t) ==
  /\ \/ At(t, "put") /\ lock = None /\ UNCHANGED file
     \/ At(t, "data") /\ UNCHANGED file
     \/ At(t, "data") /\ file' = [file EXCEPT ![req[t].token] = req[t].rec]
  /\ fails < MaxFail /\ fails' = fails + 1
  /\ lock' = None
  /\ Refuse(t)
  /\ UNCHANGED <<made, clock, cache, gone, crashes>>

-----------------------------------------------------------------------------
(* Introspection: GetByHash and the verdict. *)

\* A resource server that the signature has identified asks about a token.
IntrospectRequest(t, k, rs, asks) ==
  /\ At(t, "idle")
  /\ Become(t, [Idle EXCEPT !.pc = "get", !.token = k, !.rs = rs, !.asks = asks,
                  !.held = Held(k), !.gone = <<k, rs, asks>> \in gone])
  /\ UNCHANGED <<made, clock, file, cache, lock, Seen, Bounds>>

\* GetByHash, under the read lock: the cache, or else the file.  A file that
\* cannot be parsed is an error, and so is one that cannot be read (ReadFails).
FromFile_F(k) == None                     \* the cache is thought to be complete
FromFile(k) == IF Readable(k) THEN file[k] ELSE None

GetByHash(t) ==
  /\ At(t, "get") /\ lock = None
  /\ LET k == req[t].token IN
       \/ /\ cache[k] # None
          /\ Become(t, [req[t] EXCEPT !.pc = "judge", !.rec = cache[k]])
       \/ /\ cache[k] = None /\ FromFile(k) = None
          /\ Become(t, [req[t] EXCEPT !.pc = "judge", !.err = file[k] = Torn])
       \/ /\ cache[k] = None /\ FromFile(k) # None
          /\ Become(t, [req[t] EXCEPT !.pc = "fill", !.rec = FromFile(k)])
  /\ UNCHANGED <<made, clock, file, cache, lock, Seen, Bounds>>

ReadFails(t) ==
  /\ At(t, "get") /\ lock = None /\ cache[req[t].token] = None
  /\ fails < MaxFail /\ fails' = fails + 1
  /\ Become(t, [req[t] EXCEPT !.pc = "judge", !.err = TRUE])
  /\ UNCHANGED <<made, clock, file, cache, lock, Seen, crashes>>

\* The cache is filled without a lock.
FillCache_F(t) ==
  /\ At(t, "fill")
  /\ cache' = [cache EXCEPT ![req[t].token] = req[t].rec]
  /\ Become(t, [req[t] EXCEPT !.pc = "return"])
  /\ UNCHANGED <<made, clock, file, lock, Seen, Bounds>>

\* The read lock is given up for the write lock, and taken again: in between
\* the store may change, and the record read before is cached nevertheless.
FillCache(t) ==
  /\ At(t, "fill") /\ lock = None
  /\ cache' = [cache EXCEPT ![req[t].token] = req[t].rec]
  /\ Become(t, [req[t] EXCEPT !.pc = "return"])
  /\ UNCHANGED <<made, clock, file, lock, Seen, Bounds>>

ReturnFill(t) ==
  /\ At(t, "return") /\ lock = None
  /\ Become(t, [req[t] EXCEPT !.pc = "judge"])
  /\ UNCHANGED <<made, clock, file, cache, lock, Seen, Bounds>>

AudAllows(aud, rs) == aud = {} \/ rs \in aud
CanSatisfyAccess(r, asks) == asks \subseteq {r.access}

\* The record was read at some time, the clock is read now.
Active_F(t) ==                            \* the expiry is left to the store
  LET r == req[t].rec IN
    /\ r # None /\ r.iss = ASGrantURL
    /\ AudAllows(r.aud, req[t].rs) /\ CanSatisfyAccess(r, req[t].asks)
Active(t) ==
  LET r == req[t].rec IN
    /\ r # None /\ r.iss = ASGrantURL
    /\ ~ r.exp <= clock
    /\ AudAllows(r.aud, req[t].rs) /\ CanSatisfyAccess(r, req[t].asks)

\* An answer of "inactive" to somebody who has the token is remembered, unless
\* the file could not be read just then.
Answer(t) ==
  /\ At(t, "judge")
  /\ gone' = IF Active(t) \/ req[t].err \/ ~req[t].held THEN gone
             ELSE gone \cup {<<req[t].token, req[t].rs, req[t].asks>>}
  /\ Become(t, Idle)
  /\ UNCHANGED <<made, clock, file, cache, lock, given, Bounds>>

-----------------------------------------------------------------------------
(* The rest of the store, restarts and time. *)

\* Revoke takes the write lock and calls GetByHash, which waits for the read lock
\* of the same sync.RWMutex.  It is the goroutine's last step.
RevokeRequest(t, k) ==
  /\ At(t, "idle")
  /\ Become(t, [Idle EXCEPT !.pc = "revoke", !.token = k])
  /\ UNCHANGED <<made, clock, file, cache, lock, Seen, Bounds>>

Revoke(t) ==
  /\ At(t, "revoke") /\ lock = None
  /\ lock' = t
  /\ Become(t, [req[t] EXCEPT !.pc = "stuck"])
  /\ UNCHANGED <<made, clock, file, cache, Seen, Bounds>>

\* All that is expired leaves the cache, and the disk if its removal succeeds.
Expired_F(k) == cache[k] # None /\ cache[k].exp <= clock + 1   \* one too early
Expired(k) == cache[k] # None /\ cache[k].exp <= clock

CleanupExpired ==
  /\ lock = None
  /\ \E kept \in SUBSET {k \in Token : Expired(k)} :
       file' = [k \in Token |-> IF Expired(k) /\ k \notin kept THEN None ELSE file[k]]
  /\ cache' = [k \in Token |-> IF Expired(k) THEN None ELSE cache[k]]
  /\ UNCHANGED <<made, clock, lock, req, Seen, Bounds>>

Tick ==
  /\ clock < MaxTime /\ clock' = clock + 1
  /\ UNCHANGED <<made, file, cache, lock, req, Seen, Bounds>>

\* The server dies and starts again; loadFromDisk skips what it cannot read.
Restart ==
  /\ crashes < MaxCrash /\ crashes' = crashes + 1
  /\ \E skipped \in SUBSET {k \in Token : Readable(k)} :
       /\ skipped # {} => fails < MaxFail
       /\ fails' = IF skipped = {} THEN fails ELSE fails + 1
       /\ cache' = [k \in Token |-> IF Readable(k) /\ k \notin skipped THEN file[k] ELSE None]
  /\ lock' = None
  /\ req' = [t \in Thread |-> Idle]
  /\ UNCHANGED <<made, clock, file, Seen>>

Arrive(t) ==
  \/ \E as \in Approvals, iss \in Issuer, aud \in Audience : IssueRequest(t, as, iss, aud)
  \/ \E k \in Token, rs \in RS, asks \in Asked : IntrospectRequest(t, k, rs, asks)
  \/ \E k \in Token : RevokeRequest(t, k)

Serve(t) ==
  \/ MakeToken(t) \/ OpenFile(t) \/ FillFile(t) \/ CacheRecord(t) \/ PutFails(t)
  \/ GetByHash(t) \/ ReadFails(t) \/ FillCache(t) \/ ReturnFill(t) \/ Answer(t)
  \/ Revoke(t)

Next ==
  \/ \E t \in Thread : Arrive(t) \/ Serve(t)
  \/ CleanupExpired \/ Tick \/ Restart

Spec == Init /\ [][Next]_vars

\* A goroutine that can run runs; sync.RWMutex lets no waiting one starve.
FairSpec == Spec /\ \A t \in Thread : SF_vars(Serve(t))

-----------------------------------------------------------------------------
(* Properties. *)

StoreTypeOK ==
  /\ made \in [Token -> Record \cup {None}]
  /\ clock \in Time
  /\ file \in [Token -> Record \cup {None, Torn}]
  /\ cache \in [Token -> Record \cup {None}]
  /\ lock \in Thread \cup {None}
  /\ req \in [Thread -> Request]
  /\ given \subseteq [access : SUBSET Access, tokens : SUBSET Token]
  /\ gone \subseteq Query
  /\ fails \in 0..MaxFail
  /\ crashes \in 0..MaxCrash

\* The store implements TokenBook: what a lookup finds, in the cache or else in
\* the file, is a record as it was made, and once it is there neither failed
\* writes nor restarts, a cleanup or the lock hand-over in GetByHash lose or
\* change it before it expires.  (Under the write lock no lookup looks.)
Found(k) == IF cache[k] # None THEN cache[k] ELSE FromFile(k)
BookNow == [k \in Token |-> IF LiveAt(Found(k), clock) THEN Found(k) ELSE None]
Book == INSTANCE TokenBook WITH book <- BookNow
StoreIsBook == Book!BookSpec

\* A client who was given tokens was given one for every access approved, and
\* each of them is on disk until it expires, whatever failed or restarted
\* since (IssueToken, Put, CleanupExpired).
GivenAreDurable ==
  \A g \in given :
    /\ \A a \in g.access : \E k \in g.tokens : made[k].access = a
    /\ \A k \in g.tokens : LiveAt(made[k], clock) => file[k] = made[k]

\* An introspection that began after some client had the token never finds it
\* unknown before it expires: what a restart could not load is read again
\* (GetByHash, loadFromDisk).
HeldIsFound ==
  \A t \in Thread :
    At(t, "judge") /\ req[t].held /\ ~req[t].err /\ LiveAt(made[req[t].token], clock)
      => req[t].rec = made[req[t].token]

\* Once a resource server was told that a token is not active, for an access it
\* asked for, no later introspection says that it is (Introspect).
NoRevival == \A t \in Thread : At(t, "judge") /\ Active(t) => ~req[t].gone

\* The write lock is held by the goroutine that stores a token, or revokes one, and
\* by nobody else: a failed write, an answer, the hand-over in GetByHash and a
\* restart all leave it free (Put, GetByHash, CleanupExpired).
Locks(r) == r.pc \in {"data", "cache", "stuck"}
LockedByAWriter == \A t \in Thread : lock = t <=> Locks(req[t])

\* One revocation stops the whole store: while it waits for itself, no call of the
\* store gets on, nothing is stored, cached or cleaned up, and no client is
\* given a token.  Only a restart ends that (Revoke, GetByHash, Put).
InStore(r) == r.pc \in {"put", "data", "cache", "get", "fill", "return", "revoke", "stuck"}

RevocationStops ==
  [][\A t \in Thread : At(t, "stuck") /\ At(t, "stuck")' =>
       /\ UNCHANGED <<file, cache, lock, given>>
       /\ \A u \in Thread : InStore(req[u]) => req'[u] = req[u]]_vars

\* Revoke marks the record and returns (store_tokens.go: "Mark as revoked").
\* It asks for the read lock while it holds the write lock, and waits for ever.
RevokeReturns == \A t \in Thread : At(t, "revoke") ~> At(t, "idle")
=============================================================================
