------------------------------ MODULE RSKeyStore ------------------------------
(***************************************************************************)
(* The keys of resource servers (internal/gnap/store_rs_keys_fs.go and the *)
(* admin endpoints in internal/handlers/rs_keys.go): a cache that every    *)
(* lookup reads, changed before the file of the record is written in       *)
(* place, and loaded again from the files when the server starts.  The     *)
(* store's lock is held from the change of the cache to the end of the     *)
(* write, so at most one save is under way.                                *)
(*                                                                         *)
(* A definition whose name ends in _F is the one after it with a fault; no *)
(* specification uses it.                                                  *)
(***************************************************************************)
EXTENDS Naturals

CONSTANTS
  Tenant,
  Ed25519, P256, P384, P521, OtherKey,  \* key pairs (thumbprints) by type
  Kid,        \* key ids: chosen by whoever registers, unique nowhere
  MaxFail,    \* bound: failed file operations
  MaxCrash,   \* bound: restarts of the server
  None, Torn  \* no record; a file that is no JSON

Key == Ed25519 \cup P256 \cup P384 \cup P521 \cup OtherKey
Slot == Tenant \X Key

\* public: the JWK registered was the public one; nobody checks that it is.
Record == [kid : Kid, active : BOOLEAN, public : BOOLEAN]

\* A save under way: the record it writes, what its caller asked for, its next step.
Save == [slot : Slot, rec : Record, asked : Record, pc : {"open", "data"}]

ASSUME RSBoundsAssumption == MaxFail \in Nat /\ MaxCrash \in Nat
ASSUME RSKeyTypesAssumption == P521 \cap (Ed25519 \cup P256 \cup P384) = {}
ASSUME RSNullsAssumption ==
  /\ None \notin Record /\ Torn \notin Record /\ None # Torn
  /\ None \notin Key /\ None \notin Slot /\ None \notin Save

VARIABLES
  cache,     \* cache[<<t, k>>]: the record the lookups see
  file,      \* file[<<t, k>>]: rs_keys/t/k.json
  saving,    \* the save under way, by the goroutine that holds the lock
  expected,  \* expected[<<t, k>>]: what callers may expect to be registered
  fails, crashes

rsVars == <<cache, file, saving, expected, fails, crashes>>

Init ==
  /\ cache = [s \in Slot |-> None]
  /\ file = [s \in Slot |-> None]
  /\ saving = None
  /\ expected = [s \in Slot |-> {None}]
  /\ fails = 0
  /\ crashes = 0

-----------------------------------------------------------------------------
(* Registration and deactivation. *)

\* The record a registration leaves: an existing one is activated again.
Upserted_F(old, n, p) ==
  IF old # None THEN [old EXCEPT !.kid = n, !.public = p]
                ELSE [kid |-> n, active |-> TRUE, public |-> p]
Upserted(old, n, p) ==
  IF old # None THEN [old EXCEPT !.kid = n, !.public = p, !.active = TRUE]
                ELSE [kid |-> n, active |-> TRUE, public |-> p]

Deactivated_F(r) == r                 \* the change is lost with a copy
Deactivated(r) == [r EXCEPT !.active = FALSE]

\* The cache changes first.  From here on a caller knows only that the slot has
\* what it had, what was asked for, or nothing.
Begin(s, r, asked) ==
  /\ saving = None
  /\ cache' = [cache EXCEPT ![s] = r]
  /\ saving' = [slot |-> s, rec |-> r, asked |-> asked, pc |-> "open"]
  /\ expected' = [expected EXCEPT ![s] = @ \cup {asked, None}]
  /\ UNCHANGED <<file, fails, crashes>>

UpsertRSKey(s, n, p, acceptTOFU) ==
  /\ cache[s] # None \/ acceptTOFU
  /\ Begin(s, Upserted(cache[s], n, p), [kid |-> n, active |-> TRUE, public |-> p])

\* The admin endpoint: any tenant and kid, a JWK that may be a private one, and
\* acceptTOFU = true, although its comment says that TOFU is disabled.
RegisterKey(s, n, p) == UpsertRSKey(s, n, p, TRUE)

DeactivateRSKey(s) ==
  /\ cache[s] # None
  /\ LET r == cache[s] IN
       Begin(s, Deactivated(r), [kid |-> r.kid, active |-> FALSE, public |-> r.public])

-----------------------------------------------------------------------------
(* saveToDisk: os.WriteFile on the record's own file. *)

Truncate ==
  /\ saving # None /\ saving.pc = "open"
  /\ file' = [file EXCEPT ![saving.slot] = Torn]
  /\ saving' = [saving EXCEPT !.pc = "data"]
  /\ UNCHANGED <<cache, expected, fails, crashes>>

\* The record is written and the caller is told so.
Fill ==
  /\ saving # None /\ saving.pc = "data"
  /\ file' = [file EXCEPT ![saving.slot] = saving.rec]
  /\ expected' = [expected EXCEPT ![saving.slot] = {saving.asked}]
  /\ saving' = None
  /\ UNCHANGED <<cache, fails, crashes>>

\* A rollback that forgets what was registered before.
SaveFails_F ==
  /\ saving # None /\ fails < MaxFail
  /\ fails' = fails + 1
  /\ cache' = [cache EXCEPT ![saving.slot] = None]
  /\ saving' = None
  /\ UNCHANGED <<file, expected, crashes>>

\* Opening, filling or closing the file fails.  The caller gets an error; the
\* cache keeps the change.
SaveFails ==
  /\ saving # None /\ fails < MaxFail
  /\ fails' = fails + 1
  /\ \/ UNCHANGED file
     \/ saving.pc = "data" /\ file' = [file EXCEPT ![saving.slot] = saving.rec]
  /\ saving' = None
  /\ UNCHANGED <<cache, expected, crashes>>

\* loadFromDisk skips what it cannot parse, or cannot read just then.
Load_F(c) == IF c = Torn THEN [kid |-> None, active |-> FALSE, public |-> FALSE] ELSE c
Load(c) == IF c = Torn THEN None ELSE c

\* The server dies, at any point of a save, and starts again.
Restart ==
  /\ crashes < MaxCrash /\ crashes' = crashes + 1
  /\ \E skipped \in SUBSET {s \in Slot : Load(file[s]) # None} :
       /\ skipped # {} => fails < MaxFail
       /\ fails' = IF skipped = {} THEN fails ELSE fails + 1
       /\ cache' = [s \in Slot |-> IF s \in skipped THEN None ELSE Load(file[s])]
       /\ expected' = [s \in Slot |-> IF s \in skipped THEN expected[s] \cup {None}
                                                       ELSE expected[s]]
  /\ saving' = None
  /\ UNCHANGED file

Next ==
  \/ \E s \in Slot, n \in Kid, p \in BOOLEAN : RegisterKey(s, n, p)
  \/ \E s \in Slot : DeactivateRSKey(s)
  \/ Truncate \/ Fill \/ SaveFails
  \/ Restart

Spec == Init /\ [][Next]_rsVars

-----------------------------------------------------------------------------
(***************************************************************************)
(* The lookups, as the set of their possible outcomes: a key, or None for  *)
(* an error.  They visit records in the order of a Go map, which is any.   *)
(***************************************************************************)
Has(s, n) == cache[s] # None /\ cache[s].kid = n

\* LookupRSPublicKeyById: a private JWK or another type of key is passed over, an
\* unsupported curve ends the search.
LookupById(n) ==
  LET hits == {s \in Slot : Has(s, n) /\ cache[s].public}
      found == {s[2] : s \in hits} \cap (Ed25519 \cup P256 \cup P384)
      stops == {s[2] : s \in hits} \cap P521
  IN found \cup (IF found = {} \/ stops # {} THEN {None} ELSE {})

\* The other two take neither P-384 nor a private JWK.
Usable(s) == cache[s].public /\ s[2] \in Ed25519 \cup P256

LookupByTenant(t, n) ==
  LET hits == {k \in Key : Has(<<t, k>>, n) /\ cache[<<t, k>>].active} IN
    IF hits = {} THEN {None}
    ELSE {IF Usable(<<t, k>>) THEN k ELSE None : k \in hits}

LookupByThumbprint(s) ==
  IF cache[s] # None /\ cache[s].active /\ Usable(s) THEN s[2] ELSE None

-----------------------------------------------------------------------------
(* Properties. *)

RSTypeOK ==
  /\ cache \in [Slot -> Record \cup {None}]
  /\ file \in [Slot -> Record \cup {None, Torn}]
  /\ saving \in Save \cup {None}
  /\ expected \in [Slot -> SUBSET (Record \cup {None})]
  /\ fails \in 0..MaxFail
  /\ crashes \in 0..MaxCrash

\* A key is as the last successful call left it, through restarts.  Only after a
\* call that failed or was cut short may it be as before, as asked, or gone,
\* only after a restart that could not read it may it be gone, and never is it
\* anything else (UpsertRSKey, DeactivateRSKey, loadFromDisk).
NoSurprise == \A s \in Slot : cache[s] \in expected[s]

\* A key that was deactivated with success, or since lost, is found by neither
\* LookupRSPublicKeyByTenant nor LookupRSPublicKeyByThumbprint until somebody
\* registers it again, restarts and failed saves in between included.
DeactivatedIsGone ==
  \A s \in Slot : (\A r \in expected[s] : r = None \/ ~r.active) =>
    /\ \A n \in Kid : s[2] \notin LookupByTenant(s[1], n)
    /\ LookupByThumbprint(s) = None

\* A key that was registered with success is found, by its thumbprint if the
\* lookup supports its type, and by its kid if nobody else uses that kid.
RegisteredIsFound ==
  \A s \in Slot : \A r \in expected[s] :
    expected[s] = {r} /\ r # None /\ r.active /\ r.public =>
      /\ s[2] \in Ed25519 \cup P256 => LookupByThumbprint(s) = s[2]
      /\ (/\ s[2] \in Ed25519 \cup P256 \cup P384
          /\ \A u \in Slot \ {s} : ~Has(u, r.kid))
         => LookupById(r.kid) = {s[2]}

\* LookupRSPublicKeyById "returns the first active key with matching kid": what
\* it returns, while no save holds the lock, is a key that is active under
\* that kid in some tenant.  The check of Active is commented out.
ActiveKeysOnly ==
  saving = None =>
    \A n \in Kid : \A k \in LookupById(n) \ {None} :
      \E t \in Tenant : Has(<<t, k>>, n) /\ cache[<<t, k>>].active

\* The store implements KeyBook: calls exclude each other, each changes what the
\* lookups see by exactly what was asked for, and a restart, also in the middle
\* of a save, finds what the last successful call left (saveToDisk, loadFromDisk).
Calls == INSTANCE KeyBook WITH key <- cache, may <- expected, starts <- crashes,
                               call <- IF saving = None THEN None ELSE saving.slot
StoreIsRegister == Calls!KeySpec
=============================================================================
