--------------------------- MODULE RSKeyStoreProofs ---------------------------
(***************************************************************************)
(* Theorems about RSKeyStore, for all tenants, keys, kids and bounds.      *)
(*                                                                         *)
(* NoSurprise speaks of the cache, but a restart fills the cache from the  *)
(* files, so the invariant also says that what a file holds is expected;   *)
(* and a save that ends turns what was asked for into the one thing        *)
(* expected, so it also says that the cache already is as the save under   *)
(* way will leave the file.                                                *)
(***************************************************************************)
EXTENDS RSKeyStore, TLAPS

\* The save under way writes what was asked for, which the cache already has,
\* and its caller is prepared for it to be lost.
SavingAsAsked ==
  saving # None =>
    /\ saving.rec = saving.asked
    /\ cache[saving.slot] = saving.asked
    /\ {saving.asked, None} \subseteq expected[saving.slot]

\* What a restart would load is expected.
FileExpected == \A s \in Slot : Load(file[s]) \in expected[s]

RSInv == RSTypeOK /\ NoSurprise /\ SavingAsAsked /\ FileExpected

-----------------------------------------------------------------------------
\* A registration leaves the record it was asked to leave, new or not, and so
\* does a deactivation.
LEMMA ChangeIsAsAsked ==
  ASSUME NEW old \in Record \cup {None}, NEW n \in Kid, NEW p \in BOOLEAN
  PROVE  /\ Upserted(old, n, p) = [kid |-> n, active |-> TRUE, public |-> p]
         /\ [kid |-> n, active |-> TRUE, public |-> p] \in Record
         /\ old # None =>
              /\ Deactivated(old) = [kid |-> old.kid, active |-> FALSE, public |-> old.public]
              /\ [kid |-> old.kid, active |-> FALSE, public |-> old.public] \in Record
<1>1. CASE old = None
  BY <1>1 DEF Upserted, Record
<1>2. CASE old # None
  <2>1. old \in Record
    BY <1>2
  <2>2. old.kid \in Kid /\ old.public \in BOOLEAN
    BY <2>1 DEF Record
  <2>3. Upserted(old, n, p) = [kid |-> n, active |-> TRUE, public |-> p]
    BY <1>2, <2>1 DEF Upserted, Record
  <2>4. Deactivated(old) = [kid |-> old.kid, active |-> FALSE, public |-> old.public]
    <3>. DEFINE q == [old EXCEPT !.active = FALSE]
    <3>1. q \in Record
      BY <2>1 DEF Record
    <3>2. q.kid = old.kid /\ q.active = FALSE /\ q.public = old.public
      BY <2>1 DEF Record
    <3>. HIDE DEF q
    <3>3. q = [kid |-> old.kid, active |-> FALSE, public |-> old.public]
      BY <3>1, <3>2 DEF Record
    <3>. QED BY <3>3 DEF Deactivated, q
  <2>. QED BY <2>2, <2>3, <2>4 DEF Record
<1>. QED BY <1>1, <1>2

\* The start of a save keeps the invariant.
LEMMA BeginOK ==
  ASSUME RSInv, NEW s \in Slot, NEW r \in Record, Begin(s, r, r)
  PROVE  RSInv'
<1>1. RSTypeOK'
  BY DEF RSInv, RSTypeOK, Begin, Save
<1>2. NoSurprise'
  BY DEF RSInv, RSTypeOK, NoSurprise, Begin
<1>3. SavingAsAsked'
  BY DEF RSInv, RSTypeOK, SavingAsAsked, Begin
<1>4. FileExpected'
  BY DEF RSInv, RSTypeOK, FileExpected, Begin
<1>. QED BY <1>1, <1>2, <1>3, <1>4 DEF RSInv

\* Every step of the store keeps the invariant.
LEMMA RSInvStep ==
  ASSUME RSInv, [Next]_rsVars
  PROVE  RSInv'
<1>. RSTypeOK
  BY DEF RSInv
<1>1. ASSUME NEW s \in Slot, NEW n \in Kid, NEW p \in BOOLEAN, RegisterKey(s, n, p)
      PROVE  RSInv'
  <2>1. cache[s] \in Record \cup {None}
    BY DEF RSTypeOK
  <2>. QED BY <1>1, <2>1, ChangeIsAsAsked, BeginOK DEF RegisterKey, UpsertRSKey
<1>2. ASSUME NEW s \in Slot, DeactivateRSKey(s)
      PROVE  RSInv'
  <2>1. cache[s] \in Record /\ cache[s] # None
    BY <1>2 DEF RSTypeOK, DeactivateRSKey
  <2>2. cache[s].kid \in Kid /\ cache[s].public \in BOOLEAN
    BY <2>1 DEF Record
  <2>. QED BY <1>2, <2>1, <2>2, ChangeIsAsAsked, BeginOK DEF DeactivateRSKey
<1>3. ASSUME Truncate PROVE RSInv'
  <2>1. saving \in Save /\ saving.slot \in Slot
    BY <1>3 DEF RSTypeOK, Truncate, Save
  <2>2. RSTypeOK'
    BY <1>3, <2>1 DEF RSTypeOK, Truncate, Save
  <2>3. NoSurprise' /\ SavingAsAsked'
    BY <1>3, <2>1 DEF RSInv, NoSurprise, SavingAsAsked, Truncate, Save
  <2>4. FileExpected'
    BY <1>3, <2>1 DEF RSInv, RSTypeOK, SavingAsAsked, FileExpected, Truncate, Load
  <2>. QED BY <2>2, <2>3, <2>4 DEF RSInv
<1>4. ASSUME Fill PROVE RSInv'
  <2>1. saving \in Save /\ saving.slot \in Slot /\ saving.rec \in Record
        /\ saving.asked \in Record /\ saving.rec = saving.asked
        /\ cache[saving.slot] = saving.asked
    BY <1>4 DEF RSInv, RSTypeOK, SavingAsAsked, Fill, Save
  <2>2. RSTypeOK'
    BY <1>4, <2>1 DEF RSTypeOK, Fill
  <2>3. NoSurprise' /\ SavingAsAsked'
    BY <1>4, <2>1 DEF RSInv, RSTypeOK, NoSurprise, SavingAsAsked, Fill
  <2>4. FileExpected'
    BY <1>4, <2>1, RSNullsAssumption DEF RSInv, RSTypeOK, FileExpected, Fill, Load
  <2>. QED BY <2>2, <2>3, <2>4 DEF RSInv
<1>5. ASSUME SaveFails PROVE RSInv'
  <2>1. /\ saving.slot \in Slot /\ saving.rec \in Record
        /\ saving.rec = saving.asked /\ saving.asked \in expected[saving.slot]
    BY <1>5 DEF RSInv, RSTypeOK, SavingAsAsked, SaveFails, Save
  <2>2. RSTypeOK'
    BY <1>5, <2>1, RSBoundsAssumption DEF RSTypeOK, SaveFails
  <2>3. NoSurprise' /\ SavingAsAsked'
    BY <1>5 DEF RSInv, NoSurprise, SavingAsAsked, SaveFails
  <2>4. FileExpected'
    BY <1>5, <2>1, RSNullsAssumption DEF RSInv, RSTypeOK, FileExpected, SaveFails, Load
  <2>. QED BY <2>2, <2>3, <2>4 DEF RSInv
<1>6. ASSUME Restart PROVE RSInv'
  <2>1. RSTypeOK'
    BY <1>6, RSBoundsAssumption DEF RSTypeOK, Restart, Load
  <2>2. NoSurprise' /\ SavingAsAsked' /\ FileExpected'
    BY <1>6 DEF RSInv, NoSurprise, SavingAsAsked, FileExpected, Restart
  <2>. QED BY <2>1, <2>2 DEF RSInv
<1>7. ASSUME UNCHANGED rsVars PROVE RSInv'
  BY <1>7 DEF rsVars, RSInv, RSTypeOK, NoSurprise, SavingAsAsked, FileExpected
<1>. QED BY <1>1, <1>2, <1>3, <1>4, <1>5, <1>6, <1>7 DEF Next

LEMMA RSInvHolds == Spec => []RSInv
<1>1. Init => RSInv
  BY RSBoundsAssumption, RSNullsAssumption
     DEF Init, RSInv, RSTypeOK, NoSurprise, SavingAsAsked, FileExpected, Load
<1>2. RSInv /\ [Next]_rsVars => RSInv'
  BY RSInvStep
<1>. QED BY <1>1, <1>2, PTL DEF Spec

-----------------------------------------------------------------------------
\* A key is as the last successful call left it, through failed saves and
\* restarts; it is as before, as asked or gone only after a call that failed or
\* was cut short (UpsertRSKey, DeactivateRSKey, saveToDisk, loadFromDisk).
THEOREM NothingSurprises == Spec => []NoSurprise
<1>1. RSInv => NoSurprise
  BY DEF RSInv
<1>. QED BY <1>1, RSInvHolds, PTL

\* A key that was deactivated is found neither in its tenant nor by its
\* thumbprint until it is registered again (LookupRSPublicKeyByTenant,
\* LookupRSPublicKeyByThumbprint).
THEOREM DeactivationHolds == Spec => []DeactivatedIsGone
<1>1. RSInv => DeactivatedIsGone
  <2>. SUFFICES ASSUME RSInv, NEW s \in Slot, \A r \in expected[s] : r = None \/ ~r.active
                PROVE  /\ \A n \in Kid : s[2] \notin LookupByTenant(s[1], n)
                       /\ LookupByThumbprint(s) = None
    BY DEF DeactivatedIsGone
  <2>1. cache[s] = None \/ ~cache[s].active
    BY DEF RSInv, NoSurprise
  <2>2. s = <<s[1], s[2]>> /\ s[2] \in Key /\ s[2] # None
    BY RSNullsAssumption DEF Slot
  <2>3. ASSUME NEW n \in Kid PROVE s[2] \notin LookupByTenant(s[1], n)
    BY <2>1, <2>2 DEF LookupByTenant, Has
  <2>. QED BY <2>1, <2>3 DEF LookupByThumbprint
<1>. QED BY <1>1, RSInvHolds, PTL

LEMMA RegisteredFound == RSInv => RegisteredIsFound
<1>. SUFFICES ASSUME RSInv, NEW s \in Slot, NEW r \in expected[s],
                     expected[s] = {r}, r # None, r.active, r.public
              PROVE  /\ s[2] \in Ed25519 \cup P256 => LookupByThumbprint(s) = s[2]
                     /\ (/\ s[2] \in Ed25519 \cup P256 \cup P384
                         /\ \A u \in Slot \ {s} : ~Has(u, r.kid))
                        => LookupById(r.kid) = {s[2]}
  BY DEF RegisteredIsFound
<1>1. cache[s] = r
  BY DEF RSInv, NoSurprise
<1>2. s[2] \in Ed25519 \cup P256 => LookupByThumbprint(s) = s[2]
  BY <1>1 DEF LookupByThumbprint, Usable
<1>3. ASSUME s[2] \in Ed25519 \cup P256 \cup P384, \A u \in Slot \ {s} : ~Has(u, r.kid)
      PROVE  LookupById(r.kid) = {s[2]}
  <2>. DEFINE hits == {u \in Slot : Has(u, r.kid) /\ cache[u].public}
  <2>1. hits = {s}
    BY <1>1, <1>3 DEF Has
  <2>2. {u[2] : u \in hits} = {s[2]}
    BY <2>1
  <2>3. s[2] \notin P521
    BY <1>3, RSKeyTypesAssumption
  <2>. HIDE DEF hits
  <2>4. /\ {u[2] : u \in hits} \cap (Ed25519 \cup P256 \cup P384) = {s[2]}
        /\ {u[2] : u \in hits} \cap P521 = {}
    BY <1>3, <2>2, <2>3
  <2>. QED BY <2>4 DEF LookupById, hits
<1>. QED BY <1>2, <1>3

\* A key that was registered is found by its thumbprint, and by its kid if
\* nobody else uses that kid, provided that the lookup supports its type.
THEOREM RegistrationHolds == Spec => []RegisteredIsFound
BY RegisteredFound, RSInvHolds, PTL

-----------------------------------------------------------------------------
(* The store implements KeyBook. *)

\* The call under way is the one that saves: its slot.
CallSlot == IF saving = None THEN None ELSE saving.slot

LEMMA SavingIsCall ==
  ASSUME RSTypeOK
  PROVE  /\ saving = None <=> CallSlot = None
         /\ saving # None => CallSlot = saving.slot /\ CallSlot \in Slot
BY RSNullsAssumption DEF CallSlot, RSTypeOK, Save

\* Registrations and deactivations change what lookups see at once.
LEMMA BeginIsChange ==
  ASSUME RSInv, NEW s \in Slot, NEW r \in Record, Begin(s, r, r)
  PROVE  Calls!Change(s, r)
<1>1. saving = None /\ saving' # None /\ saving'.slot = s
  <2>1. saving' \in Save
    BY DEF Begin, Save
  <2>. QED BY <2>1, RSNullsAssumption DEF Begin
<1>. QED BY <1>1 DEF Begin, Calls!Change

LEMMA StepIsCall ==
  ASSUME RSInv, [Next]_rsVars
  PROVE  [Calls!KeyNext]_(Calls!keyVars)
<1>. RSTypeOK
  BY DEF RSInv
<1>1. ASSUME NEW s \in Slot, NEW n \in Kid, NEW p \in BOOLEAN, RegisterKey(s, n, p)
      PROVE  Calls!KeyNext
  <2>1. cache[s] \in Record \cup {None}
    BY DEF RSTypeOK
  <2>2. Calls!Register(s, n, p)
    BY <1>1, <2>1, ChangeIsAsAsked, BeginIsChange DEF RegisterKey, UpsertRSKey, Calls!Register
  <2>. QED BY <2>2 DEF Calls!KeyNext
<1>2. ASSUME NEW s \in Slot, DeactivateRSKey(s)
      PROVE  Calls!KeyNext
  <2>1. cache[s] \in Record /\ cache[s] # None
    BY <1>2 DEF RSTypeOK, DeactivateRSKey
  <2>2. Calls!Deactivate(s)
    <3>. DEFINE r == Deactivated(cache[s])
    <3>0. r = [kid |-> cache[s].kid, active |-> FALSE, public |-> cache[s].public] /\ r \in Record
      <4>1. cache[s].kid \in Kid /\ cache[s].public \in BOOLEAN
        BY <2>1 DEF Record
      <4>. QED BY <2>1, <4>1, ChangeIsAsAsked
    <3>1. Begin(s, r, r)
      BY <1>2, <3>0 DEF DeactivateRSKey
    <3>. QED BY <2>1, <3>0, <3>1, BeginIsChange DEF Deactivated, Calls!Deactivate
  <2>. QED BY <2>2 DEF Calls!KeyNext
<1>3. CASE Truncate
  <2>1. CallSlot' = CallSlot
    <3>1. saving \in Save /\ saving' \in Save /\ saving'.slot = saving.slot
      BY <1>3 DEF Truncate, RSTypeOK, Save
    <3>. QED BY <3>1, RSNullsAssumption DEF CallSlot
  <2>. QED BY <1>3, <2>1 DEF Truncate, CallSlot, Calls!keyVars
<1>4. CASE Fill
  <2>1. saving # None /\ saving' = None /\ cache[saving.slot] = saving.asked
    BY <1>4 DEF Fill, RSInv, SavingAsAsked
  <2>2. Calls!Succeed
    BY <1>4, <2>1, SavingIsCall DEF Fill, CallSlot, Calls!Succeed
  <2>. QED BY <2>2 DEF Calls!KeyNext
<1>5. CASE SaveFails
  <2>1. Calls!Fail
    BY <1>5, SavingIsCall DEF SaveFails, CallSlot, Calls!Fail
  <2>. QED BY <2>1 DEF Calls!KeyNext
<1>6. CASE Restart
  <2>1. Calls!Reload
    BY <1>6 DEF Restart, RSInv, FileExpected, Calls!Reload
  <2>. QED BY <2>1 DEF Calls!KeyNext
<1>7. CASE UNCHANGED rsVars
  BY <1>7 DEF rsVars, Calls!keyVars
<1>. QED BY <1>1, <1>2, <1>3, <1>4, <1>5, <1>6, <1>7 DEF Next

\* The cache, the saves in place, the failures and the restarts together are a
\* register for each key, whose calls exclude each other: lookups see the last
\* change, and a restart finds what the last successful call left (UpsertRSKey,
\* DeactivateRSKey, saveToDisk, loadFromDisk).
THEOREM StoreImplementsRegister == Spec => StoreIsRegister
<1>1. Init => Calls!KeyInit
  BY DEF Init, Calls!KeyInit
<1>2. RSInv /\ [Next]_rsVars => [Calls!KeyNext]_(Calls!keyVars)
  BY StepIsCall
<1>. QED BY <1>1, <1>2, RSInvHolds, PTL DEF Spec, StoreIsRegister, Calls!KeySpec
=============================================================================
