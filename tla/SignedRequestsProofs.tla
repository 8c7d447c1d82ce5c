------------------------- MODULE SignedRequestsProofs -------------------------
(***************************************************************************)
(* Theorems about SignedRequests, for any keys, kids, methods, URLs, sets  *)
(* of components, clocks and bounds.  They rest on the invariant of the    *)
(* key store (RSInv): the steps of signers, administrators and the server  *)
(* are steps of the store or leave it alone.                               *)
(***************************************************************************)
EXTENDS SignedRequests, RSKeyStoreProofs

InputType == [comps : SUBSET Component, created : Nat \cup {None}, keyid : Kid, alg : Alg]

Required == {"@method", "@target-uri"}

\* A request as Send puts it on the way.
SentBy(k, by, m, u, hdrs, input) ==
  [by |-> by, method |-> m, url |-> u, hdrs |-> hdrs, input |-> input,
   sig |-> Sign(k, input.alg, SignBase(m, u, hdrs, input))]

\* Every request that was sent has the signature of its sender's key over its own
\* method, URL and parameters; sign curl covers all that the server requires, and
\* writes a time that fits an int64.
NetInv ==
  \A s \in net :
    \E k \in Key, by \in {"curl", "other"}, m \in Method, u \in Url, hdrs \in SUBSET Header,
       input \in InputType :
      /\ s = SentBy(k, by, m, u, hdrs, input)
      /\ by = "curl" => input.comps = Required \cup hdrs /\ input.created \in 0..(Half - 1)

\* A request that passed the checks is one that was sent, perhaps edited, and it
\* passed them when its time was in the window.
Arrived(r) ==
  /\ \E s \in net : r.msg \in Received(s)
  /\ InWindow(r.msg, r.at)
  /\ Required \subseteq r.msg.input.comps

ReqInv ==
  /\ req = [t \in Thread |-> req[t]]
  /\ \A t \in Thread : req[t] # NoRequest => Arrived(req[t])

FilesInv ==
  /\ jwk \in [Key -> Kid \cup {None}]
  /\ \A k \in pub : k \in Key /\ jwk[k] # None
  /\ clock \in 0..MaxTime

SigInv == RSInv /\ FilesInv /\ NetInv /\ ReqInv

-----------------------------------------------------------------------------
(* The invariant. *)

\* Signers touch neither the key store nor the requests that the server has.
LEMMA SignersApart ==
  ASSUME SignerStep
  PROVE  UNCHANGED <<rsVars, req>>
<1>1. ASSUME NEW k \in Key, KeysNew(k) \/ KeysNewPublic(k) \/ \E n \in Kid : ImportKey(k, n)
      PROVE  UNCHANGED <<rsVars, req>>
  BY <1>1 DEF KeysNew, KeysNewPublic, ImportKey
<1>2. ASSUME NEW k, NEW by, NEW m, NEW u, NEW hdrs, NEW input, Send(k, by, m, u, hdrs, input)
      PROVE  UNCHANGED <<rsVars, req>>
  BY <1>2 DEF Send
<1>3. ASSUME NEW k \in Key, NEW alg \in Alg, NEW m \in Method, NEW u \in Url, NEW hdrs \in Headers,
             NEW d \in Drift, SignCurl(k, alg, m, u, hdrs, d)
      PROVE  UNCHANGED <<rsVars, req>>
  BY <1>2, <1>3 DEF SignCurl
<1>4. ASSUME NEW k \in Key, NEW m \in Method, NEW u \in Url, NEW comps \in Covers,
             NEW created \in Written \cup {None}, OtherSigner(k, m, u, comps, created)
      PROVE  UNCHANGED <<rsVars, req>>
  BY <1>2, <1>4 DEF OtherSigner
<1>. QED BY <1>1, <1>3, <1>4 DEF SignerStep

\* What anybody does is a step of the key store, or none of its business.
LEMMA SigStepIsRSStep ==
  ASSUME FilesInv, [SigNext]_sigVars
  PROVE  [Next]_rsVars
<1>1. ASSUME NEW s \in Slot, KeysRegister(s) PROVE Next
  <2>1. s[2] \in Key /\ jwk[s[2]] \in Kid
    BY <1>1 DEF KeysRegister, FilesInv, Slot
  <2>. QED BY <1>1, <2>1 DEF KeysRegister, Next
<1>2. ASSUME NEW s \in Slot, NEW n \in Kid, NEW p \in Uploads, RegisterByHand(s, n, p) PROVE Next
  BY <1>2, SignedAssumption DEF RegisterByHand, Next
<1>3. ASSUME NEW s \in Slot, Deactivate(s) PROVE Next
  BY <1>3 DEF Deactivate, Next
<1>4. ASSUME StoreStep PROVE Next
  BY <1>4 DEF StoreStep, Next
<1>5. ASSUME SignerStep PROVE UNCHANGED rsVars
  BY <1>5, SignersApart
<1>6. ASSUME Tick \/ \E t \in Thread : Server(t) PROVE UNCHANGED rsVars
  BY <1>6 DEF Tick, Server, Receive, Resolve
<1>. QED BY <1>1, <1>2, <1>3, <1>4, <1>5, <1>6 DEF SigNext, AdminStep, sigVars

\* A key file that is written keeps its kid.
LEMMA FilesInvStep ==
  ASSUME FilesInv, [SigNext]_sigVars
  PROVE  FilesInv'
<1>. USE DEF FilesInv
<1>1. ASSUME NEW k \in Key, KeysNew(k) PROVE FilesInv'
  BY <1>1, SignedAssumption DEF KeysNew
<1>2. ASSUME NEW k \in Key, KeysNewPublic(k) PROVE FilesInv'
  BY <1>2 DEF KeysNewPublic
<1>3. ASSUME NEW k \in Key, NEW n \in Kid, ImportKey(k, n) PROVE FilesInv'
  BY <1>3, SignedAssumption DEF ImportKey
<1>4. ASSUME Tick PROVE FilesInv'
  BY <1>4, SignedAssumption DEF Tick, cliVars
<1>5. CASE UNCHANGED <<jwk, pub, clock>>
  BY <1>5
<1>6. ASSUME NEW k \in Key, NEW by, NEW m, NEW u, NEW hdrs, NEW input, Send(k, by, m, u, hdrs, input)
      PROVE  UNCHANGED <<jwk, pub, clock>>
  BY <1>6 DEF Send, cliVars
<1>7. ASSUME SignerStep PROVE FilesInv'
  BY <1>1, <1>2, <1>3, <1>5, <1>6, <1>7 DEF SignerStep, SignCurl, OtherSigner
<1>8. ASSUME AdminStep \/ StoreStep \/ \E t \in Thread : Server(t)
      PROVE  UNCHANGED <<jwk, pub, clock>>
  BY <1>8 DEF AdminStep, StoreStep, Server, KeysRegister, RegisterByHand, Deactivate, Call,
              Receive, Resolve, cliVars
<1>. QED BY <1>4, <1>5, <1>7, <1>8 DEF SigNext, cliVars, sigVars

\* Requests are added to those on the way, and signed.
LEMMA NetInvStep ==
  ASSUME FilesInv, NetInv, [SigNext]_sigVars
  PROVE  NetInv' /\ net \subseteq net'
<1>1. ASSUME NEW k \in Key, NEW by \in {"curl", "other"}, NEW m \in Method, NEW u \in Url,
             NEW hdrs \in SUBSET Header, NEW input \in InputType,
             by = "curl" => input.comps = Required \cup hdrs /\ input.created \in 0..(Half - 1),
             Send(k, by, m, u, hdrs, input)
      PROVE  NetInv' /\ net \subseteq net'
  <2>1. net' = net \cup {SentBy(k, by, m, u, hdrs, input)}
    BY <1>1 DEF Send, SentBy
  <2>. QED BY <1>1, <2>1 DEF NetInv
<1>2. ASSUME NEW k \in Key, NEW alg \in Alg, NEW m \in Method, NEW u \in Url, NEW hdrs \in Headers,
             NEW d \in Drift, SignCurl(k, alg, m, u, hdrs, d)
      PROVE  NetInv' /\ net \subseteq net'
  <2>. DEFINE input == [comps |-> Required \cup hdrs, created |-> clock + d,
                        keyid |-> jwk[k], alg |-> alg]
  <2>1. Send(k, "curl", m, u, hdrs, input)
    BY <1>2 DEF SignCurl, Required
  <2>2. hdrs \in SUBSET Header /\ clock + d \in 0..(Half - 1) /\ jwk[k] \in Kid
    BY <1>2, SignedAssumption DEF FilesInv, SignCurl
  <2>3. input \in InputType /\ input.comps = Required \cup hdrs /\ input.created \in 0..(Half - 1)
    BY <2>2 DEF InputType, Component, Required
  <2>. HIDE DEF input
  <2>. QED BY <1>1, <2>1, <2>2, <2>3
<1>3. ASSUME NEW k \in Key, NEW m \in Method, NEW u \in Url, NEW comps \in Covers,
             NEW created \in Written \cup {None}, OtherSigner(k, m, u, comps, created)
      PROVE  NetInv' /\ net \subseteq net'
  <2>. DEFINE input == [comps |-> comps, created |-> created, keyid |-> jwk[k], alg |-> KeyType(k)]
  <2>1. Send(k, "other", m, u, comps \cap Header, input)
    BY <1>3 DEF OtherSigner
  <2>2. KeyType(k) \in Alg /\ comps \in SUBSET Component /\ jwk[k] \in Kid
    BY <1>3, SignedAssumption DEF FilesInv, OtherSigner, KeyType, Alg
  <2>3. input \in InputType /\ comps \cap Header \in SUBSET Header
    BY <2>2, SignedAssumption DEF InputType
  <2>. HIDE DEF input
  <2>. QED BY <1>1, <2>1, <2>3
<1>4. CASE UNCHANGED net
  BY <1>4 DEF NetInv
<1>. QED
  BY <1>2, <1>3, <1>4
     DEF SigNext, SignerStep, AdminStep, StoreStep, Server, KeysNew, KeysNewPublic, ImportKey, Tick,
         KeysRegister, RegisterByHand, Deactivate, Call, Receive, Resolve, cliVars, sigVars

\* An edited request has the parameters and the signature that it was sent with.
LEMMA ReceivedIsSigned ==
  ASSUME NEW k \in Key, NEW by \in {"curl", "other"}, NEW m \in Method, NEW u \in Url,
         NEW hdrs \in SUBSET Header, NEW input \in InputType,
         NEW msg \in Received(SentBy(k, by, m, u, hdrs, input))
  PROVE  /\ msg.input = input
         /\ msg.sig = Sign(k, input.alg, SignBase(m, u, hdrs, input))
         /\ msg.url = u \/ msg.url \in Url
<1>. DEFINE sg == Sign(k, input.alg, SignBase(m, u, hdrs, input))
<1>1. SentBy(k, by, m, u, hdrs, input)
        = [by |-> by, method |-> m, url |-> u, hdrs |-> hdrs, input |-> input, sig |-> sg]
  BY DEF SentBy
<1>. HIDE DEF sg
<1>2. msg.input = input /\ msg.sig = sg /\ (msg.url = u \/ msg.url \in Url)
  BY <1>1 DEF Received
<1>. QED BY <1>2 DEF sg

\* A request that passes the checks was sent, and is in time.
LEMMA CheckedArrives ==
  ASSUME FilesInv, NetInv, NEW s \in net, NEW msg \in Received(s), Checked(msg)
  PROVE  InWindow(msg, clock) /\ Required \subseteq msg.input.comps
<1>1. PICK k \in Key, by \in {"curl", "other"}, m \in Method, u \in Url, hdrs \in SUBSET Header,
           input \in InputType : s = SentBy(k, by, m, u, hdrs, input)
  BY DEF NetInv
<1>2. msg.input = input
  BY <1>1, ReceivedIsSigned
<1>3. Parsed(input).comps = input.comps /\ Parsed(input).created = input.created
  BY DEF Parsed, InputType
<1>4. Required \subseteq input.comps
  BY <1>2, <1>3 DEF Checked, EnsureRequired, Required
<1>5. ASSUME input.created # None PROVE clock - Int64(input.created) \in -Skew..Skew
  <2>1. Int64(input.created) \in (clock - Skew)..(clock + Skew)
    BY <1>2, <1>3, <1>5 DEF Checked, CheckCreated
  <2>. QED BY <2>1, SignedAssumption DEF FilesInv
<1>. QED BY <1>2, <1>4, <1>5 DEF InWindow

LEMMA ReqInvStep ==
  ASSUME FilesInv, NetInv, ReqInv, [SigNext]_sigVars
  PROVE  ReqInv'
<1>1. net \subseteq net'
  BY NetInvStep
<1>2. \A r : Arrived(r) => Arrived(r)'
  BY <1>1 DEF Arrived
<1>3. ASSUME NEW t \in Thread, NEW s \in net, NEW msg \in Received(s), Receive(t, msg)
      PROVE  ReqInv'
  <2>. DEFINE r == [msg |-> msg, at |-> clock]
  <2>1. req' = [req EXCEPT ![t] = r]
    BY <1>3 DEF Receive
  <2>2. Arrived(r)
    BY <1>3, CheckedArrives DEF Arrived, Receive
  <2>. HIDE DEF r
  <2>. QED BY <1>2, <2>1, <2>2 DEF ReqInv
<1>4. ASSUME NEW t \in Thread, Resolve(t) PROVE ReqInv'
  BY <1>2, <1>4 DEF ReqInv, Resolve
<1>5. ASSUME StoreStep PROVE ReqInv'
  BY <1>2, <1>5 DEF ReqInv, StoreStep
<1>6. CASE UNCHANGED req
  BY <1>2, <1>6 DEF ReqInv
<1>7. ASSUME SignerStep PROVE UNCHANGED req
  BY <1>7, SignersApart
<1>8. ASSUME AdminStep \/ Tick PROVE UNCHANGED req
  BY <1>8 DEF AdminStep, Tick, KeysRegister, RegisterByHand, Deactivate, Call
<1>. QED BY <1>3, <1>4, <1>5, <1>6, <1>7, <1>8 DEF SigNext, Server, sigVars

LEMMA SigInvHolds == SigSpec => []SigInv
<1>1. SigInit => SigInv
  <2>1. SigInit => RSInv
    BY RSBoundsAssumption, RSNullsAssumption
       DEF SigInit, Init, RSInv, RSTypeOK, NoSurprise, SavingAsAsked, FileExpected, Load
  <2>. QED BY <2>1, SignedAssumption DEF SigInit, SigInv, FilesInv, NetInv, ReqInv
<1>2. SigInv /\ [SigNext]_sigVars => SigInv'
  BY SigStepIsRSStep, RSInvStep, FilesInvStep, NetInvStep, ReqInvStep DEF SigInv
<1>. QED BY <1>1, <1>2, PTL DEF SigSpec

-----------------------------------------------------------------------------
(* The theorems. *)

\* Key files, signers, the network and the verifier add nothing to what the key
\* store may do: each of its theorems holds here, the one that it is a register
\* for each key among them (cmdKeysRegister, RSKeysHandler, VerifyRSProof).
THEOREM RequestsUseTheKeyStore == SigSpec => Spec
<1>1. SigInit => Init
  BY DEF SigInit
<1>2. SigInv /\ [SigNext]_sigVars => [Next]_rsVars
  BY SigStepIsRSStep DEF SigInv
<1>. QED BY <1>1, <1>2, SigInvHolds, PTL DEF SigSpec, Spec

\* If the two bases of a request agree then so do its method and its URL.
LEMMA BasesAgree ==
  ASSUME NEW msg, NEW m, NEW u, NEW hdrs, NEW input, msg.input = input,
         Required \subseteq input.comps, SignBase(m, u, hdrs, input) = RequestBase(msg)
  PROVE  m = msg.method /\ u.path = msg.url.path /\ HostPort(u) = HostPort(msg.url)
<1>. DEFINE v == SignBase(m, u, hdrs, input).value
            w == RequestBase(msg).value
<1>1. "@method" \in input.comps /\ "@target-uri" \in input.comps
  BY DEF Required
<1>2. v["@method"] = <<m>> /\ v["@target-uri"] = <<u.scheme, u.port, u.path>>
  BY <1>1 DEF SignBase, SignedUri
<1>3. w["@method"] = <<msg.method>> /\ w["@target-uri"] = <<"http", HostPort(msg.url), msg.url.path>>
  BY <1>1 DEF RequestBase
<1>4. v = w
  OBVIOUS
<1>. HIDE DEF v, w
<1>5. <<m>> = <<msg.method>>
     /\ <<u.scheme, u.port, u.path>> = <<"http", HostPort(msg.url), msg.url.path>>
  BY <1>2, <1>3, <1>4
<1>6. m = msg.method /\ u.path = msg.url.path /\ u.port = HostPort(msg.url)
  BY <1>5
<1>. QED BY <1>6 DEF HostPort

\* Whoever is admitted signed this very request, with a key that somebody asked to
\* register under the kid.
THEOREM AdmissionIsEarned == SigSpec => []AdmittedWasSigned
<1>1. SigInv => AdmittedWasSigned
  <2>. SUFFICES ASSUME SigInv, NEW t \in Thread, req[t] # NoRequest,
                       NEW k \in Keys(req[t].msg), Admits(req[t].msg, k)
                PROVE  LET msg == req[t].msg IN
                         /\ \E s \in net : /\ s.sig = msg.sig /\ s.sig.key = k
                                           /\ s.method = msg.method /\ s.url.path = msg.url.path
                                           /\ HostPort(s.url) = HostPort(msg.url)
                         /\ Registered(k, msg.input.keyid)
                         /\ InWindow(msg, req[t].at)
    BY DEF AdmittedWasSigned
  <2>. DEFINE msg == req[t].msg
  <2>1. Arrived(req[t])
    BY DEF SigInv, ReqInv
  <2>2. PICK s \in net : msg \in Received(s)
    BY <2>1 DEF Arrived
  <2>3. PICK k2 \in Key, by \in {"curl", "other"}, m \in Method, u \in Url, hdrs \in SUBSET Header,
             input \in InputType : s = SentBy(k2, by, m, u, hdrs, input)
    BY DEF SigInv, NetInv
  <2>4. msg.input = input /\ msg.sig = Sign(k2, input.alg, SignBase(m, u, hdrs, input))
    BY <2>2, <2>3, ReceivedIsSigned
  <2>5. Sign(k2, input.alg, SignBase(m, u, hdrs, input)) = Sign(k, input.alg, RequestBase(msg))
    BY <2>4 DEF Admits, VerifySignature
  <2>6. k2 = k /\ SignBase(m, u, hdrs, input) = RequestBase(msg)
    BY <2>5 DEF Sign
  <2>7. Required \subseteq input.comps
    BY <2>1, <2>4 DEF Arrived
  <2>8. m = msg.method /\ u.path = msg.url.path /\ HostPort(u) = HostPort(msg.url)
    BY <2>4, <2>6, <2>7, BasesAgree
  <2>9. /\ s.sig = msg.sig /\ s.sig.key = k
        /\ s.method = msg.method /\ s.url.path = msg.url.path /\ HostPort(s.url) = HostPort(msg.url)
    <3>1. s.method = m /\ s.url = u /\ s.sig = Sign(k2, input.alg, SignBase(m, u, hdrs, input))
      BY <2>3 DEF SentBy
    <3>. QED BY <2>4, <2>6, <2>8, <3>1 DEF Sign
  <2>10. Registered(k, msg.input.keyid)
    <3>1. k # None
      BY DEF Admits
    <3>2. PICK e \in Slot : Has(e, msg.input.keyid) /\ e[2] = k
      BY <3>1 DEF Keys, LookupById
    <3>3. cache[e] # None /\ cache[e].kid = msg.input.keyid /\ cache[e] \in expected[e]
      BY <3>2 DEF Has, SigInv, RSInv, NoSurprise
    <3>4. e = <<e[1], k>> /\ e[1] \in Tenant
      BY <3>2 DEF Slot
    <3>. QED BY <3>3, <3>4 DEF Registered
  <2>. QED BY <2>1, <2>9, <2>10 DEF Arrived
<1>. QED BY <1>1, SigInvHolds, PTL

\* What sign curl prints for a plain http URL is admitted in its time, once its key
\* is registered under its kid and no other key is.
THEOREM SignaturesAreAdmitted == SigSpec => []SignedIsAdmitted
<1>1. SigInv => SignedIsAdmitted
  <2>. SUFFICES ASSUME SigInv, NEW msg \in net, msg.by = "curl", msg.url.scheme = "http",
                       msg.url.port # "default", KeyType(msg.sig.key) = msg.input.alg,
                       msg.input.keyid \notin Quoted
                PROVE  /\ clock - msg.input.created \in -Skew..Skew => Checked(msg)
                       /\ Known(msg.sig.key, msg.input.keyid) /\ saving = None =>
                            \A found \in Keys(msg) : Admits(msg, found)
    BY DEF SignedIsAdmitted
  <2>1. PICK k \in Key, by \in {"curl", "other"}, m \in Method, u \in Url, hdrs \in SUBSET Header,
             input \in InputType :
               /\ msg = SentBy(k, by, m, u, hdrs, input)
               /\ by = "curl" => input.comps = Required \cup hdrs /\ input.created \in 0..(Half - 1)
    BY DEF SigInv, NetInv
  <2>2. /\ msg.method = m /\ msg.url = u /\ msg.hdrs = hdrs /\ msg.input = input
        /\ msg.sig = Sign(k, input.alg, SignBase(m, u, hdrs, input))
        /\ msg.sig.key = k /\ input.comps = Required \cup hdrs /\ input.created \in 0..(Half - 1)
    BY <2>1 DEF SentBy, Sign
  <2>3. input.alg \in Alg /\ input.keyid \in Kid \ Quoted
    BY <2>2 DEF InputType
  <2>4. ASSUME clock - input.created \in -Skew..Skew PROVE Checked(msg)
    <3>1. Int64(input.created) = input.created
      BY <2>2, SignedAssumption DEF Int64
    <3>2. input.created \in (clock - Skew)..(clock + Skew)
      BY <2>2, <2>4, SignedAssumption DEF SigInv, FilesInv
    <3>3. Parsed(msg.input) = input
      BY <2>2, <2>3 DEF Parsed
    <3>. QED BY <2>2, <2>3, <3>1, <3>2, <3>3 DEF Checked, EnsureRequired, CheckCreated, Required
  <2>5. ASSUME Known(k, input.keyid) PROVE Keys(msg) = {k}
    <3>1. PICK s \in Slot : /\ s[2] = k
                            /\ expected[s] = {[kid |-> input.keyid, active |-> TRUE, public |-> TRUE]}
                            /\ \A o \in Slot \ {s} : ~Has(o, input.keyid)
      BY <2>5 DEF Known
    <3>. DEFINE r == [kid |-> input.keyid, active |-> TRUE, public |-> TRUE]
    <3>2. r \in Record /\ r # None
      <4>1. r \in Record
        BY <2>3 DEF Record
      <4>. QED BY <4>1, RSNullsAssumption
    <3>3. k \in Ed25519 \cup P256 \cup P384
      BY <2>2, <2>3 DEF KeyType, Alg
    <3>4. RegisteredIsFound
      BY RegisteredFound DEF SigInv
    <3>5. r.kid = input.keyid /\ r.active /\ r.public
      OBVIOUS
    <3>. HIDE DEF r
    <3>6. LookupById(r.kid) = {s[2]}
      BY <3>1, <3>2, <3>3, <3>4, <3>5 DEF RegisteredIsFound, r
    <3>. QED BY <2>2, <3>1, <3>5, <3>6 DEF Keys
  <2>6. Admits(msg, k)
    <3>1. k # None
      BY RSNullsAssumption
    <3>2. CanBuild(msg)
      BY <2>2 DEF CanBuild, Required, Header
    <3>3. SignBase(m, u, hdrs, input) = RequestBase(msg)
      <4>1. HostPort(u) = u.port /\ SignedUri(u) = <<"http", u.port, u.path>>
        BY <2>2 DEF HostPort, SignedUri
      <4>. QED BY <2>2, <4>1 DEF SignBase, RequestBase
    <3>. QED BY <2>2, <3>1, <3>2, <3>3 DEF Admits, VerifySignature
  <2>. QED BY <2>2, <2>4, <2>5, <2>6
<1>. QED BY <1>1, SigInvHolds, PTL
=============================================================================
