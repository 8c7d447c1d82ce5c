---------------------------- MODULE SignedRequests ----------------------------
(***************************************************************************)
(* Signed requests from end to end: key files (twigbush keys new, keys     *)
(* register), signing (sign curl), the way to the server, where a request  *)
(* may be late, repeated or edited, and VerifyRSProof, which looks the key *)
(* up in RSKeyStore while keys are registered and deactivated.             *)
(*                                                                         *)
(* The signer and the verifier build the signature base each on its own.   *)
(* A base is the value of every covered component and the parameters; a    *)
(* signature is the key pair, the algorithm and the base it is made over.  *)
(***************************************************************************)
EXTENDS RSKeyStore, Integers, FiniteSets

CONSTANTS
  Thread,      \* request goroutines of the server
  Method,      \* HTTP methods, in either case
  Url,         \* URLs, see UrlType
  Quoted,      \* kids with a character that %q escapes and nextParam does not
  Uploads,     \* whether a JWK that is registered by hand is a public one
  Headers,     \* sets of headers that a request may carry
  Covers,      \* sets of components that other software may cover
  Skew,        \* maxSkewSeconds, in ticks
  Drift,       \* how far a signer's clock may be ahead of the server's
  Written,     \* times that other software may write into a request
  Half,        \* half of the numbers an int64 has: 2^63
  MaxTime,     \* bound: the clock stops here
  MaxSent,     \* bound: requests signed
  MaxCalls     \* bound: registrations and deactivations

UrlType == [scheme : {"http", "https"}, port : {"none", "default", "other"}, path : STRING]
Alg == {"ed25519", "ecdsa-p256-sha256", "ecdsa-p384-sha384"}
Header == {"authorization", "content-digest"}
Component == {"@method", "@target-uri", "@authority", "@path"} \cup Header

ASSUME SignedAssumption ==
  /\ P384 \subseteq Kid /\ Quoted \subseteq Kid \ P384 /\ None \notin Kid \cup Thread
  /\ Headers \subseteq SUBSET Header /\ Covers \subseteq SUBSET Component
  /\ Url \subseteq UrlType /\ Uploads \subseteq BOOLEAN /\ Skew \in Nat /\ Drift \subseteq Nat
  /\ Written \subseteq Nat /\ Half \in Nat /\ \A d \in Drift : MaxTime + d < Half
  /\ MaxTime \in Nat /\ MaxSent \in Nat /\ MaxCalls \in Nat

VARIABLES
  jwk,       \* jwk[k]: the kid in the private key file of k
  pub,       \* the keys whose public key file is written
  clock,
  net,       \* requests signed: each may arrive any number of times
  req,       \* req[t]: the request that goroutine t has checked, and when
  calls

cliVars == <<jwk, pub>>
sigVars == <<rsVars, jwk, pub, clock, net, req, calls>>

NoRequest == [msg |-> None, at |-> 0]

SigInit ==
  /\ Init
  /\ jwk = [k \in Key |-> None]
  /\ pub = {}
  /\ clock = 0
  /\ net = {}
  /\ req = [t \in Thread |-> NoRequest]
  /\ calls = 0

-----------------------------------------------------------------------------
(* Key files. *)

\* A P-384 key whose kid is its thumbprint, also if --kid says otherwise: first
\* the private file is written, ...
KeysNew(k) ==
  /\ k \in P384 /\ jwk[k] = None
  /\ jwk' = [jwk EXCEPT ![k] = k]
  /\ UNCHANGED <<rsVars, pub, clock, net, req, calls>>

\* ... then the public one, unless the command dies in between.
KeysNewPublic(k) ==
  /\ jwk[k] # None /\ k \notin pub
  /\ pub' = pub \cup {k}
  /\ UNCHANGED <<rsVars, jwk, clock, net, req, calls>>

\* Key files that other tools make, with any kid.
ImportKey(k, n) ==
  /\ k \notin P384 /\ jwk[k] = None
  /\ jwk' = [jwk EXCEPT ![k] = n]
  /\ pub' = pub \cup {k}
  /\ UNCHANGED <<rsVars, clock, net, req, calls>>

Call == calls < MaxCalls /\ calls' = calls + 1 /\ UNCHANGED <<cliVars, clock, net, req>>

\* keys register uploads the public file, never the private one, with its kid.
KeysRegister(s) == s[2] \in pub /\ RegisterKey(s, jwk[s[2]], TRUE) /\ Call

\* Registrations by hand, with any kid, and deactivations.
RegisterByHand(s, n, p) == RegisterKey(s, n, p) /\ Call
Deactivate(s) == DeactivateRSKey(s) /\ Call

StoreStep ==
  /\ Truncate \/ Fill \/ SaveFails \/ Restart
  /\ req' = IF crashes' = crashes THEN req ELSE [t \in Thread |-> NoRequest]
  /\ UNCHANGED <<cliVars, clock, net, calls>>

-----------------------------------------------------------------------------
(* sign curl, and the request that curl makes of its output. *)

KeyType(k) ==
  CASE k \in Ed25519 -> "ed25519" [] k \in P256 -> "ecdsa-p256-sha256"
    [] k \in P384 -> "ecdsa-p384-sha384" [] OTHER -> "none"

\* signBase: any EC key signs with P-256's algorithm.
CanSign(alg, k) ==
  \/ KeyType(k) = alg
  \/ alg = "ecdsa-p256-sha256" /\ k \in P384 \cup P521

\* The signer's URI has the scheme and the port that were typed.
SignedUri(u) == <<u.scheme, u.port, u.path>>
\* curl leaves a default port out of Host.
HostPort(u) == IF u.port = "default" THEN "none" ELSE u.port

Sign(k, alg, base) == [key |-> k, alg |-> alg, base |-> base]

SignBase(m, u, hdrs, input) ==
  [value |-> [c \in input.comps |->
                CASE c = "@method" -> <<m>>
                  [] c = "@target-uri" -> SignedUri(u)
                  [] c = "@authority" -> <<u.port>>
                  [] OTHER -> <<c>>],
   input |-> input]

Send(k, by, m, u, hdrs, input) ==
  /\ Cardinality(net) < MaxSent
  /\ net' = net \cup {[by |-> by, method |-> m, url |-> u, hdrs |-> hdrs, input |-> input,
                       sig |-> Sign(k, input.alg, SignBase(m, u, hdrs, input))]}
  /\ UNCHANGED <<rsVars, cliVars, clock, req, calls>>

\* --alg overrides the algorithm of the key's type.
SignCurl(k, alg, m, u, hdrs, d) ==
  /\ jwk[k] # None /\ CanSign(alg, k)
  /\ Send(k, "curl", m, u, hdrs,
          [comps |-> {"@method", "@target-uri"} \cup hdrs,
           created |-> clock + d, keyid |-> jwk[k], alg |-> alg])

\* Other software may cover other components, and leave the time out or write
\* any digits there.
OtherSigner(k, m, u, comps, created) ==
  /\ jwk[k] # None /\ KeyType(k) # "none"
  /\ Send(k, "other", m, u, comps \cap Header,
          [comps |-> comps, created |-> created,
           keyid |-> jwk[k], alg |-> KeyType(k)])

-----------------------------------------------------------------------------
(* VerifyRSProof. *)

\* parseSignatureInputForLabel: a value ends at the first quote, and after it
\* parsing stops, so the algorithm, which follows the kid, is lost.
Parsed(input) ==
  IF input.keyid \in Quoted THEN [input EXCEPT !.keyid = None, !.alg = None] ELSE input

EnsureRequired_F(comps) == "@method" \in comps \/ "@target-uri" \in comps
EnsureRequired(comps) == {"@method", "@target-uri"} \subseteq comps

\* parseInt adds the digits up in an int64, which wraps around.
Int64(n) == IF n < Half THEN n ELSE ((n + Half) % (2 * Half)) - Half

CheckCreated_F(created) ==              \* no allowance for a clock that is ahead
  created # None => Int64(created) \in (clock - Skew)..clock
CheckCreated(created) ==
  created # None => Int64(created) \in (clock - Skew)..(clock + Skew)

\* The checks that need no key.
Checked(msg) ==
  LET input == Parsed(msg.input) IN
    EnsureRequired(input.comps) /\ CheckCreated(input.created) /\ input.alg \in Alg

\* buildSignatureBase knows all derived components but @path, and takes every
\* request for an http one, as the server has no TLS.
CanBuild(msg) == "@path" \notin msg.input.comps /\ msg.input.comps \cap Header \subseteq msg.hdrs

RequestBase_F(msg) ==                   \* the URI has no port
  [value |-> [c \in msg.input.comps |->
                CASE c = "@method" -> <<msg.method>>
                  [] c = "@target-uri" -> <<"http", "none", msg.url.path>>
                  [] c = "@authority" -> <<HostPort(msg.url)>>
                  [] OTHER -> <<c>>],
   input |-> msg.input]
RequestBase(msg) ==
  [value |-> [c \in msg.input.comps |->
                CASE c = "@method" -> <<msg.method>>
                  [] c = "@target-uri" -> <<"http", HostPort(msg.url), msg.url.path>>
                  [] c = "@authority" -> <<HostPort(msg.url)>>
                  [] OTHER -> <<c>>],
   input |-> msg.input]

VerifySignature(msg, k) ==
  KeyType(k) = msg.input.alg /\ msg.sig = Sign(k, msg.input.alg, RequestBase(msg))

\* The verdict on a checked request for which the key k was found, or None.
Admits(msg, k) == k # None /\ CanBuild(msg) /\ VerifySignature(msg, k)

\* A request arrives, perhaps again, or with another method or URL than it was
\* signed for, or without a header.  One that fails the checks changes nothing.
Receive(t, msg) ==
  /\ req[t] = NoRequest /\ Checked(msg)
  /\ req' = [req EXCEPT ![t] = [msg |-> msg, at |-> clock]]
  /\ UNCHANGED <<rsVars, cliVars, clock, net, calls>>

Received(s) == {[s EXCEPT !.method = m] : m \in Method}
               \cup {[s EXCEPT !.url = u] : u \in Url}
               \cup {[s EXCEPT !.hdrs = h] : h \in SUBSET s.hdrs}

\* router.go resolves the kid under the read lock of the store, and the rest of
\* VerifyRSProof works on the key that it got: the request is admitted or
\* refused, as Admits says, and goes its way.
Keys(msg) == LookupById(msg.input.keyid)

Resolve(t) ==
  /\ req[t] # NoRequest /\ saving = None
  /\ req' = [req EXCEPT ![t] = NoRequest]
  /\ UNCHANGED <<rsVars, cliVars, clock, net, calls>>

Tick == /\ clock < MaxTime /\ clock' = clock + 1
        /\ UNCHANGED <<rsVars, cliVars, net, req, calls>>

SignerStep ==
  \/ \E k \in Key : KeysNew(k) \/ KeysNewPublic(k) \/ \E n \in Kid : ImportKey(k, n)
  \/ \E k \in Key, alg \in Alg, m \in Method, u \in Url, hdrs \in Headers, d \in Drift :
       SignCurl(k, alg, m, u, hdrs, d)
  \/ \E k \in Key, m \in Method, u \in Url, comps \in Covers, created \in Written \cup {None} :
       OtherSigner(k, m, u, comps, created)

AdminStep ==
  \E s \in Slot : \/ KeysRegister(s) \/ Deactivate(s)
                  \/ \E n \in Kid, p \in Uploads : RegisterByHand(s, n, p)

Server(t) == (\E s \in net : \E msg \in Received(s) : Receive(t, msg)) \/ Resolve(t)

SigNext == SignerStep \/ AdminStep \/ StoreStep \/ Tick \/ \E t \in Thread : Server(t)

SigSpec == SigInit /\ [][SigNext]_sigVars

-----------------------------------------------------------------------------
(* Properties. *)

\* The time on the request, as the server reads it, is near enough.
InWindow(msg, now) ==
  msg.input.created # None => now - Int64(msg.input.created) \in -Skew..Skew

Registered(k, n) == \E tn \in Tenant : \E r \in expected[<<tn, k>>] : r # None /\ r.kid = n

\* Whoever is admitted had this very request, method and URL included, signed
\* under the kid that becomes its identity, with a key that somebody asked to
\* register so; and it arrived in the time window, if the signer gave a time, which
\* counts modulo 2^64: a number of twenty digits may stand for the present.  Edits
\* after signing, repeats, keys that share a kid, and keys that change between the
\* checks and the lookup are included (VerifyRSProof, parseInt, router.go).
AdmittedWasSigned ==
  \A t \in Thread : req[t] # NoRequest /\ saving = None =>
    LET msg == req[t].msg IN
      \A k \in Keys(msg) : Admits(msg, k) =>
        /\ \E s \in net : /\ s.sig = msg.sig /\ s.sig.key = k /\ s.method = msg.method
                          /\ s.url.path = msg.url.path /\ HostPort(s.url) = HostPort(msg.url)
        /\ Registered(k, msg.input.keyid)
        /\ InWindow(msg, req[t].at)

\* The key is registered under the kid, as far as callers were told, and no other.
Known(k, n) ==
  \E s \in Slot : /\ s[2] = k
                  /\ expected[s] = {[kid |-> n, active |-> TRUE, public |-> TRUE]}
                  /\ \A o \in Slot \ {s} : ~Has(o, n)

\* What sign curl prints is admitted, however often it is run in the window, once
\* its key is registered with success under its kid and no other has that kid,
\* unless the URL is https or spells out the default port, --alg does not fit
\* the key, or the kid has a quote.  This compares what the two programs put into
\* the base for each component, the algorithm, the kid through %q and nextParam,
\* the two clocks, the saves and the lookup; what curl or a shell changes within a
\* path or a header value (dot segments, a $ in the quotes) is not in the model.
SignedIsAdmitted ==
  \A msg \in net :
    LET k == msg.sig.key  n == msg.input.keyid IN
      (/\ msg.by = "curl" /\ msg.url.scheme = "http" /\ msg.url.port # "default"
       /\ KeyType(k) = msg.input.alg /\ n \notin Quoted)
      => /\ clock - msg.input.created \in -Skew..Skew => Checked(msg)
         /\ Known(k, n) /\ saving = None => \A found \in Keys(msg) : Admits(msg, found)
=============================================================================
