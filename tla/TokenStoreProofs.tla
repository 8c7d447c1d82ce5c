--------------------------- MODULE TokenStoreProofs ---------------------------
(***************************************************************************)
(* Theorems about TokenStore, for any tokens, accesses, goroutines and     *)
(* bounds.                                                                 *)
(***************************************************************************)
EXTENDS TokenStore, TLAPS

Putting(r) == r.pc \in {"put", "data", "cache"}
Filling(r) == r.pc \in {"fill", "return"}
Reading(r) == Filling(r) \/ r.pc \in {"get", "judge"}

\* What a request has in hand at each step.
Shape(r) ==
  /\ Putting(r) => r.token \in Token /\ r.rec \in Record
  /\ Reading(r) => r.token \in Token /\ r.rs \in RS /\ r.asks \in Asked
  /\ Filling(r) => r.rec \in Record
  /\ r.pc = "make" \/ Putting(r) => r.iss \in Issuer

TypeInv == StoreTypeOK /\ \A t \in Thread : Shape(req[t])

\* Every copy of a record is the record that was made for the token.
AsMade ==
  /\ \A k \in Token : Readable(k) => file[k] = made[k]
  /\ \A k \in Token : cache[k] # None => cache[k] = made[k]
  /\ \A t \in Thread :
       (Putting(req[t]) \/ Reading(req[t])) /\ req[t].rec # None =>
         req[t].rec = made[req[t].token]

\* Where a token can be met once it is stored.
Known(k) ==
  \/ cache[k] # None
  \/ \E t \in Thread : (Filling(req[t]) /\ req[t].token = k) \/ k \in req[t].got
  \/ Held(k)

\* A token that is being put is in the hands of one goroutine.
Owned ==
  /\ \A k \in Token : made[k] = None => file[k] = None
  /\ \A k \in Token, t \in Thread : Putting(req[t]) /\ req[t].token = k =>
       /\ ~Known(k)
       /\ \A u \in Thread : Putting(req[u]) /\ req[u].token = k => u = t
  /\ \A t \in Thread : At(t, "put") => file[req[t].token] = None
  /\ \A t \in Thread : At(t, "data") => lock = t /\ file[req[t].token] = Torn
  /\ \A t \in Thread : At(t, "cache") => lock = t /\ file[req[t].token] = req[t].rec

\* A token that is stored stays on disk until it expires.
OnDisk(r, f, now) == r # None /\ (LiveAt(r, now) => f = r)

Kept == \A k \in Token : Known(k) => OnDisk(made[k], file[k], clock)

\* An issuance has a token for every access that it no longer has to do.
Complete ==
  /\ \A t \in Thread : \A a \in req[t].approved \ req[t].todo :
       \/ Putting(req[t]) /\ req[t].rec.access = a
       \/ \E k \in req[t].got : made[k].access = a
  /\ \A g \in given : \A a \in g.access : \E k \in g.tokens : made[k].access = a

\* Only what a lookup did not find, or found expired, is taken for unknown.
Looked ==
  /\ \A k \in Token, t \in Thread :
       Reading(req[t]) /\ req[t].token = k /\ req[t].held => Held(k)
  /\ \A t \in Thread :
       At(t, "judge") /\ req[t].held /\ ~req[t].err /\ req[t].rec = None =>
         ~LiveAt(made[req[t].token], clock)

\* What was once answered as inactive remains so: the record does not change.
Deserves(r, now, rs, asks) ==
  /\ LiveAt(r, now) /\ r.iss = ASGrantURL
  /\ AudAllows(r.aud, rs) /\ CanSatisfyAccess(r, asks)

Over(r, now, rs, asks) == r # None /\ ~Deserves(r, now, rs, asks)

Remembered ==
  /\ \A q \in gone : Over(made[q[1]], clock, q[2], q[3])
  /\ \A t \in Thread : Reading(req[t]) /\ req[t].gone =>
       Over(made[req[t].token], clock, req[t].rs, req[t].asks)

TokenInv == TypeInv /\ AsMade /\ Owned /\ Kept /\ Complete /\ Looked /\ Remembered

-----------------------------------------------------------------------------
(* Types. *)

LEMMA IdleOK == Idle \in Request /\ Shape(Idle)
BY DEF Idle, Request, Shape, Putting, Reading, Filling

\* A goroutine that becomes a well-formed request leaves all of them so.
LEMMA BecomesOK ==
  ASSUME TypeInv, NEW t \in Thread, NEW r \in Request, Shape(r), Become(t, r)
  PROVE  req' \in [Thread -> Request] /\ \A u \in Thread : Shape(req[u])'
BY DEF TypeInv, StoreTypeOK, Become

\* A failed file operation is counted.
LEMMA FailsOK ==
  ASSUME fails \in 0..MaxFail, fails < MaxFail
  PROVE  fails + 1 \in 0..MaxFail
BY StoreAssumption

\* What a goroutine may become, field by field.
LEMMA MovesOK ==
  ASSUME NEW r \in Request, NEW x \in Record \cup {None}
  PROVE  /\ \A p \in {"data", "cache", "judge", "return", "stuck"} : [r EXCEPT !.pc = p] \in Request
         /\ \A p \in {"judge", "fill"} : [r EXCEPT !.pc = p, !.rec = x] \in Request
         /\ \A e \in BOOLEAN : [r EXCEPT !.pc = "judge", !.err = e] \in Request
<1>1. ASSUME NEW p \in {"data", "cache", "judge", "return", "stuck"}
      PROVE  [r EXCEPT !.pc = p] \in Request
  BY DEF Request
<1>2. ASSUME NEW p \in {"judge", "fill"}
      PROVE  [r EXCEPT !.pc = p, !.rec = x] \in Request
  BY DEF Request
<1>3. ASSUME NEW e \in BOOLEAN
      PROVE  [r EXCEPT !.pc = "judge", !.err = e] \in Request
  BY DEF Request
<1>. QED BY <1>1, <1>2, <1>3

LEMMA ArrivalsOK ==
  /\ \A as \in SUBSET Access, iss \in Issuer, aud \in SUBSET RS :
       LET r == [Idle EXCEPT !.pc = "make", !.approved = as, !.todo = as, !.iss = iss, !.aud = aud]
       IN  r \in Request /\ Shape(r)
  /\ \A k \in Token, rs \in RS, asks \in Asked, h \in BOOLEAN, g \in BOOLEAN :
       LET r == [Idle EXCEPT !.pc = "get", !.token = k, !.rs = rs, !.asks = asks,
                             !.held = h, !.gone = g]
       IN  r \in Request /\ Shape(r)
  /\ \A k \in Token :
       LET r == [Idle EXCEPT !.pc = "revoke", !.token = k] IN r \in Request /\ Shape(r)
<1>1. ASSUME NEW as \in SUBSET Access, NEW iss \in Issuer, NEW aud \in SUBSET RS
      PROVE  LET r == [Idle EXCEPT !.pc = "make", !.approved = as, !.todo = as, !.iss = iss, !.aud = aud]
             IN  r \in Request /\ Shape(r)
  BY DEF Idle, Request, Shape, Putting, Reading, Filling
<1>2. ASSUME NEW k \in Token, NEW rs \in RS, NEW asks \in Asked, NEW h \in BOOLEAN, NEW g \in BOOLEAN
      PROVE  LET r == [Idle EXCEPT !.pc = "get", !.token = k, !.rs = rs, !.asks = asks,
                                   !.held = h, !.gone = g]
             IN  r \in Request /\ Shape(r)
  BY StoreAssumption DEF Idle, Request, Shape, Putting, Reading, Filling
<1>3. ASSUME NEW k \in Token
      PROVE  LET r == [Idle EXCEPT !.pc = "revoke", !.token = k] IN r \in Request /\ Shape(r)
  BY DEF Idle, Request, Shape, Putting, Reading, Filling
<1>. QED BY <1>1, <1>2, <1>3

LEMMA IssuesOK ==
  ASSUME NEW r \in Request, NEW k \in Token
  PROVE  /\ \A x \in Record, a \in r.todo :
              [r EXCEPT !.pc = "put", !.token = k, !.rec = x, !.todo = @ \ {a}] \in Request
         /\ [r EXCEPT !.got = @ \cup {k}] \in Request
         /\ [r EXCEPT !.pc = "make", !.token = None, !.rec = None] \in Request
<1>1. ASSUME NEW x \in Record, NEW a \in r.todo
      PROVE  [r EXCEPT !.pc = "put", !.token = k, !.rec = x, !.todo = @ \ {a}] \in Request
  <2>. DEFINE td == r.todo \ {a}
  <2>1. td \in SUBSET Access
    BY DEF Request
  <2>. HIDE DEF td
  <2>2. [r EXCEPT !.pc = "put", !.token = k, !.rec = x, !.todo = td] \in Request
    BY <2>1 DEF Request
  <2>. QED BY <2>2 DEF td
<1>2. [r EXCEPT !.got = @ \cup {k}] \in Request
  <2>. DEFINE gt == r.got \cup {k}
  <2>1. gt \in SUBSET Token
    BY DEF Request
  <2>. HIDE DEF gt
  <2>2. [r EXCEPT !.got = gt] \in Request
    BY <2>1 DEF Request
  <2>. QED BY <2>2 DEF gt
<1>3. [r EXCEPT !.pc = "make", !.token = None, !.rec = None] \in Request
  BY DEF Request
<1>. QED BY <1>1, <1>2, <1>3

\* Every step keeps the types.
LEMMA TypeStep ==
  ASSUME TypeInv, [Next]_vars
  PROVE  TypeInv'
<1>. USE DEF TypeInv, StoreTypeOK, Seen, Bounds
<1>. \A t \in Thread : req[t] \in Request /\ Shape(req[t])
  OBVIOUS
<1>1. ASSUME NEW t \in Thread, NEW as \in Approvals, NEW iss \in Issuer, NEW aud \in Audience, IssueRequest(t, as, iss, aud) PROVE TypeInv'
  <2>. DEFINE r == [Idle EXCEPT !.pc = "make", !.approved = as, !.todo = as, !.iss = iss, !.aud = aud]
  <2>0. r \in Request
    BY <1>1, ArrivalsOK, StoreAssumption
  <2>1. r \in Request /\ Shape(r)
    BY <1>1, <2>0, IdleOK, StoreAssumption DEF Idle, Request, Shape, Putting, Reading, Filling, At
  <2>2. req' \in [Thread -> Request] /\ \A u \in Thread : Shape(req[u])'
    BY <1>1, <2>1, BecomesOK DEF IssueRequest
  <2>. QED BY <1>1, <2>2, FailsOK, TokensAssumption, StoreAssumption DEF IssueRequest, Record, Time
<1>2. ASSUME NEW t \in Thread, MakeToken(t) PROVE TypeInv'
  <2>1. PICK k \in Token, a \in req[t].todo :
          LET rec == [iss |-> req[t].iss, access |-> a, aud |-> req[t].aud, exp |-> clock + TTL] IN
            /\ made' = [made EXCEPT ![k] = rec]
            /\ Become(t, [req[t] EXCEPT !.pc = "put", !.token = k, !.rec = rec, !.todo = @ \ {a}])
    BY <1>2 DEF MakeToken
  <2>. DEFINE rec == [iss |-> req[t].iss, access |-> a, aud |-> req[t].aud, exp |-> clock + TTL]
  <2>. DEFINE r == [req[t] EXCEPT !.pc = "put", !.token = k, !.rec = rec, !.todo = @ \ {a}]
  <2>2. rec \in Record
    <3>1. req[t].iss \in Issuer /\ req[t].aud \in SUBSET RS /\ a \in Access
      BY <1>2 DEF MakeToken, At, Request, Shape
    <3>2. clock + TTL \in Time
      BY <1>2, TokensAssumption DEF MakeToken, Time
    <3>. QED BY <3>1, <3>2 DEF Record
  <2>. HIDE DEF rec
  <2>3. r \in Request /\ Shape(r)
    <3>1. r \in Request
      BY <2>2, IssuesOK
    <3>2. req[t].iss \in Issuer
      BY <1>2 DEF MakeToken, At, Shape
    <3>3. r.pc = "put" /\ r.token = k /\ r.rec = rec /\ r.iss = req[t].iss
      BY DEF Request
    <3>. QED BY <2>2, <3>1, <3>2, <3>3 DEF Shape, Putting, Reading, Filling
  <2>4. Become(t, r)
    BY <2>1 DEF rec
  <2>. HIDE DEF r
  <2>5. req' \in [Thread -> Request] /\ \A u \in Thread : Shape(req[u])'
    BY <2>3, <2>4, BecomesOK
  <2>6. made' \in [Token -> Record \cup {None}]
    BY <2>1, <2>2 DEF rec
  <2>. QED BY <1>2, <2>5, <2>6 DEF MakeToken
<1>3. ASSUME NEW t \in Thread, OpenFile(t) PROVE TypeInv'
  <2>. DEFINE r == [req[t] EXCEPT !.pc = "data"]
  <2>0. r \in Request
    BY MovesOK
  <2>1. r \in Request /\ Shape(r)
    BY <1>3, <2>0, IdleOK, StoreAssumption DEF Idle, Request, Shape, Putting, Reading, Filling, At, OpenFile
  <2>2. req' \in [Thread -> Request] /\ \A u \in Thread : Shape(req[u])'
    BY <1>3, <2>1, BecomesOK DEF OpenFile
  <2>. QED BY <1>3, <2>2, FailsOK, TokensAssumption, StoreAssumption DEF OpenFile, Record, Time
<1>4. ASSUME NEW t \in Thread, FillFile(t) PROVE TypeInv'
  <2>. DEFINE r == [req[t] EXCEPT !.pc = "cache"]
  <2>0. r \in Request
    BY MovesOK
  <2>1. r \in Request /\ Shape(r)
    BY <1>4, <2>0, IdleOK, StoreAssumption DEF Idle, Request, Shape, Putting, Reading, Filling, At, FillFile
  <2>2. req' \in [Thread -> Request] /\ \A u \in Thread : Shape(req[u])'
    BY <1>4, <2>1, BecomesOK DEF FillFile
  <2>. QED BY <1>4, <2>2, FailsOK, TokensAssumption, StoreAssumption DEF FillFile, At, Shape, Putting, Record, Time
<1>5. ASSUME NEW t \in Thread, CacheRecord(t) PROVE TypeInv'
  <2>. DEFINE r == [req[t] EXCEPT !.got = @ \cup {req[t].token}]
  <2>. DEFINE s == [r EXCEPT !.pc = "make", !.token = None, !.rec = None]
  <2>1. req[t].token \in Token /\ req[t].rec \in Record /\ req[t].approved \in SUBSET Access
    BY <1>5 DEF CacheRecord, At, Request, Shape, Putting
  <2>2. r \in Request
    BY <2>1 DEF Request
  <2>3. s \in Request
    BY <2>2 DEF Request
  <2>4. CASE r.todo = {} /\ given' = given \cup {[access |-> r.approved, tokens |-> r.got]} /\ Become(t, Idle)
    <3>1. req' \in [Thread -> Request] /\ \A u \in Thread : Shape(req[u])'
      BY <2>4, IdleOK, BecomesOK
    <3>2. r.approved \in SUBSET Access /\ r.got \in SUBSET Token
      BY <2>2 DEF Request
    <3>3. given' \subseteq [access : SUBSET Access, tokens : SUBSET Token]
      <4>. HIDE DEF r
      <4>. QED BY <2>4, <3>2
    <3>. QED BY <1>5, <2>1, <3>1, <3>3 DEF CacheRecord
  <2>5. CASE r.todo # {} /\ UNCHANGED given /\ Become(t, s)
    <3>0. s.pc = "make" /\ s.iss = req[t].iss
      BY DEF Request
    <3>1. req[t].iss \in Issuer
      BY <1>5 DEF CacheRecord, At, Request, Shape, Putting
    <3>2. Shape(s)
      BY <3>0, <3>1 DEF Shape, Putting, Reading, Filling
    <3>3. req' \in [Thread -> Request] /\ \A u \in Thread : Shape(req[u])'
      <4>. HIDE DEF s
      <4>. QED BY <2>3, <2>5, <3>2, BecomesOK
    <3>. QED BY <1>5, <2>1, <2>5, <3>3 DEF CacheRecord
  <2>. QED BY <1>5, <2>4, <2>5 DEF CacheRecord
<1>6. ASSUME NEW t \in Thread, PutFails(t) PROVE TypeInv'
  <2>1. req' \in [Thread -> Request] /\ \A u \in Thread : Shape(req[u])'
    BY <1>6, IdleOK, BecomesOK DEF PutFails, Refuse
  <2>2. file' \in [Token -> Record \cup {None, Torn}]
    BY <1>6 DEF PutFails, At, Shape, Putting
  <2>3. fails' \in 0..MaxFail
    BY <1>6, FailsOK DEF PutFails
  <2>. QED BY <1>6, <2>1, <2>2, <2>3 DEF PutFails, Refuse
<1>7. ASSUME NEW t \in Thread, NEW k \in Token, NEW rs \in RS, NEW asks \in Asked, IntrospectRequest(t, k, rs, asks) PROVE TypeInv'
  <2>. DEFINE r == [Idle EXCEPT !.pc = "get", !.token = k, !.rs = rs, !.asks = asks,
                                !.held = Held(k), !.gone = <<k, rs, asks>> \in gone]
  <2>1. Held(k) \in BOOLEAN /\ (<<k, rs, asks>> \in gone) \in BOOLEAN
    BY DEF Held
  <2>2. r \in Request /\ Shape(r)
    BY <2>1, ArrivalsOK
  <2>3. req' \in [Thread -> Request] /\ \A u \in Thread : Shape(req[u])'
    BY <1>7, <2>2, BecomesOK DEF IntrospectRequest
  <2>. QED BY <1>7, <2>3 DEF IntrospectRequest
<1>8. ASSUME NEW t \in Thread, GetByHash(t) PROVE TypeInv'
  <2>. DEFINE k == req[t].token
  <2>1. k \in Token
    BY <1>8 DEF GetByHash, At, Shape, Reading
  <2>2. FromFile(k) \in Record \cup {None}
    BY <2>1 DEF FromFile, Readable
  <2>3. \A p \in {"judge", "fill"}, x \in Record \cup {None}, e \in BOOLEAN :
          /\ [req[t] EXCEPT !.pc = p, !.rec = x] \in Request
          /\ [req[t] EXCEPT !.pc = "judge", !.err = e] \in Request
    BY MovesOK
  <2>4. /\ \A x \in Record \cup {None} : Shape([req[t] EXCEPT !.pc = "judge", !.rec = x])
        /\ \A x \in Record : Shape([req[t] EXCEPT !.pc = "fill", !.rec = x])
        /\ \A e \in BOOLEAN : Shape([req[t] EXCEPT !.pc = "judge", !.err = e])
    BY <1>8 DEF GetByHash, At, Request, Shape, Putting, Reading, Filling
  <2>5. req' \in [Thread -> Request] /\ \A u \in Thread : Shape(req[u])'
    <3>1. CASE Become(t, [req[t] EXCEPT !.pc = "judge", !.rec = cache[k]])
      BY <2>1, <2>3, <2>4, <3>1, BecomesOK
    <3>2. CASE Become(t, [req[t] EXCEPT !.pc = "judge", !.err = file[k] = Torn])
      BY <2>1, <2>3, <2>4, <3>2, BecomesOK
    <3>3. CASE FromFile(k) # None /\ Become(t, [req[t] EXCEPT !.pc = "fill", !.rec = FromFile(k)])
      BY <2>2, <2>3, <2>4, <3>3, BecomesOK
    <3>. QED BY <1>8, <3>1, <3>2, <3>3 DEF GetByHash
  <2>. QED BY <1>8, <2>5 DEF GetByHash
<1>9. ASSUME NEW t \in Thread, ReadFails(t) PROVE TypeInv'
  <2>. DEFINE r == [req[t] EXCEPT !.pc = "judge", !.err = TRUE]
  <2>0. r \in Request
    BY MovesOK
  <2>1. r \in Request /\ Shape(r)
    BY <1>9, <2>0, IdleOK, StoreAssumption DEF Idle, Request, Shape, Putting, Reading, Filling, At, ReadFails
  <2>2. req' \in [Thread -> Request] /\ \A u \in Thread : Shape(req[u])'
    BY <1>9, <2>1, BecomesOK DEF ReadFails
  <2>. QED BY <1>9, <2>2, FailsOK, TokensAssumption, StoreAssumption DEF ReadFails, Record, Time
<1>10. ASSUME NEW t \in Thread, FillCache(t) PROVE TypeInv'
  <2>. DEFINE r == [req[t] EXCEPT !.pc = "return"]
  <2>0. r \in Request
    BY MovesOK
  <2>1. r \in Request /\ Shape(r)
    BY <1>10, <2>0 DEF Request, Shape, Putting, Reading, Filling, At, FillCache
  <2>2. req' \in [Thread -> Request] /\ \A u \in Thread : Shape(req[u])'
    BY <1>10, <2>1, BecomesOK DEF FillCache
  <2>3. cache' \in [Token -> Record \cup {None}]
    BY <1>10 DEF FillCache, At, Shape, Filling
  <2>. QED BY <1>10, <2>2, <2>3 DEF FillCache
<1>11. ASSUME NEW t \in Thread, ReturnFill(t) PROVE TypeInv'
  <2>. DEFINE r == [req[t] EXCEPT !.pc = "judge"]
  <2>0. r \in Request
    BY MovesOK
  <2>1. r \in Request /\ Shape(r)
    BY <1>11, <2>0, IdleOK, StoreAssumption DEF Idle, Request, Shape, Putting, Reading, Filling, At, ReturnFill
  <2>2. req' \in [Thread -> Request] /\ \A u \in Thread : Shape(req[u])'
    BY <1>11, <2>1, BecomesOK DEF ReturnFill
  <2>. QED BY <1>11, <2>2, FailsOK, TokensAssumption, StoreAssumption DEF ReturnFill, Record, Time
<1>12. ASSUME NEW t \in Thread, Answer(t) PROVE TypeInv'
  <2>1. req' \in [Thread -> Request] /\ \A u \in Thread : Shape(req[u])'
    BY <1>12, IdleOK, BecomesOK DEF Answer
  <2>2. <<req[t].token, req[t].rs, req[t].asks>> \in Query
    BY <1>12 DEF Answer, At, Shape, Reading, Query
  <2>3. gone' \subseteq Query
    BY <1>12, <2>2 DEF Answer
  <2>. QED BY <1>12, <2>1, <2>3 DEF Answer
<1>13. ASSUME NEW t \in Thread, NEW k \in Token, RevokeRequest(t, k) PROVE TypeInv'
  <2>. DEFINE r == [Idle EXCEPT !.pc = "revoke", !.token = k]
  <2>0. r \in Request
    BY <1>13, ArrivalsOK, StoreAssumption
  <2>1. r \in Request /\ Shape(r)
    BY <1>13, <2>0, IdleOK, StoreAssumption DEF Idle, Request, Shape, Putting, Reading, Filling, At
  <2>2. req' \in [Thread -> Request] /\ \A u \in Thread : Shape(req[u])'
    BY <1>13, <2>1, BecomesOK DEF RevokeRequest
  <2>. QED BY <1>13, <2>2, FailsOK, TokensAssumption, StoreAssumption DEF RevokeRequest, Record, Time
<1>14. ASSUME NEW t \in Thread, Revoke(t) PROVE TypeInv'
  <2>. DEFINE r == [req[t] EXCEPT !.pc = "stuck"]
  <2>0. r \in Request
    BY MovesOK
  <2>1. r \in Request /\ Shape(r)
    BY <1>14, <2>0, IdleOK, StoreAssumption DEF Idle, Request, Shape, Putting, Reading, Filling, At, Revoke
  <2>2. req' \in [Thread -> Request] /\ \A u \in Thread : Shape(req[u])'
    BY <1>14, <2>1, BecomesOK DEF Revoke
  <2>. QED BY <1>14, <2>2, FailsOK, TokensAssumption, StoreAssumption DEF Revoke, Record, Time
<1>15. ASSUME CleanupExpired PROVE TypeInv'
  <2>1. cache' \in [Token -> Record \cup {None}]
    BY <1>15 DEF CleanupExpired
  <2>2. file' \in [Token -> Record \cup {None, Torn}]
    BY <1>15 DEF CleanupExpired
  <2>. QED BY <1>15, <2>1, <2>2 DEF CleanupExpired
<1>16. ASSUME Tick PROVE TypeInv'
  BY <1>16, TokensAssumption DEF Tick, Time
<1>17. ASSUME Restart PROVE TypeInv'
  <2>1. PICK skipped \in SUBSET {k \in Token : Readable(k)} :
          /\ skipped # {} => fails < MaxFail
          /\ fails' = IF skipped = {} THEN fails ELSE fails + 1
          /\ cache' = [k \in Token |-> IF Readable(k) /\ k \notin skipped THEN file[k] ELSE None]
    BY <1>17 DEF Restart
  <2>2. cache' \in [Token -> Record \cup {None}]
    BY <2>1 DEF Readable
  <2>3. fails' \in 0..MaxFail
    BY <2>1, FailsOK
  <2>4. crashes' \in 0..MaxCrash
    BY <1>17, StoreAssumption DEF Restart
  <2>5. req' \in [Thread -> Request] /\ \A u \in Thread : Shape(req[u])'
    BY <1>17, IdleOK DEF Restart
  <2>. QED BY <1>17, <2>2, <2>3, <2>4, <2>5 DEF Restart
<1>18. ASSUME UNCHANGED vars PROVE TypeInv'
  BY <1>18 DEF vars, Shape, Putting, Reading, Filling
<1>. QED
  BY <1>1, <1>2, <1>3, <1>4, <1>5, <1>6, <1>7, <1>8, <1>9, <1>10, <1>11, <1>12, <1>13, <1>14, <1>15, <1>16, <1>17, <1>18
     DEF Next, Arrive, Serve

-----------------------------------------------------------------------------
(* The invariant. *)

\* A record never changes once it is made, and what has expired stays so.
LEMMA MadeStays ==
  ASSUME TypeInv, [Next]_vars, NEW k \in Token, made[k] # None
  PROVE  /\ made'[k] = made[k]
         /\ LiveAt(made'[k], clock') => LiveAt(made[k], clock)
<1>1. made'[k] = made[k]
  <2>1. CASE \E t \in Thread : MakeToken(t)
    BY <2>1 DEF MakeToken, TypeInv, StoreTypeOK
  <2>2. CASE made' = made
    BY <2>2
  <2>. QED
    BY <2>1, <2>2
       DEF Next, Arrive, Serve, IssueRequest, OpenFile, FillFile, CacheRecord, PutFails,
           IntrospectRequest, GetByHash, ReadFails, FillCache, ReturnFill, Answer,
           RevokeRequest, Revoke, CleanupExpired, Tick, Restart, vars
<1>2. clock' = clock \/ clock' = clock + 1
  BY DEF Next, Arrive, Serve, IssueRequest, MakeToken, OpenFile, FillFile, CacheRecord, PutFails,
         IntrospectRequest, GetByHash, ReadFails, FillCache, ReturnFill, Answer,
         RevokeRequest, Revoke, CleanupExpired, Tick, Restart, vars
<1>3. clock \in Nat /\ made[k].exp \in Nat
  BY TokensAssumption DEF TypeInv, StoreTypeOK, Record, Time
<1>. QED BY <1>1, <1>2, <1>3 DEF LiveAt

\* What was given to a client remains given.
LEMMA GivenStays ==
  ASSUME [Next]_vars
  PROVE  given \subseteq given'
BY DEF Next, Arrive, Serve, IssueRequest, MakeToken, OpenFile, FillFile, CacheRecord, PutFails, Refuse,
       IntrospectRequest, GetByHash, ReadFails, FillCache, ReturnFill, Answer,
       RevokeRequest, Revoke, CleanupExpired, Tick, Restart, vars, Seen

\* Every step keeps the invariant.
LEMMA InvStep ==
  ASSUME TokenInv, [Next]_vars
  PROVE  TokenInv'
<1>a. AsMade /\ Owned /\ Kept /\ Complete /\ Looked /\ Remembered
  BY DEF TokenInv
<1>b. /\ \A t \in Thread : req[t] \in Request /\ Shape(req[t])
      /\ made \in [Token -> Record \cup {None}] /\ cache \in [Token -> Record \cup {None}]
      /\ file \in [Token -> Record \cup {None, Torn}]
      /\ req \in [Thread -> Request] /\ lock \in Thread \cup {None}
      /\ gone \subseteq Query
      /\ given \subseteq [access : SUBSET Access, tokens : SUBSET Token]
  BY DEF TokenInv, TypeInv, StoreTypeOK
<1>c. \A k \in Token : made[k] # None =>
        made'[k] = made[k] /\ (LiveAt(made'[k], clock') => LiveAt(made[k], clock))
  BY MadeStays DEF TokenInv
<1>d. None \notin Record /\ Torn \notin Record /\ Torn # None /\ None \notin Thread /\ None \notin Token
  BY NoneAssumption, StoreAssumption
<1>e. \A k \in Token : OnDisk(made[k], file[k], clock) /\ file'[k] = file[k] =>
        OnDisk(made'[k], file'[k], clock')
  BY <1>c DEF OnDisk
<1>f. \A k \in Token : Held(k) => OnDisk(made[k], file[k], clock) /\ made[k] # None
  BY <1>a DEF Kept, Known, OnDisk
<1>g. \A k \in Token : \A rs, asks :
        Over(made[k], clock, rs, asks) => Over(made'[k], clock', rs, asks)
  BY <1>c DEF Over, Deserves
<1>h. \A k \in Token : Held(k) => Held(k)'
  BY GivenStays DEF Held
<1>i. TypeInv'
  BY TypeStep DEF TokenInv
<1>j. clock \in Nat /\ \A r \in Record : r.exp \in Nat
  BY TokensAssumption DEF TokenInv, TypeInv, StoreTypeOK, Record, Time
<1>. USE DEF At, Readable, Putting, Filling, Reading, Seen, Bounds
<1>1. ASSUME NEW t \in Thread, NEW as \in Approvals, NEW iss \in Issuer, NEW aud \in Audience, IssueRequest(t, as, iss, aud) PROVE TokenInv'
  <2>1. /\ \A u \in Thread : u # t => req'[u] = req[u]
        /\ req'[t].pc = "make" /\ req'[t].token = None /\ req'[t].rec = None
        /\ req'[t].approved = as /\ req'[t].todo = as /\ req'[t].got = {}
        /\ req'[t].rs = None /\ req'[t].asks = {} /\ req'[t].held = FALSE
        /\ req'[t].gone = FALSE /\ req'[t].err = FALSE
    BY <1>b, <1>1 DEF IssueRequest, Become, Request, Idle
  <2>2. \A j \in Token : Known(j)' => Known(j)
    BY <1>b, <1>1, <2>1 DEF IssueRequest, Known, Held
  <2>3. AsMade'
    BY <1>a, <1>b, <1>d, <1>1, <2>1 DEF IssueRequest, AsMade
  <2>4. Owned'
    BY <1>a, <1>b, <1>d, <2>2, <1>1, <2>1 DEF IssueRequest, Owned
  <2>5. Kept'
    BY <1>a, <1>e, <2>2, <1>1, <2>1 DEF IssueRequest, Kept
  <2>6. Complete'
    <3>1. UNCHANGED <<made, given>>
      BY <1>1 DEF IssueRequest
    <3>2. req'[t].approved \ req'[t].todo = {}
      BY <2>1
    <3>3. ASSUME NEW u \in Thread, NEW b \in req'[u].approved \ req'[u].todo
          PROVE  \/ Putting(req'[u]) /\ req'[u].rec.access = b
                 \/ \E j \in req'[u].got : made'[j].access = b
      <4>1. u # t
        BY <3>2, <3>3
      <4>2. b \in req[u].approved \ req[u].todo /\ req'[u] = req[u]
        BY <2>1, <3>3, <4>1
      <4>. QED BY <1>a, <3>1, <4>2 DEF Complete
    <3>4. \A g \in given' : \A b \in g.access : \E j \in g.tokens : made'[j].access = b
      BY <1>a, <3>1 DEF Complete
    <3>. QED BY <3>3, <3>4 DEF Complete
  <2>7. Looked'
    BY <1>a, <1>b, <1>c, <1>h, <1>1, <2>1 DEF IssueRequest, Looked
  <2>8. Remembered'
    BY <1>a, <1>b, <1>g, <1>1, <2>1 DEF IssueRequest, Remembered
  <2>. QED BY <1>i, <2>3, <2>4, <2>5, <2>6, <2>7, <2>8 DEF TokenInv
<1>2. ASSUME NEW t \in Thread, MakeToken(t) PROVE TokenInv'
  <2>0. PICK k \in Token, a \in req[t].todo :
          LET rec == [iss |-> req[t].iss, access |-> a, aud |-> req[t].aud, exp |-> clock + TTL] IN
            /\ made[k] = None
            /\ made' = [made EXCEPT ![k] = rec]
            /\ Become(t, [req[t] EXCEPT !.pc = "put", !.token = k, !.rec = rec, !.todo = @ \ {a}])
    BY <1>2 DEF MakeToken
  <2>. DEFINE rec == [iss |-> req[t].iss, access |-> a, aud |-> req[t].aud, exp |-> clock + TTL]
  <2>1. /\ \A u \in Thread : u # t => req'[u] = req[u]
        /\ req'[t].pc = "put" /\ req'[t].token = k /\ req'[t].rec = rec
        /\ req'[t].approved = req[t].approved /\ req'[t].todo = req[t].todo \ {a} /\ req'[t].got = req[t].got
        /\ req'[t].rs = req[t].rs /\ req'[t].asks = req[t].asks /\ req'[t].held = req[t].held
        /\ req'[t].gone = req[t].gone /\ req'[t].err = req[t].err
    BY <1>b, <2>0 DEF Become, Request
  <2>1b. /\ req[t].pc = "make" /\ made[k] = None /\ rec.access = a
         /\ made' = [made EXCEPT ![k] = rec]
         /\ UNCHANGED <<clock, file, cache, lock, given, gone, fails, crashes>>
    BY <1>2, <2>0 DEF MakeToken
  <2>. HIDE DEF rec
  <2>1c. rec \in Record
    BY <1>i, <2>1 DEF TypeInv, Shape
  <2>1d. ~Known(k) /\ file[k] = None
    BY <1>a, <2>1b DEF Kept, OnDisk, Owned
  <2>1e. \A u \in Thread : (Putting(req[u]) \/ Reading(req[u])) /\ req[u].rec # None => req[u].token # k
    BY <1>a, <2>1b DEF AsMade
  <2>1f. \A u \in Thread : Putting(req[u]) => req[u].rec \in Record
    BY <1>b DEF Shape
  <2>2. \A j \in Token : Known(j)' => Known(j)
    BY <1>b, <2>1, <2>1b DEF Known, Held
  <2>3. AsMade'
    BY <1>a, <1>b, <1>d, <2>1, <2>1b, <2>1c, <2>1d, <2>1e, Z3 DEF AsMade, Known
  <2>4. Owned'
    <3>1. \A u \in Thread : Putting(req[u]) => req[u].token # k
      BY <1>d, <2>1e, <2>1f
    <3>2. \A j \in Token : made'[j] = None => file'[j] = None
      BY <1>a, <1>b, <1>d, <2>1b, <2>1c DEF Owned
    <3>. QED BY <1>a, <1>b, <2>1, <2>1b, <2>1d, <2>2, <3>1, <3>2 DEF Owned
  <2>5. Kept'
    BY <1>a, <1>e, <2>1b, <2>2 DEF Kept
  <2>6. Complete'
    <3>1. \A u \in Thread : \A j \in req[u].got : j \in Token /\ made'[j] = made[j]
      BY <1>b, <2>1b, <2>1d DEF Known, Request
    <3>2. \A g \in given : \A j \in g.tokens : j \in Token /\ made'[j] = made[j]
      BY <1>b, <2>1b, <2>1d DEF Known, Held
    <3>3. ASSUME NEW u \in Thread, NEW b \in req'[u].approved \ req'[u].todo
          PROVE  \/ Putting(req'[u]) /\ req'[u].rec.access = b
                 \/ \E j \in req'[u].got : made'[j].access = b
      <4>1. CASE u = t
        BY <1>a, <2>1, <2>1b, <3>1, <3>3, <4>1 DEF Complete
      <4>2. CASE u # t
        BY <1>a, <2>1, <3>1, <3>3, <4>2 DEF Complete
      <4>. QED BY <4>1, <4>2
    <3>4. \A g \in given' : \A b \in g.access : \E j \in g.tokens : made'[j].access = b
      BY <1>a, <2>1b, <3>2 DEF Complete
    <3>. QED BY <3>3, <3>4 DEF Complete
  <2>7. Looked'
    BY <1>a, <1>b, <1>c, <1>f, <1>h, <2>1, <2>1b DEF Looked
  <2>8. Remembered'
    BY <1>a, <1>b, <1>g, <2>1, <2>1b DEF Remembered
  <2>. QED BY <1>i, <2>3, <2>4, <2>5, <2>6, <2>7, <2>8 DEF TokenInv
<1>3. ASSUME NEW t \in Thread, OpenFile(t) PROVE TokenInv'
  <2>1. /\ \A u \in Thread : u # t => req'[u] = req[u]
        /\ req'[t].pc = "data" /\ req'[t].token = req[t].token /\ req'[t].rec = req[t].rec
        /\ req'[t].approved = req[t].approved /\ req'[t].todo = req[t].todo /\ req'[t].got = req[t].got
        /\ req'[t].rs = req[t].rs /\ req'[t].asks = req[t].asks /\ req'[t].held = req[t].held
        /\ req'[t].gone = req[t].gone /\ req'[t].err = req[t].err
    BY <1>b, <1>3 DEF OpenFile, Become, Request
  <2>1b. \A u \in Thread : req[u].pc \notin {"data", "cache"}
    BY <1>a, <1>d, <1>3 DEF OpenFile, Owned
  <2>. DEFINE k == req[t].token
  <2>1c. k \in Token /\ ~Known(k) /\ req[t].rec \in Record /\ made[k] = req[t].rec
    BY <1>a, <1>b, <1>d, <1>3 DEF OpenFile, Owned, AsMade, Shape
  <2>. HIDE DEF k
  <2>2. \A j \in Token : Known(j)' => Known(j)
    BY <1>b, <1>3, <2>1 DEF OpenFile, Known, Held
  <2>3. AsMade'
    BY <1>a, <1>b, <1>d, <1>3, <2>1 DEF OpenFile, AsMade
  <2>4. Owned'
    <3>1. /\ \A u \in Thread : Putting(req[u]) /\ u # t => req[u].token # k
          /\ \A u \in Thread : Putting(req[u]) => req[u].token \in Token
      BY <1>a, <1>b, <2>1c, <1>3 DEF OpenFile, Owned, Shape, k
    <3>2. file' = [file EXCEPT ![k] = Torn] /\ lock' = t /\ made' = made
      BY <1>3 DEF OpenFile, k
    <3>. QED BY <1>a, <1>b, <1>d, <2>1, <2>1b, <2>1c, <2>2, <3>1, <3>2, <1>3 DEF OpenFile, Owned, k
  <2>5. Kept'
    BY <1>a, <1>b, <1>e, <2>1c, <2>2, <1>3 DEF OpenFile, Kept, k
  <2>6. Complete'
    BY <1>a, <1>b, <1>3, <2>1 DEF OpenFile, Complete
  <2>7. Looked'
    BY <1>a, <1>b, <1>c, <1>h, <1>3, <2>1 DEF OpenFile, Looked
  <2>8. Remembered'
    BY <1>a, <1>b, <1>g, <1>3, <2>1 DEF OpenFile, Remembered
  <2>. QED BY <1>i, <2>3, <2>4, <2>5, <2>6, <2>7, <2>8 DEF TokenInv
<1>4. ASSUME NEW t \in Thread, FillFile(t) PROVE TokenInv'
  <2>1. /\ \A u \in Thread : u # t => req'[u] = req[u]
        /\ req'[t].pc = "cache" /\ req'[t].token = req[t].token /\ req'[t].rec = req[t].rec
        /\ req'[t].approved = req[t].approved /\ req'[t].todo = req[t].todo /\ req'[t].got = req[t].got
        /\ req'[t].rs = req[t].rs /\ req'[t].asks = req[t].asks /\ req'[t].held = req[t].held
        /\ req'[t].gone = req[t].gone /\ req'[t].err = req[t].err
    BY <1>b, <1>4 DEF FillFile, Become, Request
  <2>. DEFINE k == req[t].token
  <2>1c. k \in Token /\ ~Known(k) /\ req[t].rec \in Record /\ made[k] = req[t].rec
    BY <1>a, <1>b, <1>d, <1>4 DEF FillFile, Owned, AsMade, Shape
  <2>. HIDE DEF k
  <2>2. \A j \in Token : Known(j)' => Known(j)
    BY <1>b, <1>4, <2>1 DEF FillFile, Known, Held
  <2>3. AsMade'
    BY <1>a, <1>b, <1>d, <1>4, <2>1 DEF FillFile, AsMade
  <2>4. Owned'
    <3>1. /\ \A u \in Thread : Putting(req[u]) /\ u # t => req[u].token # k
          /\ \A u \in Thread : Putting(req[u]) => req[u].token \in Token
      BY <1>a, <1>b, <2>1c, <1>4 DEF FillFile, Owned, Shape, k
    <3>2. file' = [file EXCEPT ![k] = req[t].rec] /\ lock' = lock /\ lock = t /\ made' = made
      BY <1>a, <1>4 DEF FillFile, Owned, k
    <3>. QED BY <1>a, <1>b, <1>d, <2>1, <2>1c, <2>2, <3>1, <3>2, <1>4 DEF FillFile, Owned, k
  <2>5. Kept'
    BY <1>a, <1>b, <1>e, <2>1c, <2>2, <1>4 DEF FillFile, Kept, k
  <2>6. Complete'
    BY <1>a, <1>b, <1>4, <2>1 DEF FillFile, Complete
  <2>7. Looked'
    BY <1>a, <1>b, <1>c, <1>h, <1>4, <2>1 DEF FillFile, Looked
  <2>8. Remembered'
    BY <1>a, <1>b, <1>g, <1>4, <2>1 DEF FillFile, Remembered
  <2>. QED BY <1>i, <2>3, <2>4, <2>5, <2>6, <2>7, <2>8 DEF TokenInv
<1>5. ASSUME NEW t \in Thread, CacheRecord(t) PROVE TokenInv'
  <2>0. /\ req[t].pc = "cache" /\ lock' = None
        /\ cache' = [cache EXCEPT ![req[t].token] = req[t].rec]
        /\ UNCHANGED <<made, clock, file, gone, fails, crashes>>
    BY <1>5 DEF CacheRecord
  <2>1a. \A u \in Thread : u # t => req'[u] = req[u]
    BY <1>b, <1>5 DEF CacheRecord, Become
  <2>. DEFINE k == req[t].token
  <2>1c. k \in Token /\ ~Known(k) /\ req[t].rec \in Record /\ made[k] = req[t].rec
    BY <1>a, <1>b, <1>d, <1>5 DEF CacheRecord, Owned, AsMade, Shape
  <2>. HIDE DEF k
  <2>1. \/ /\ req[t].todo = {}
           /\ given' = given \cup {[access |-> req[t].approved, tokens |-> req[t].got \cup {k}]}
           /\ req'[t] = Idle
        \/ /\ given' = given /\ req'[t].pc = "make" /\ req'[t].got = req[t].got \cup {k}
           /\ req'[t].approved = req[t].approved /\ req'[t].todo = req[t].todo
    <3>. DEFINE r == [req[t] EXCEPT !.got = @ \cup {req[t].token}]
    <3>1. \/ /\ r.todo = {} /\ Become(t, Idle)
             /\ given' = given \cup {[access |-> r.approved, tokens |-> r.got]}
          \/ given' = given /\ Become(t, [r EXCEPT !.pc = "make", !.token = None, !.rec = None])
      BY <1>5 DEF CacheRecord
    <3>2. /\ r \in Request /\ r.got = req[t].got \cup {k}
          /\ r.todo = req[t].todo /\ r.approved = req[t].approved
      <4>1. r \in Request
        BY <1>b, <2>1c, IssuesOK DEF k
      <4>2. req[t] \in Request
        BY <1>b
      <4>. QED BY <4>1, <4>2 DEF Request, k
    <3>. HIDE DEF r
    <3>3. CASE /\ r.todo = {} /\ Become(t, Idle)
               /\ given' = given \cup {[access |-> r.approved, tokens |-> r.got]}
      BY <1>b, <3>2, <3>3 DEF Become
    <3>4. CASE given' = given /\ Become(t, [r EXCEPT !.pc = "make", !.token = None, !.rec = None])
      <4>. DEFINE s == [r EXCEPT !.pc = "make", !.token = None, !.rec = None]
      <4>1. s.pc = "make" /\ s.got = r.got /\ s.approved = r.approved /\ s.todo = r.todo
        BY <3>2 DEF Request
      <4>2. req'[t] = s
        BY <1>b, <3>4 DEF Become
      <4>. HIDE DEF s
      <4>. QED BY <3>2, <3>4, <4>1, <4>2
    <3>. QED BY <3>1, <3>3, <3>4
  <2>1b. Idle.pc = "idle" /\ Idle.got = {} /\ Idle.approved = {}
    BY DEF Idle
  <2>1d. lock = t /\ file[k] = made[k]
    BY <1>a, <2>0, <2>1c DEF Owned, k
  <2>2. \A j \in Token : Known(j)' => Known(j) \/ j = k
    BY <1>b, <2>0, <2>1, <2>1a, <2>1b DEF Known, Held, k
  <2>3. AsMade'
    BY <1>a, <1>b, <1>d, <2>0, <2>1, <2>1a, <2>1b, <2>1c, <2>1d DEF AsMade, k
  <2>4. Owned'
    <3>1. \A u \in Thread : u # t => req[u].pc \notin {"data", "cache"}
      BY <1>a, <2>1d DEF Owned
    <3>2. ~Putting(req'[t])
      BY <2>1, <2>1b
    <3>3. \A u \in Thread : Putting(req[u]) /\ u # t => req[u].token # k
      BY <1>a, <2>0, <2>1c DEF Owned, k
    <3>. QED BY <1>a, <2>0, <2>1a, <2>1c, <2>2, <3>1, <3>2, <3>3 DEF Owned
  <2>5. Kept'
    <3>1. OnDisk(made'[k], file'[k], clock')
      BY <1>d, <2>0, <2>1c, <2>1d DEF OnDisk
    <3>. QED BY <1>a, <1>e, <2>0, <2>2, <3>1 DEF Kept
  <2>6. Complete'
    <3>1. \A b \in req[t].approved \ req[t].todo : \E j \in req[t].got \cup {k} : made[j].access = b
      BY <1>a, <2>0, <2>1c DEF Complete
    <3>2. \A u \in Thread : u # t => \A b \in req'[u].approved \ req'[u].todo :
            \/ Putting(req'[u]) /\ req'[u].rec.access = b
            \/ \E j \in req'[u].got : made'[j].access = b
      BY <1>a, <2>0, <2>1a DEF Complete
    <3>3. \A b \in req'[t].approved \ req'[t].todo : \E j \in req'[t].got : made'[j].access = b
      BY <2>0, <2>1, <2>1b, <3>1
    <3>4. \A g \in given' : \A b \in g.access : \E j \in g.tokens : made'[j].access = b
      BY <1>a, <2>0, <2>1, <3>1 DEF Complete
    <3>. QED BY <3>2, <3>3, <3>4 DEF Complete
  <2>7. Looked'
    BY <1>a, <1>c, <1>h, <2>0, <2>1, <2>1a, <2>1b DEF Looked
  <2>8. Remembered'
    BY <1>a, <1>g, <2>0, <2>1, <2>1a, <2>1b DEF Remembered
  <2>. QED BY <1>i, <2>3, <2>4, <2>5, <2>6, <2>7, <2>8 DEF TokenInv
<1>6. ASSUME NEW t \in Thread, PutFails(t) PROVE TokenInv'
  <2>1. /\ \A u \in Thread : u # t => req'[u] = req[u]
        /\ req'[t].pc = "idle" /\ req'[t].token = None /\ req'[t].rec = None
        /\ req'[t].approved = {} /\ req'[t].todo = {} /\ req'[t].got = {}
        /\ req'[t].rs = None /\ req'[t].asks = {} /\ req'[t].held = FALSE
        /\ req'[t].gone = FALSE /\ req'[t].err = FALSE
    BY <1>b, <1>6 DEF PutFails, Refuse, Become, Idle
  <2>. DEFINE k == req[t].token
  <2>1c. k \in Token /\ ~Known(k) /\ req[t].rec \in Record /\ made[k] = req[t].rec
    BY <1>a, <1>b, <1>d, <1>6 DEF PutFails, Owned, AsMade, Shape
  <2>. HIDE DEF k
  <2>1b. /\ file' = file \/ file' = [file EXCEPT ![k] = made[k]]
         /\ lock' = None
         /\ UNCHANGED <<made, clock, cache, given, gone, crashes>>
    BY <1>6, <2>1c DEF PutFails, Refuse, k
  <2>1d. \A u \in Thread : u # t => req[u].pc \notin {"data", "cache"}
    BY <1>a, <1>d, <1>6 DEF PutFails, Owned
  <2>2. \A j \in Token : Known(j)' => Known(j)
    BY <1>b, <2>1, <2>1b DEF Known, Held
  <2>3. AsMade'
    BY <1>a, <1>b, <1>d, <2>1, <2>1b, <2>1c DEF AsMade
  <2>4. Owned'
    <3>1. \A u \in Thread : Putting(req[u]) /\ u # t => req[u].token # k /\ req[u].token \in Token
      BY <1>a, <1>b, <2>1c, <1>6 DEF PutFails, Owned, Shape, k
    <3>. QED BY <1>a, <1>b, <1>d, <2>1, <2>1b, <2>1c, <2>1d, <2>2, <3>1 DEF Owned
  <2>5. Kept'
    BY <1>a, <1>b, <1>e, <2>1b, <2>1c, <2>2 DEF Kept
  <2>6. Complete'
    BY <1>a, <2>1, <2>1b DEF Complete
  <2>7. Looked'
    BY <1>a, <1>c, <1>h, <2>1, <2>1b DEF Looked
  <2>8. Remembered'
    BY <1>a, <1>g, <2>1, <2>1b DEF Remembered
  <2>. QED BY <1>i, <2>3, <2>4, <2>5, <2>6, <2>7, <2>8 DEF TokenInv
<1>7. ASSUME NEW t \in Thread, NEW k \in Token, NEW rs \in RS, NEW asks \in Asked, IntrospectRequest(t, k, rs, asks) PROVE TokenInv'
  <2>1. /\ \A u \in Thread : u # t => req'[u] = req[u]
        /\ req'[t].pc = "get" /\ req'[t].token = k /\ req'[t].rec = None
        /\ req'[t].approved = {} /\ req'[t].todo = {} /\ req'[t].got = {}
        /\ req'[t].rs = rs /\ req'[t].asks = asks /\ req'[t].held = Held(k)
        /\ req'[t].gone = (<<k, rs, asks>> \in gone) /\ req'[t].err = FALSE
    BY <1>b, <1>7 DEF IntrospectRequest, Become, Request, Idle
  <2>2. \A j \in Token : Known(j)' => Known(j)
    BY <1>b, <1>7, <2>1 DEF IntrospectRequest, Known, Held
  <2>3. AsMade'
    BY <1>a, <1>b, <1>d, <1>7, <2>1 DEF IntrospectRequest, AsMade
  <2>4. Owned'
    BY <1>a, <1>b, <1>d, <2>2, <1>7, <2>1 DEF IntrospectRequest, Owned
  <2>5. Kept'
    BY <1>a, <1>e, <2>2, <1>7, <2>1 DEF IntrospectRequest, Kept
  <2>6. Complete'
    BY <1>a, <1>b, <1>7, <2>1 DEF IntrospectRequest, Complete
  <2>7. Looked'
    BY <1>a, <1>b, <1>c, <1>h, <1>7, <2>1 DEF IntrospectRequest, Looked
  <2>8. Remembered'
    BY <1>a, <1>b, <1>g, <1>7, <2>1 DEF IntrospectRequest, Remembered
  <2>. QED BY <1>i, <2>3, <2>4, <2>5, <2>6, <2>7, <2>8 DEF TokenInv
<1>8. ASSUME NEW t \in Thread, GetByHash(t) PROVE TokenInv'
  <2>. DEFINE k == req[t].token
  <2>0. \/ cache[k] # None /\ Become(t, [req[t] EXCEPT !.pc = "judge", !.rec = cache[k]])
        \/ /\ cache[k] = None /\ ~Readable(k)
           /\ Become(t, [req[t] EXCEPT !.pc = "judge", !.err = (file[k] = Torn)])
        \/ Readable(k) /\ Become(t, [req[t] EXCEPT !.pc = "fill", !.rec = file[k]])
    BY <1>d, <1>8 DEF GetByHash, FromFile
  <2>1a. /\ \A u \in Thread : u # t => req'[u] = req[u]
         /\ req'[t].token = k /\ req'[t].rs = req[t].rs /\ req'[t].asks = req[t].asks
         /\ req'[t].held = req[t].held /\ req'[t].gone = req[t].gone /\ req'[t].got = req[t].got
         /\ req'[t].approved = req[t].approved /\ req'[t].todo = req[t].todo
    <3>1. req[t] \in Request
      BY <1>b
    <3>2. CASE Become(t, [req[t] EXCEPT !.pc = "judge", !.rec = cache[k]])
      BY <1>b, <3>1, <3>2 DEF Become, Request
    <3>3. CASE Become(t, [req[t] EXCEPT !.pc = "judge", !.err = (file[k] = Torn)])
      BY <1>b, <3>1, <3>3 DEF Become, Request
    <3>4. CASE Become(t, [req[t] EXCEPT !.pc = "fill", !.rec = file[k]])
      BY <1>b, <3>1, <3>4 DEF Become, Request
    <3>. QED BY <2>0, <3>2, <3>3, <3>4
  <2>1b. /\ req[t].pc = "get" /\ k \in Token
         /\ UNCHANGED <<made, clock, file, cache, lock, given, gone, fails, crashes>>
    BY <1>b, <1>8 DEF GetByHash, Shape
  <2>1c. \/ req'[t].pc = "judge" /\ cache[k] # None /\ req'[t].rec = cache[k]
         \/ /\ req'[t].pc = "judge" /\ cache[k] = None /\ ~Readable(k)
            /\ req'[t].rec = req[t].rec /\ req'[t].err = (file[k] = Torn)
         \/ req'[t].pc = "fill" /\ Readable(k) /\ req'[t].rec = file[k]
    <3>1. req[t] \in Request
      BY <1>b
    <3>2. CASE cache[k] # None /\ Become(t, [req[t] EXCEPT !.pc = "judge", !.rec = cache[k]])
      BY <1>b, <3>1, <3>2 DEF Become, Request
    <3>3. CASE /\ cache[k] = None /\ ~Readable(k)
               /\ Become(t, [req[t] EXCEPT !.pc = "judge", !.err = (file[k] = Torn)])
      BY <1>b, <3>1, <3>3 DEF Become, Request
    <3>4. CASE Readable(k) /\ Become(t, [req[t] EXCEPT !.pc = "fill", !.rec = file[k]])
      BY <1>b, <3>1, <3>4 DEF Become, Request
    <3>. QED BY <2>0, <3>2, <3>3, <3>4
  <2>. HIDE DEF k
  <2>1d. \A u \in Thread : req[u].pc \notin {"data", "cache"}
    BY <1>a, <1>d, <1>8 DEF GetByHash, Owned
  <2>2. \A j \in Token : Known(j)' => Known(j) \/ (j = k /\ Readable(k))
    BY <1>b, <2>1a, <2>1b, <2>1c DEF Known, Held
  <2>3. AsMade'
    BY <1>a, <1>b, <1>d, <2>1a, <2>1b, <2>1c DEF AsMade, k
  <2>4. Owned'
    <3>1. \A u \in Thread : Putting(req[u]) /\ req[u].token = k => ~Readable(k)
      BY <1>a, <1>d, <2>1d DEF Owned
    <3>. QED BY <1>a, <1>d, <2>1a, <2>1b, <2>1c, <2>1d, <2>2, <3>1 DEF Owned, k
  <2>5. Kept'
    <3>1. Readable(k) => OnDisk(made[k], file[k], clock)
      BY <1>a, <1>d, <2>1b DEF AsMade, OnDisk
    <3>. QED BY <1>a, <1>e, <2>1b, <2>1c, <2>2, <3>1 DEF Kept
  <2>6. Complete'
    BY <1>a, <2>1a, <2>1b, <2>1c DEF Complete
  <2>7. Looked'
    <3>1. /\ \A j \in Token, u \in Thread :
               Reading(req'[u]) /\ req'[u].token = j /\ req'[u].held => Held(j)
          /\ \A j \in Token : Held(j) => Held(j)'
      BY <1>a, <1>h, <2>1a, <2>1b, <2>1c DEF Looked, k
    <3>2. ASSUME req'[t].pc = "judge", req'[t].held, ~req'[t].err, req'[t].rec = None
          PROVE  ~LiveAt(made[k], clock)
      <4>1. Held(k)
        BY <2>1a, <2>1b, <3>1, <3>2
      <4>2. ~Readable(k) /\ file[k] # Torn
        BY <2>1b, <2>1c, <3>2
      <4>. QED BY <1>b, <1>d, <1>f, <2>1b, <4>1, <4>2 DEF OnDisk
    <3>. QED BY <1>a, <2>1a, <2>1b, <3>1, <3>2 DEF Looked
  <2>8. Remembered'
    BY <1>a, <1>g, <2>1a, <2>1b, <2>1c DEF Remembered, k
  <2>. QED BY <1>i, <2>3, <2>4, <2>5, <2>6, <2>7, <2>8 DEF TokenInv
<1>9. ASSUME NEW t \in Thread, ReadFails(t) PROVE TokenInv'
  <2>1. /\ \A u \in Thread : u # t => req'[u] = req[u]
        /\ req'[t].pc = "judge" /\ req'[t].token = req[t].token /\ req'[t].rec = req[t].rec
        /\ req'[t].approved = req[t].approved /\ req'[t].todo = req[t].todo /\ req'[t].got = req[t].got
        /\ req'[t].rs = req[t].rs /\ req'[t].asks = req[t].asks /\ req'[t].held = req[t].held
        /\ req'[t].gone = req[t].gone /\ req'[t].err = TRUE
    BY <1>b, <1>9 DEF ReadFails, Become, Request
  <2>2. \A j \in Token : Known(j)' => Known(j)
    BY <1>b, <1>9, <2>1 DEF ReadFails, Known, Held
  <2>3. AsMade'
    BY <1>a, <1>b, <1>d, <1>9, <2>1 DEF ReadFails, AsMade
  <2>4. Owned'
    BY <1>a, <1>b, <1>d, <2>2, <1>9, <2>1 DEF ReadFails, Owned
  <2>5. Kept'
    BY <1>a, <1>e, <2>2, <1>9, <2>1 DEF ReadFails, Kept
  <2>6. Complete'
    BY <1>a, <1>b, <1>9, <2>1 DEF ReadFails, Complete
  <2>7. Looked'
    BY <1>a, <1>b, <1>c, <1>h, <1>9, <2>1 DEF ReadFails, Looked
  <2>8. Remembered'
    BY <1>a, <1>b, <1>g, <1>9, <2>1 DEF ReadFails, Remembered
  <2>. QED BY <1>i, <2>3, <2>4, <2>5, <2>6, <2>7, <2>8 DEF TokenInv
<1>10. ASSUME NEW t \in Thread, FillCache(t) PROVE TokenInv'
  <2>1. /\ \A u \in Thread : u # t => req'[u] = req[u]
        /\ req'[t].pc = "return" /\ req'[t].token = req[t].token /\ req'[t].rec = req[t].rec
        /\ req'[t].approved = req[t].approved /\ req'[t].todo = req[t].todo /\ req'[t].got = req[t].got
        /\ req'[t].rs = req[t].rs /\ req'[t].asks = req[t].asks /\ req'[t].held = req[t].held
        /\ req'[t].gone = req[t].gone /\ req'[t].err = req[t].err
    BY <1>b, <1>10 DEF FillCache, Become, Request
  <2>2. \A j \in Token : Known(j)' => Known(j)
    BY <1>b, <1>10, <2>1 DEF FillCache, Known, Held
  <2>3. AsMade'
    BY <1>a, <1>b, <1>d, <1>10, <2>1 DEF FillCache, AsMade
  <2>4. Owned'
    <3>1. \A u \in Thread : req[u].pc \notin {"data", "cache"}
      BY <1>a, <1>d, <1>10 DEF FillCache, Owned
    <3>. QED BY <1>a, <1>b, <1>d, <2>1, <2>2, <3>1, <1>10 DEF FillCache, Owned
  <2>5. Kept'
    BY <1>a, <1>e, <2>2, <1>10, <2>1 DEF FillCache, Kept
  <2>6. Complete'
    BY <1>a, <1>b, <1>10, <2>1 DEF FillCache, Complete
  <2>7. Looked'
    BY <1>a, <1>b, <1>c, <1>h, <1>10, <2>1 DEF FillCache, Looked
  <2>8. Remembered'
    BY <1>a, <1>b, <1>g, <1>10, <2>1 DEF FillCache, Remembered
  <2>. QED BY <1>i, <2>3, <2>4, <2>5, <2>6, <2>7, <2>8 DEF TokenInv
<1>11. ASSUME NEW t \in Thread, ReturnFill(t) PROVE TokenInv'
  <2>1. /\ \A u \in Thread : u # t => req'[u] = req[u]
        /\ req'[t].pc = "judge" /\ req'[t].token = req[t].token /\ req'[t].rec = req[t].rec
        /\ req'[t].approved = req[t].approved /\ req'[t].todo = req[t].todo /\ req'[t].got = req[t].got
        /\ req'[t].rs = req[t].rs /\ req'[t].asks = req[t].asks /\ req'[t].held = req[t].held
        /\ req'[t].gone = req[t].gone /\ req'[t].err = req[t].err
    BY <1>b, <1>11 DEF ReturnFill, Become, Request
  <2>2. \A j \in Token : Known(j)' => Known(j)
    BY <1>b, <1>11, <2>1 DEF ReturnFill, Known, Held
  <2>3. AsMade'
    BY <1>a, <1>b, <1>d, <1>11, <2>1 DEF ReturnFill, AsMade
  <2>4. Owned'
    BY <1>a, <1>b, <1>d, <2>2, <1>11, <2>1 DEF ReturnFill, Owned
  <2>5. Kept'
    BY <1>a, <1>e, <2>2, <1>11, <2>1 DEF ReturnFill, Kept
  <2>6. Complete'
    BY <1>a, <1>b, <1>11, <2>1 DEF ReturnFill, Complete
  <2>7. Looked'
    <3>1. req[t].rec \in Record
      BY <1>b, <1>11 DEF ReturnFill, Shape
    <3>. QED BY <1>a, <1>b, <1>c, <1>d, <1>h, <1>11, <2>1, <3>1 DEF ReturnFill, Looked
  <2>8. Remembered'
    BY <1>a, <1>b, <1>g, <1>11, <2>1 DEF ReturnFill, Remembered
  <2>. QED BY <1>i, <2>3, <2>4, <2>5, <2>6, <2>7, <2>8 DEF TokenInv
<1>12. ASSUME NEW t \in Thread, Answer(t) PROVE TokenInv'
  <2>1. /\ \A u \in Thread : u # t => req'[u] = req[u]
        /\ req'[t].pc = "idle" /\ req'[t].token = None /\ req'[t].rec = None
        /\ req'[t].approved = {} /\ req'[t].todo = {} /\ req'[t].got = {}
        /\ req'[t].rs = None /\ req'[t].asks = {} /\ req'[t].held = FALSE
        /\ req'[t].gone = FALSE /\ req'[t].err = FALSE
    BY <1>b, <1>12 DEF Answer, Become, Idle
  <2>2. \A j \in Token : Known(j)' => Known(j)
    BY <1>b, <1>12, <2>1 DEF Answer, Known, Held
  <2>3. AsMade'
    BY <1>a, <1>b, <1>d, <1>12, <2>1 DEF Answer, AsMade
  <2>4. Owned'
    BY <1>a, <1>b, <1>d, <2>2, <1>12, <2>1 DEF Answer, Owned
  <2>5. Kept'
    BY <1>a, <1>e, <2>2, <1>12, <2>1 DEF Answer, Kept
  <2>6. Complete'
    BY <1>a, <1>b, <1>12, <2>1 DEF Answer, Complete
  <2>7. Looked'
    BY <1>a, <1>b, <1>c, <1>h, <1>12, <2>1 DEF Answer, Looked
  <2>8. Remembered'
    <3>. DEFINE k == req[t].token
    <3>1. k \in Token /\ req[t].pc = "judge" /\ clock \in Nat
      BY <1>b, <1>j, <1>12 DEF Answer, Shape
    <3>2. ASSUME ~Active(t), ~req[t].err, req[t].held
          PROVE  Over(made[k], clock, req[t].rs, req[t].asks)
      <4>1. made[k] # None
        BY <1>a, <1>f, <3>1, <3>2 DEF Looked, OnDisk
      <4>2. CASE req[t].rec = None
        BY <1>a, <3>1, <3>2, <4>1, <4>2 DEF Looked, Over, Deserves
      <4>3. CASE req[t].rec # None
        <5>1. req[t].rec = made[k]
          BY <1>a, <3>1, <4>3 DEF AsMade
        <5>. QED BY <1>b, <1>j, <3>1, <3>2, <4>1, <4>3, <5>1 DEF Active, Over, Deserves, LiveAt
      <4>. QED BY <4>2, <4>3
    <3>3. \A q \in gone' : q \in gone \/ (Over(made[k], clock, req[t].rs, req[t].asks)
                                           /\ q = <<k, req[t].rs, req[t].asks>>)
      BY <3>2, <1>12 DEF Answer
    <3>. QED BY <1>a, <1>g, <2>1, <3>3, <1>12 DEF Answer, Remembered
  <2>. QED BY <1>i, <2>3, <2>4, <2>5, <2>6, <2>7, <2>8 DEF TokenInv
<1>13. ASSUME NEW t \in Thread, NEW k \in Token, RevokeRequest(t, k) PROVE TokenInv'
  <2>1. /\ \A u \in Thread : u # t => req'[u] = req[u]
        /\ req'[t].pc = "revoke" /\ req'[t].token = k /\ req'[t].rec = None
        /\ req'[t].approved = {} /\ req'[t].todo = {} /\ req'[t].got = {}
        /\ req'[t].rs = None /\ req'[t].asks = {} /\ req'[t].held = FALSE
        /\ req'[t].gone = FALSE /\ req'[t].err = FALSE
    BY <1>b, <1>13 DEF RevokeRequest, Become, Request, Idle
  <2>2. \A j \in Token : Known(j)' => Known(j)
    BY <1>b, <1>13, <2>1 DEF RevokeRequest, Known, Held
  <2>3. AsMade'
    BY <1>a, <1>b, <1>d, <1>13, <2>1 DEF RevokeRequest, AsMade
  <2>4. Owned'
    BY <1>a, <1>b, <1>d, <2>2, <1>13, <2>1 DEF RevokeRequest, Owned
  <2>5. Kept'
    BY <1>a, <1>e, <2>2, <1>13, <2>1 DEF RevokeRequest, Kept
  <2>6. Complete'
    BY <1>a, <1>b, <1>13, <2>1 DEF RevokeRequest, Complete
  <2>7. Looked'
    BY <1>a, <1>b, <1>c, <1>h, <1>13, <2>1 DEF RevokeRequest, Looked
  <2>8. Remembered'
    BY <1>a, <1>b, <1>g, <1>13, <2>1 DEF RevokeRequest, Remembered
  <2>. QED BY <1>i, <2>3, <2>4, <2>5, <2>6, <2>7, <2>8 DEF TokenInv
<1>14. ASSUME NEW t \in Thread, Revoke(t) PROVE TokenInv'
  <2>1. /\ \A u \in Thread : u # t => req'[u] = req[u]
        /\ req'[t].pc = "stuck" /\ req'[t].token = req[t].token /\ req'[t].rec = req[t].rec
        /\ req'[t].approved = req[t].approved /\ req'[t].todo = req[t].todo /\ req'[t].got = req[t].got
        /\ req'[t].rs = req[t].rs /\ req'[t].asks = req[t].asks /\ req'[t].held = req[t].held
        /\ req'[t].gone = req[t].gone /\ req'[t].err = req[t].err
    BY <1>b, <1>14 DEF Revoke, Become, Request
  <2>2. \A j \in Token : Known(j)' => Known(j)
    BY <1>b, <1>14, <2>1 DEF Revoke, Known, Held
  <2>3. AsMade'
    BY <1>a, <1>b, <1>d, <1>14, <2>1 DEF Revoke, AsMade
  <2>4. Owned'
    <3>1. \A u \in Thread : req[u].pc \notin {"data", "cache"}
      BY <1>a, <1>d, <1>14 DEF Revoke, Owned
    <3>. QED BY <1>a, <1>b, <1>d, <2>1, <2>2, <3>1, <1>14 DEF Revoke, Owned
  <2>5. Kept'
    BY <1>a, <1>e, <2>2, <1>14, <2>1 DEF Revoke, Kept
  <2>6. Complete'
    BY <1>a, <1>b, <1>14, <2>1 DEF Revoke, Complete
  <2>7. Looked'
    BY <1>a, <1>b, <1>c, <1>h, <1>14, <2>1 DEF Revoke, Looked
  <2>8. Remembered'
    BY <1>a, <1>b, <1>g, <1>14, <2>1 DEF Revoke, Remembered
  <2>. QED BY <1>i, <2>3, <2>4, <2>5, <2>6, <2>7, <2>8 DEF TokenInv
<1>15. ASSUME CleanupExpired PROVE TokenInv'
  <2>1. /\ UNCHANGED <<made, clock, lock, req, given, gone>>
        /\ \A j \in Token : file'[j] = file[j] \/ (file'[j] = None /\ cache[j] # None)
        /\ \A j \in Token : cache'[j] = cache[j] \/ cache'[j] = None
    BY <1>15 DEF CleanupExpired, Expired
  <2>2. \A j \in Token : Known(j)' => Known(j)
    BY <2>1 DEF Known, Held
  <2>3. AsMade'
    BY <1>a, <1>b, <1>d, <2>1 DEF AsMade
  <2>4. Owned'
    <3>1. \A u \in Thread : req[u].pc \notin {"data", "cache"}
      BY <1>a, <1>d, <1>15 DEF CleanupExpired, Owned
    <3>2. \A u \in Thread : Putting(req[u]) => req[u].token \in Token
      BY <1>b DEF Shape
    <3>. QED BY <1>a, <2>1, <2>2, <3>1, <3>2 DEF Owned
  <2>5. Kept'
    <3>1. ASSUME NEW j \in Token, file'[j] # file[j] PROVE made[j] # None /\ ~LiveAt(made[j], clock)
      <4>1. cache[j] # None /\ cache[j].exp <= clock
        BY <3>1, <1>15, <1>b DEF CleanupExpired, Expired
      <4>2. cache[j] = made[j]
        BY <1>a, <4>1 DEF AsMade
      <4>. QED BY <1>b, <1>j, <4>1, <4>2 DEF LiveAt
    <3>. QED BY <1>a, <1>e, <2>1, <2>2, <3>1 DEF Kept, OnDisk
  <2>6. Complete'
    BY <1>a, <1>b, <2>1 DEF Complete
  <2>7. Looked'
    BY <1>a, <1>b, <1>c, <1>h, <2>1 DEF Looked
  <2>8. Remembered'
    BY <1>a, <1>b, <1>g, <2>1 DEF Remembered
  <2>. QED BY <1>i, <2>3, <2>4, <2>5, <2>6, <2>7, <2>8 DEF TokenInv
<1>16. ASSUME Tick PROVE TokenInv'
  <2>1. UNCHANGED <<made, file, cache, lock, req, given, gone>>
    BY <1>16 DEF Tick
  <2>2. \A j \in Token : Known(j)' => Known(j)
    BY <1>b, <2>1 DEF Known, Held
  <2>3. AsMade'
    BY <1>a, <1>b, <1>d, <2>1 DEF AsMade
  <2>4. Owned'
    BY <1>a, <1>b, <1>d, <2>2, <2>1 DEF Owned
  <2>5. Kept'
    BY <1>a, <1>e, <2>2, <2>1 DEF Kept
  <2>6. Complete'
    BY <1>a, <1>b, <2>1 DEF Complete
  <2>7. Looked'
    BY <1>a, <1>b, <1>c, <1>f, <1>h, <2>1 DEF Looked, Shape
  <2>8. Remembered'
    BY <1>a, <1>b, <1>g, <2>1 DEF Remembered, Shape, Query
  <2>. QED BY <1>i, <2>3, <2>4, <2>5, <2>6, <2>7, <2>8 DEF TokenInv
<1>17. ASSUME Restart PROVE TokenInv'
  <2>1. /\ \A u \in Thread : req'[u] = Idle
        /\ \A j \in Token : cache'[j] # None => Readable(j) /\ cache'[j] = file[j]
        /\ UNCHANGED <<made, clock, file, given, gone>>
    BY <1>17 DEF Restart
  <2>1b. /\ Idle.pc = "idle" /\ Idle.got = {} /\ Idle.approved = {}
         /\ ~Putting(Idle) /\ ~Reading(Idle)
    BY DEF Idle
  <2>2. \A j \in Token : Known(j)' => Known(j) \/ Readable(j)
    BY <2>1, <2>1b DEF Known, Held
  <2>3. AsMade'
    BY <1>a, <1>b, <1>d, <2>1, <2>1b DEF AsMade
  <2>4. Owned'
    BY <1>a, <1>b, <1>d, <2>2, <2>1, <2>1b DEF Owned
  <2>5. Kept'
    <3>1. \A j \in Token : Readable(j) => OnDisk(made[j], file[j], clock)
      BY <1>a, <1>d DEF AsMade, OnDisk
    <3>. QED BY <1>a, <1>e, <2>1, <2>2, <3>1 DEF Kept
  <2>6. Complete'
    BY <1>a, <1>b, <2>1, <2>1b DEF Complete
  <2>7. Looked'
    BY <1>a, <1>b, <1>c, <1>h, <2>1, <2>1b DEF Looked
  <2>8. Remembered'
    BY <1>a, <1>b, <1>g, <2>1, <2>1b DEF Remembered
  <2>. QED BY <1>i, <2>3, <2>4, <2>5, <2>6, <2>7, <2>8 DEF TokenInv
<1>18. ASSUME UNCHANGED vars PROVE TokenInv'
  <2>1. UNCHANGED <<made, clock, file, cache, lock, req, given, gone>>
    BY <1>18 DEF vars
  <2>2. \A j \in Token : Known(j)' => Known(j)
    BY <1>b, <2>1 DEF Known, Held
  <2>3. AsMade'
    BY <1>a, <1>b, <1>d, <2>1 DEF AsMade
  <2>4. Owned'
    BY <1>a, <1>b, <1>d, <2>2, <2>1 DEF Owned
  <2>5. Kept'
    BY <1>a, <1>e, <2>2, <2>1 DEF Kept
  <2>6. Complete'
    BY <1>a, <1>b, <2>1 DEF Complete
  <2>7. Looked'
    BY <1>a, <1>b, <1>c, <1>h, <2>1 DEF Looked
  <2>8. Remembered'
    BY <1>a, <1>b, <1>g, <2>1 DEF Remembered
  <2>. QED BY <1>i, <2>3, <2>4, <2>5, <2>6, <2>7, <2>8 DEF TokenInv
<1>. QED
  BY <1>1, <1>2, <1>3, <1>4, <1>5, <1>6, <1>7, <1>8, <1>9, <1>10, <1>11, <1>12, <1>13, <1>14, <1>15, <1>16, <1>17, <1>18
     DEF Next, Arrive, Serve

LEMMA InvHolds == Spec => []TokenInv
<1>1. Init => TokenInv
  <2>. USE DEF Init, At, Readable, Putting, Filling, Reading
  <2>1. Init => TypeInv
    BY IdleOK, TokensAssumption, StoreAssumption DEF TypeInv, StoreTypeOK, Time
  <2>2. Init => \A t \in Thread : req[t].pc = "idle" /\ req[t].got = {} /\ req[t].approved = {}
    BY DEF Idle
  <2>3. Init => AsMade
    BY <2>2, NoneAssumption DEF AsMade
  <2>4. Init => Owned /\ Kept
    BY <2>2 DEF Owned, Kept, Known, Held
  <2>5. Init => Complete /\ Looked /\ Remembered
    BY <2>2 DEF Complete, Looked, Remembered
  <2>. QED BY <2>1, <2>3, <2>4, <2>5 DEF TokenInv
<1>2. TokenInv /\ [Next]_vars => TokenInv'
  BY InvStep
<1>. QED BY <1>1, <1>2, PTL DEF Spec

-----------------------------------------------------------------------------
(* The lock. *)

\* A goroutine that is outside the lock before and after its step leaves it alone.
LEMMA LockStays ==
  ASSUME TypeInv, NEW t \in Thread, NEW r, Become(t, r), r.pc \notin {"data", "cache", "stuck"},
         ~Locks(req[t])
  PROVE  \A u \in Thread : Locks(req'[u]) <=> Locks(req[u])
<1>1. req \in [Thread -> Request] /\ ~Locks(r)
  BY DEF TypeInv, StoreTypeOK, Locks
<1>2. req'[t] = r /\ \A u \in Thread \ {t} : req'[u] = req[u]
  BY <1>1 DEF Become
<1>. QED BY <1>1, <1>2

\* How a step moves the lock: a goroutine that finds it free takes it, the one
\* that has it gives it back, a restart frees it, or it stays where it is.
LEMMA LockMoves ==
  ASSUME TypeInv, LockedByAWriter, Next
  PROVE  \/ \E t \in Thread : /\ lock = None /\ lock' = t /\ Locks(req'[t])
                              /\ \A u \in Thread \ {t} : req'[u] = req[u]
         \/ \E t \in Thread : /\ lock \in {t, None} /\ lock' = None /\ ~Locks(req'[t])
                              /\ \A u \in Thread \ {t} : req'[u] = req[u]
         \/ lock' = None /\ \A t \in Thread : ~Locks(req'[t])
         \/ lock' = lock /\ \A t \in Thread : Locks(req'[t]) <=> Locks(req[t])
<1>. DEFINE Takes == \E t \in Thread : /\ lock = None /\ lock' = t /\ Locks(req'[t])
                                       /\ \A u \in Thread \ {t} : req'[u] = req[u]
            Leaves == \E t \in Thread : /\ lock \in {t, None} /\ lock' = None /\ ~Locks(req'[t])
                                        /\ \A u \in Thread \ {t} : req'[u] = req[u]
            Keeps == lock' = lock /\ \A t \in Thread : Locks(req'[t]) <=> Locks(req[t])
<1>0. req \in [Thread -> Request] /\ \A t \in Thread : req[t] \in Request
  BY DEF TypeInv, StoreTypeOK
<1>1. ASSUME NEW t \in Thread, Arrive(t) PROVE Keeps
  <2>0. lock' = lock /\ ~Locks(req[t])
    BY <1>1 DEF Arrive, IssueRequest, IntrospectRequest, RevokeRequest, At, Locks
  <2>1. ASSUME NEW as, NEW iss, NEW aud, IssueRequest(t, as, iss, aud) PROVE Keeps
    <3>. DEFINE r == [Idle EXCEPT !.pc = "make", !.approved = as, !.todo = as, !.iss = iss, !.aud = aud]
    <3>1. Become(t, r) /\ r.pc = "make"
      BY <2>1 DEF IssueRequest, Idle
    <3>. HIDE DEF r
    <3>. QED BY <2>0, <3>1, LockStays
  <2>2. ASSUME NEW k, NEW rs, NEW asks, IntrospectRequest(t, k, rs, asks) PROVE Keeps
    <3>. DEFINE r == [Idle EXCEPT !.pc = "get", !.token = k, !.rs = rs, !.asks = asks,
                                  !.held = Held(k), !.gone = <<k, rs, asks>> \in gone]
    <3>1. Become(t, r) /\ r.pc = "get"
      BY <2>2 DEF IntrospectRequest, Idle
    <3>. HIDE DEF r
    <3>. QED BY <2>0, <3>1, LockStays
  <2>3. ASSUME NEW k, RevokeRequest(t, k) PROVE Keeps
    <3>. DEFINE r == [Idle EXCEPT !.pc = "revoke", !.token = k]
    <3>1. Become(t, r) /\ r.pc = "revoke"
      BY <2>3 DEF RevokeRequest, Idle
    <3>. HIDE DEF r
    <3>. QED BY <2>0, <3>1, LockStays
  <2>. QED BY <1>1, <2>1, <2>2, <2>3 DEF Arrive
<1>2. ASSUME NEW t \in Thread, OpenFile(t) \/ Revoke(t) PROVE Takes
  BY <1>0, <1>2 DEF OpenFile, Revoke, Become, Locks, Request
<1>3. ASSUME NEW t \in Thread, CacheRecord(t) \/ PutFails(t) PROVE Leaves
  <2>1. CASE CacheRecord(t)
    <3>1. lock = t
      BY <2>1 DEF CacheRecord, At, LockedByAWriter, Locks
    <3>. DEFINE s == [req[t] EXCEPT !.got = @ \cup {req[t].token}]
                r == [s EXCEPT !.pc = "make", !.token = None, !.rec = None]
    <3>2. r.pc = "make" /\ Idle.pc = "idle"
      BY <1>0 DEF Idle, Request
    <3>3. lock' = None /\ (Become(t, Idle) \/ Become(t, r))
      BY <2>1 DEF CacheRecord
    <3>. HIDE DEF r
    <3>4. ~Locks(req'[t]) /\ \A u \in Thread \ {t} : req'[u] = req[u]
      BY <1>0, <3>2, <3>3 DEF Locks, Become
    <3>. QED BY <3>1, <3>3, <3>4
  <2>2. CASE PutFails(t)
    <3>1. lock \in {t, None}
      BY <2>2 DEF PutFails, At, LockedByAWriter, Locks
    <3>2. lock' = None /\ ~Locks(req'[t]) /\ \A u \in Thread \ {t} : req'[u] = req[u]
      BY <1>0, <2>2 DEF PutFails, Refuse, Become, Locks, Idle
    <3>. QED BY <3>1, <3>2
  <2>. QED BY <1>3, <2>1, <2>2
<1>4. ASSUME NEW t \in Thread, FillFile(t) PROVE Keeps
  BY <1>0, <1>4 DEF FillFile, Become, Locks, At, Request
<1>5. ASSUME NEW t \in Thread, MakeToken(t) PROVE Keeps
  BY <1>0, <1>5 DEF MakeToken, Become, Locks, At, Request
<1>6. ASSUME NEW t \in Thread, GetByHash(t) \/ ReadFails(t) \/ FillCache(t) \/ ReturnFill(t) \/ Answer(t)
      PROVE  Keeps
  <2>1. lock' = lock /\ ~Locks(req[t])
    BY <1>6 DEF GetByHash, ReadFails, FillCache, ReturnFill, Answer, At, Locks
  <2>2. ASSUME NEW p \in {"fill", "judge"}, NEW x, Become(t, [req[t] EXCEPT !.pc = p, !.rec = x])
        PROVE  Keeps
    <3>. DEFINE r == [req[t] EXCEPT !.pc = p, !.rec = x]
    <3>1. r.pc = p
      BY <1>0 DEF Request
    <3>. HIDE DEF r
    <3>2. Become(t, r)
      BY <2>2 DEF r
    <3>. QED BY <2>1, <3>1, <3>2, LockStays
  <2>3. ASSUME NEW e, Become(t, [req[t] EXCEPT !.pc = "judge", !.err = e])
        PROVE  Keeps
    <3>. DEFINE r == [req[t] EXCEPT !.pc = "judge", !.err = e]
    <3>1. r.pc = "judge"
      BY <1>0 DEF Request
    <3>. HIDE DEF r
    <3>2. Become(t, r)
      BY <2>3 DEF r
    <3>. QED BY <2>1, <3>1, <3>2, LockStays
  <2>4. ASSUME NEW p \in {"return", "judge"}, Become(t, [req[t] EXCEPT !.pc = p])
        PROVE  Keeps
    <3>. DEFINE r == [req[t] EXCEPT !.pc = p]
    <3>1. r.pc = p
      BY <1>0 DEF Request
    <3>. HIDE DEF r
    <3>2. Become(t, r)
      BY <2>4 DEF r
    <3>. QED BY <2>1, <3>1, <3>2, LockStays
  <2>5. CASE Become(t, Idle)
    <3>1. Idle.pc = "idle"
      BY DEF Idle
    <3>. QED BY <2>1, <2>5, <3>1, LockStays
  <2>. HIDE DEF Keeps
  <2>6. CASE GetByHash(t)
    BY <2>2, <2>3, <2>6 DEF GetByHash
  <2>7. CASE ReadFails(t)
    BY <2>3, <2>7 DEF ReadFails
  <2>8. CASE FillCache(t) \/ ReturnFill(t) \/ Answer(t)
    BY <2>4, <2>5, <2>8 DEF FillCache, ReturnFill, Answer
  <2>. QED BY <1>6, <2>6, <2>7, <2>8
<1>7. CASE CleanupExpired \/ Tick
  BY <1>7 DEF CleanupExpired, Tick
<1>8. CASE Restart
  BY <1>8 DEF Restart, Idle, Locks
<1>. QED BY <1>1, <1>2, <1>3, <1>4, <1>5, <1>6, <1>7, <1>8 DEF Next, Serve

LEMMA LockStep ==
  ASSUME TypeInv, LockedByAWriter, [Next]_vars
  PROVE  LockedByAWriter'
<1>1. None \notin Thread
  BY StoreAssumption
<1>2. CASE Next
  BY <1>1, <1>2, LockMoves DEF LockedByAWriter
<1>3. CASE UNCHANGED vars
  BY <1>3 DEF vars, LockedByAWriter
<1>. QED BY <1>2, <1>3

-----------------------------------------------------------------------------
(* The theorems. *)

\* The types are as declared.
THEOREM StoreTypeCorrect == Spec => []StoreTypeOK
<1>1. TokenInv => StoreTypeOK
  BY DEF TokenInv, TypeInv
<1>. QED BY <1>1, InvHolds, PTL

\* Clients have a token for every access that was approved, and these are on disk.
THEOREM TokensAreDurable == Spec => []GivenAreDurable
<1>1. TokenInv => GivenAreDurable
  <2>1. SUFFICES ASSUME TokenInv, NEW g \in given
                 PROVE  /\ \A a \in g.access : \E k \in g.tokens : made[k].access = a
                        /\ \A k \in g.tokens : LiveAt(made[k], clock) => file[k] = made[k]
    BY DEF GivenAreDurable
  <2>2. g.tokens \subseteq Token
    BY <2>1 DEF TokenInv, TypeInv, StoreTypeOK
  <2>3. \A k \in g.tokens : OnDisk(made[k], file[k], clock)
    BY <2>1, <2>2 DEF TokenInv, Kept, Known, Held
  <2>. QED BY <2>1, <2>3 DEF TokenInv, Complete, OnDisk
<1>. QED BY <1>1, InvHolds, PTL

\* A lookup finds the token of a client until it expires.
THEOREM TokensAreFound == Spec => []HeldIsFound
<1>1. TokenInv => HeldIsFound
  <2>1. SUFFICES ASSUME TokenInv, NEW t \in Thread, At(t, "judge"), req[t].held, ~req[t].err,
                        LiveAt(made[req[t].token], clock)
                 PROVE  req[t].rec = made[req[t].token]
    BY DEF HeldIsFound
  <2>2. req[t].rec # None
    BY <2>1 DEF TokenInv, Looked
  <2>. QED BY <2>1, <2>2 DEF TokenInv, AsMade, Reading, At
<1>. QED BY <1>1, InvHolds, PTL

\* A token that was answered as inactive is never answered as active again.
THEOREM InactiveIsFinal == Spec => []NoRevival
<1>1. TokenInv => NoRevival
  <2>1. SUFFICES ASSUME TokenInv, NEW t \in Thread, At(t, "judge"), Active(t), req[t].gone
                 PROVE  FALSE
    BY DEF NoRevival, TokenInv, TypeInv, StoreTypeOK, Request
  <2>2. req[t].token \in Token /\ req[t].rec \in Record /\ clock \in Nat
    BY <2>1, TokensAssumption
       DEF TokenInv, TypeInv, StoreTypeOK, Shape, Reading, At, Active, Request, Time
  <2>3. req[t].rec = made[req[t].token]
    BY <2>1, <2>2, NoneAssumption DEF TokenInv, AsMade, Reading, At
  <2>4. Over(made[req[t].token], clock, req[t].rs, req[t].asks)
    BY <2>1 DEF TokenInv, Remembered, Reading, At
  <2>5. req[t].rec.exp \in Nat
    BY <2>2 DEF Record, Time
  <2>. QED BY <2>1, <2>2, <2>3, <2>4, <2>5 DEF Active, Over, Deserves, LiveAt
<1>. QED BY <1>1, InvHolds, PTL

\* The write lock belongs to the goroutine that stores or revokes a token, through
\* failed writes, the lock hand-over of GetByHash and restarts (Put, GetByHash).
THEOREM LockIsTheWriters == Spec => []LockedByAWriter
<1>1. Init => LockedByAWriter
  BY StoreAssumption DEF Init, LockedByAWriter, Locks, Idle
<1>2. TokenInv /\ LockedByAWriter /\ [Next]_vars => LockedByAWriter'
  BY LockStep DEF TokenInv
<1>. QED BY <1>1, <1>2, InvHolds, PTL DEF Spec

\* A revocation stops every call of the store, for good unless the server is
\* started again: it holds the lock that all of them ask for (Revoke, GetByHash).
THEOREM RevocationStopsTheStore == Spec => RevocationStops
<1>1. TokenInv /\ LockedByAWriter /\ [Next]_vars =>
        [\A t \in Thread : At(t, "stuck") /\ At(t, "stuck")' =>
           /\ UNCHANGED <<file, cache, lock, given>>
           /\ \A u \in Thread : InStore(req[u]) => req'[u] = req[u]]_vars
  <2>. SUFFICES ASSUME TokenInv, LockedByAWriter, Next,
                       NEW t \in Thread, At(t, "stuck"), At(t, "stuck")'
                PROVE  /\ UNCHANGED <<file, cache, lock, given>>
                       /\ \A u \in Thread : InStore(req[u]) => req'[u] = req[u]
    OBVIOUS
  <2>1. lock = t /\ lock # None /\ req \in [Thread -> Request]
    BY StoreAssumption DEF LockedByAWriter, Locks, At, TokenInv, TypeInv, StoreTypeOK
  <2>2. \A u \in Thread : ~At(u, "data") /\ ~At(u, "cache")
    BY <2>1 DEF LockedByAWriter, Locks, At
  <2>3. ASSUME NEW u \in Thread, Arrive(u)
        PROVE  UNCHANGED <<file, cache, lock, given>> /\ \A w \in Thread : InStore(req[w]) => req'[w] = req[w]
    BY <2>1, <2>3 DEF Arrive, IssueRequest, IntrospectRequest, RevokeRequest, Become, InStore, At, Seen
  <2>4. ASSUME NEW u \in Thread, Serve(u)
        PROVE  UNCHANGED <<file, cache, lock, given>> /\ \A w \in Thread : InStore(req[w]) => req'[w] = req[w]
    <3>1. MakeToken(u) \/ Answer(u)
      BY <2>1, <2>2, <2>4 DEF Serve, OpenFile, FillFile, CacheRecord, PutFails, GetByHash, ReadFails,
                              FillCache, ReturnFill, Revoke
    <3>. QED BY <2>1, <3>1 DEF MakeToken, Answer, Become, InStore, At, Seen
  <2>5. ~Restart /\ ~CleanupExpired
    BY <2>1 DEF Restart, CleanupExpired, At, Idle
  <2>6. CASE Tick
    BY <2>6 DEF Tick, Seen
  <2>. QED BY <2>3, <2>4, <2>5, <2>6 DEF Next
<1>. QED BY <1>1, LockIsTheWriters, InvHolds, PTL DEF Spec, RevocationStops

-----------------------------------------------------------------------------
(* The refinement. *)

\* What lookups find is what the files hold and is not expired.
Filed(m, f, now) == [k \in Token |-> IF LiveAt(m[k], now) /\ f[k] = m[k] THEN m[k] ELSE None]

LEMMA FoundIsFiled == TokenInv => BookNow = Filed(made, file, clock)
<1>1. SUFFICES ASSUME TokenInv, NEW k \in Token
               PROVE  (IF LiveAt(Found(k), clock) THEN Found(k) ELSE None)
                        = (IF LiveAt(made[k], clock) /\ file[k] = made[k] THEN made[k] ELSE None)
  BY DEF BookNow, Filed
<1>2. /\ made[k] \in Record \cup {None}
      /\ Readable(k) => file[k] = made[k]
      /\ cache[k] # None => cache[k] = made[k] /\ OnDisk(made[k], file[k], clock)
  BY <1>1 DEF TokenInv, TypeInv, StoreTypeOK, AsMade, Kept, Known
<1>. QED BY <1>2, NoneAssumption DEF Found, FromFile, Readable, OnDisk, LiveAt

\* The files and the clock change only so.
LEMMA FilesStep ==
  ASSUME TokenInv, [Next]_vars
  PROVE  \/ UNCHANGED <<made, clock>> /\ Filed(made, file', clock) = Filed(made, file, clock)
         \/ /\ UNCHANGED <<made, clock>>
            /\ \E k \in Token : /\ file[k] # made[k] /\ LiveAt(made[k], clock)
                               /\ file' = [file EXCEPT ![k] = made[k]]
         \/ /\ UNCHANGED <<clock, file>>
            /\ \E k \in Token, r \in Record : /\ made[k] = None /\ file[k] = None
                                           /\ made' = [made EXCEPT ![k] = r]
         \/ UNCHANGED <<made, file>> /\ clock < MaxTime /\ clock' = clock + 1
<1>. DEFINE Same == UNCHANGED <<made, clock>> /\ Filed(made, file', clock) = Filed(made, file, clock)
            Fill == \E k \in Token : /\ file[k] # made[k] /\ LiveAt(made[k], clock)
                                    /\ file' = [file EXCEPT ![k] = made[k]]
<1>a. /\ made \in [Token -> Record \cup {None}] /\ cache \in [Token -> Record \cup {None}]
      /\ file \in [Token -> Record \cup {None, Torn}]
      /\ clock \in Nat /\ \A r \in Record : r.exp \in Nat
  BY TokensAssumption DEF TokenInv, TypeInv, StoreTypeOK, Record, Time
<1>b. None \notin Record /\ Torn \notin Record /\ Torn # None
  BY NoneAssumption, StoreAssumption
<1>c. ASSUME NEW t \in Thread, Putting(req[t])
      PROVE  /\ req[t].token \in Token /\ req[t].rec \in Record
             /\ made[req[t].token] = req[t].rec
             /\ At(t, "put") => file[req[t].token] = None
             /\ At(t, "data") => file[req[t].token] = Torn
  BY <1>b, <1>c DEF TokenInv, TypeInv, Shape, AsMade, Owned
<1>d. ASSUME UNCHANGED <<made, clock, file>> PROVE Same
  BY <1>d
<1>e. ASSUME NEW k \in Token, file[k] # made[k], made[k] # None, UNCHANGED <<made, clock>>,
             file' = [file EXCEPT ![k] = made[k]]
      PROVE  Same \/ Fill
  <2>1. CASE LiveAt(made[k], clock)
    BY <1>e, <2>1
  <2>2. CASE ~LiveAt(made[k], clock)
    BY <1>a, <1>e, <2>2 DEF Filed
  <2>. QED BY <2>1, <2>2
<1>1. ASSUME NEW t \in Thread, MakeToken(t)
      PROVE  /\ UNCHANGED <<clock, file>>
             /\ \E k \in Token, r \in Record : /\ made[k] = None /\ file[k] = None
                                            /\ made' = [made EXCEPT ![k] = r]
  <2>1. PICK k \in Token, a \in req[t].todo :
          LET rec == [iss |-> req[t].iss, access |-> a, aud |-> req[t].aud, exp |-> clock + TTL] IN
            made[k] = None /\ made' = [made EXCEPT ![k] = rec]
    BY <1>1 DEF MakeToken
  <2>2. file[k] = None
    BY <2>1 DEF TokenInv, Owned
  <2>3. made' \in [Token -> Record \cup {None}]
    BY TypeStep DEF TokenInv, TypeInv, StoreTypeOK
  <2>. DEFINE rec == [iss |-> req[t].iss, access |-> a, aud |-> req[t].aud, exp |-> clock + TTL]
  <2>4. rec # None
    <3>1. req[t] \in Request /\ req[t].iss \in Issuer /\ clock \in Time
      BY <1>1 DEF MakeToken, At, TokenInv, TypeInv, StoreTypeOK, Shape
    <3>2. req[t].aud \in SUBSET RS /\ a \in Access
      BY <3>1 DEF Request
    <3>3. clock + TTL \in Time
      BY <1>1, <3>1, TokensAssumption DEF MakeToken, Time
    <3>. QED BY <3>1, <3>2, <3>3, NoneAssumption DEF Record
  <2>5. rec \in Record
    <3>. HIDE DEF rec
    <3>1. made' = [made EXCEPT ![k] = rec]
      BY <2>1 DEF rec
    <3>. QED BY <1>a, <2>3, <2>4, <3>1
  <2>. QED BY <1>1, <2>1, <2>2, <2>5 DEF MakeToken
<1>2. ASSUME NEW t \in Thread, OpenFile(t) PROVE Same
  BY <1>2, <1>a, <1>b, <1>c DEF OpenFile, Putting, At, Filed
<1>3. ASSUME NEW t \in Thread, FillFile(t) PROVE Same \/ Fill
  BY <1>3, <1>b, <1>c, <1>e DEF FillFile, Putting, At
<1>4. ASSUME NEW t \in Thread, PutFails(t) PROVE Same \/ Fill
  <2>1. CASE UNCHANGED file
    BY <1>4, <1>d, <2>1 DEF PutFails
  <2>2. CASE At(t, "data") /\ file' = [file EXCEPT ![req[t].token] = req[t].rec]
    BY <1>4, <1>b, <1>c, <1>e, <2>2 DEF PutFails, Putting, At
  <2>. QED BY <1>4, <2>1, <2>2 DEF PutFails
<1>5. ASSUME CleanupExpired PROVE Same
  <2>1. ASSUME NEW k \in Token, file'[k] # file[k] PROVE ~LiveAt(made[k], clock)
    <3>1. cache[k] # None /\ cache[k].exp <= clock
      BY <1>5, <1>a, <2>1 DEF CleanupExpired, Expired
    <3>2. cache[k] = made[k]
      BY <3>1 DEF TokenInv, AsMade
    <3>. QED BY <1>a, <3>1, <3>2 DEF LiveAt
  <2>. QED BY <1>5, <2>1 DEF CleanupExpired, Filed
<1>6. ASSUME Tick PROVE UNCHANGED <<made, file>> /\ clock < MaxTime /\ clock' = clock + 1
  BY <1>6 DEF Tick
<1>7. CASE UNCHANGED <<made, clock, file>>
  BY <1>7, <1>d
<1>8. \A t \in Thread : FillFile(t) \/ PutFails(t) => UNCHANGED <<made, clock>>
  BY DEF FillFile, PutFails
<1>. QED
  BY <1>1, <1>2, <1>3, <1>4, <1>5, <1>6, <1>7, <1>8
     DEF Next, Arrive, Serve, IssueRequest, CacheRecord, IntrospectRequest, GetByHash, ReadFails,
         FillCache, ReturnFill, Answer, RevokeRequest, Revoke, Restart, vars

\* The store implements the book: whatever fails, crashes or races, a lookup finds
\* exactly the records that were put and have not expired.
THEOREM StoreImplementsBook == Spec => StoreIsBook
<1>1. Init => Book!BookInit
  BY DEF Init, Book!BookInit, BookNow, Found, FromFile, LiveAt, Readable
<1>2. TokenInv /\ TokenInv' /\ [Next]_vars => [Book!BookNext]_(Book!bookVars)
  <2>. SUFFICES ASSUME TokenInv, TokenInv', [Next]_vars
                PROVE  [Book!BookNext]_(Book!bookVars)
    OBVIOUS
  <2>1. BookNow = Filed(made, file, clock) /\ BookNow' = Filed(made', file', clock')
    <3>1. (BookNow = Filed(made, file, clock))'
      BY FoundIsFiled, PTL
    <3>. QED BY <3>1, FoundIsFiled
  <2>a. /\ made \in [Token -> Record \cup {None}] /\ file \in [Token -> Record \cup {None, Torn}]
        /\ clock \in Nat /\ \A r \in Record : r.exp \in Nat
    BY TokensAssumption DEF TokenInv, TypeInv, StoreTypeOK, Record, Time
  <2>2. CASE UNCHANGED <<made, clock>> /\ Filed(made, file', clock) = Filed(made, file, clock)
    <3>1. UNCHANGED <<made, BookNow, clock>>
      BY <2>1, <2>2
    <3>. QED BY <3>1 DEF Book!bookVars, BookNow
  <2>3. ASSUME NEW k \in Token, UNCHANGED <<made, clock>>, file[k] # made[k],
               LiveAt(made[k], clock), file' = [file EXCEPT ![k] = made[k]]
        PROVE  Book!BookNext
    <3>1. BookNow[k] = None /\ BookNow' = [BookNow EXCEPT ![k] = made[k]]
      BY <2>1, <2>3, <2>a DEF Filed
    <3>2. Book!Enter(k)
      BY <2>3, <3>1 DEF Book!Enter, Book!LiveAt, LiveAt, BookNow
    <3>. QED BY <2>3, <3>2 DEF Book!BookNext
  <2>4. ASSUME NEW k \in Token, NEW r \in Record, UNCHANGED <<clock, file>>,
               made[k] = None, file[k] = None, made' = [made EXCEPT ![k] = r]
        PROVE  Book!BookNext
    <3>1. BookNow' = BookNow
      BY <2>1, <2>4, <2>a, NoneAssumption DEF Filed, LiveAt
    <3>2. Book!Make(k, r) /\ r \in Book!Record
      BY <2>4 DEF Book!Make, Book!Record, Record, Book!Time, Time
    <3>. QED BY <2>4, <3>1, <3>2 DEF Book!BookNext, BookNow
  <2>5. CASE UNCHANGED <<made, file>> /\ clock < MaxTime /\ clock' = clock + 1
    <3>1. BookNow' = [k \in Token |-> IF LiveAt(BookNow[k], clock') THEN BookNow[k] ELSE None]
      BY <2>1, <2>5, <2>a DEF Filed, LiveAt
    <3>2. Book!Pass
      BY <2>5, <3>1 DEF Book!Pass, Book!Drop, Book!LiveAt, LiveAt, BookNow
    <3>. QED BY <3>2 DEF Book!BookNext
  <2>. QED BY FilesStep, <2>2, <2>3, <2>4, <2>5
<1>3. QED
  BY <1>1, <1>2, InvHolds, PTL DEF Spec, StoreIsBook, Book!BookSpec
=============================================================================
