# TwigBush in TLA+

TwigBush is a GNAP authorization server (RFC 9635, RFC 9767) written in Go. This
directory holds models of its grant engine, its tokens, both composed as the
server composes them, its store of resource server keys, and the signed requests
that depend on that store; the TLC runs that check them on
small instances; and theorems about them that TLAPS has checked for instances of any size.
`PROJECT.json` lists the components, the runs, the source lines behind every definition,
the hazards and the theorems.

## 1. Inventory

| Component | Source | State | Operations |
|---|---|---|---|
| Grant store | `internal/gnap/store_fs.go`, `internal/types/types.go` | one JSON file per grant, a temporary file while it is written, a mutex per process | `CreateGrant`, `GetGrant`, `FindGrantByUserCodePending`, `MarkCodeVerified`, `ApproveGrant`, `DenyGrant` |
| Grant and continuation handlers | `internal/handlers/grant.go`, `continue.go` | none: a request and the grant it has read | `POST /grants`, `POST /continue/{id}` |
| Device handlers | `internal/handlers/device.go` | none | `POST /device/verify[/json]`, `POST /device/consent` |
| Debug endpoints | `internal/playground/debug.go` | none, but in a second process | `POST /debug/approve/{id}`, `POST /debug/deny/{id}` |
| Token issuance and store | `internal/token/*.go`, `internal/gnap/store_tokens.go` | a file per token hash, a cache, an RW mutex | `IssueToken`, `Put`, `GetByHash`, `Revoke`, `CleanupExpired` |
| Resource server keys | `internal/gnap/store_rs_keys_fs.go`, `internal/handlers/rs_keys.go` | cache tenant -> thumbprint -> record, a file per record | upsert, deactivate, list, three lookups, load at start |
| Introspection | `internal/handlers/introspect.go` | none: reads the token store | `POST /introspect` |
| Signature middleware | `internal/mw/verify_rs_proof.go` | none: reads the key store | `VerifyRSProof` |
| Logging and other middleware | `internal/mw/logging.go`, `trace.go`, `nocache.go` | a counter of polls | log lines, headers |
| Event hub | `internal/playground/sse.go` | a set of subscriber channels | `Subscribe`, `Broadcast`, `ServeHTTP` |
| Playground page | `web/playground/app.js` | current grant, poll timer | create, verify, approve, deny, poll |
| Router, discovery | `internal/server/*.go`, `cmd/as/main.go` | none | wiring |
| Command line | `internal/cli/*.go` | a key directory, two child processes | `run`, `keys new`, `keys register`, `sign curl`, ... |
| Authorization, policy, version, helpers | `internal/authz`, `di`, `policy`, `jwks`, `httpx`, `version` | none | stubs and stateless helpers |

How they interact. The router gives one `FileStore`, one `TokenStoreContainer` and
one `RSKeyStore` to the handlers of the server (`cmd/as`). The playground
(`cmd/playground`) opens a `FileStore` of its own **on the same directory**, and
`twigbush run` starts both. net/http runs every request in a goroutine. A handler
makes one or two calls of the store: `/device/verify` finds a grant and then marks
it, the consent and debug handlers read a grant and then decide it, `/continue`
reads a grant and then issues tokens. Each call holds the store's mutex; nothing
is held between the two calls, and the mutex of one process means nothing to the
other. Introspection passes the signature middleware first, which looks the signer's key
up in the key store, and then reads the token store. The keys come from the command
line: `keys new` writes a key pair, `keys register` uploads its public half, and `sign
curl` prints a signed `curl` command.

What is hard here:

* two processes that read, change and write one file, and share the name of its
  temporary file;
* the gap between the two calls of a handler;
* expiry that nobody notices until somebody reads the grant, and whose write may
  fail unnoticed (`GetGrant`, `DenyGrant`);
* a crash or a failed write at any of the three steps of `writeGrant`;
* a scan over the grants that gives the lock up between two files, for a code
  that need not be unique;
* a cache of tokens that is filled after its lock was given up, over files that are
  written in place, read at the start if they can be, and removed if that works;
* several tokens for one grant, of which a later one may fail;
* two stores, grants and tokens, with locks and crashes of their own, between which
  `/continue` carries a copy of a grant that others may decide meanwhile;
* two programs that build the same signature base each on its own, with a user, a
  shell, `curl` and two clocks in between, while keys come and go.

What makes the components correct:

* *grant store*: with one process it is an atomic store whose grants move one way
  (`StoreIsAtomic`); with two processes each grant still is consistent in itself
  (`GrantConsistent`), verified only by its own code (`VerifiedByItsCode`), and
  past its expiry for good once somebody said so (`NoTokenAfterExpiry`);
* *handlers*: the mutex is held by the goroutine that writes and by nobody else
  (`HeldByAWriter`), so no request keeps it (`EveryRequestEnds`); a client that polls
  is told itself that its grant is over, and again if it asks on (`PollingEnds`); a denial is final for tokens
  (`NoTokenAfterDenial`); with one process no call undoes what another did to a grant
  (`NothingUndone`);
* *grants and tokens together*: what introspection says of a token is true of its grant,
  which its subject consented to, whose code was entered and whose client asked for the
  access (`ActiveWasGranted`); a client is given the tokens its grant asked for, all of
  them and from no other grant (`GivenWasRequested`); after an answer of "denied" no
  token is made that is ever active (`NoActiveAfterDenial`); with one process the whole is
  an authorization server in which everything happens at once and in the order of the
  protocol (`ServerIsAtomic`);
* *token store*: it is a book in which a token's record appears at once and stays until
  it expires (`StoreIsBook`), so that tokens a client was given are complete and durable
  (`GivenAreDurable`) and found (`HeldIsFound`); its lock is held by the goroutine that
  stores or revokes a token and by nobody else (`LockedByAWriter`); no call waits for itself
  (`RevokeReturns`, which does not hold, and `RevocationStops` says what that costs);
* *resource server keys*: a key is as its callers were told, through failed saves and
  restarts (`NoSurprise`); one that was deactivated verifies nothing
  (`DeactivatedIsGone`, and `ActiveKeysOnly`, which does not hold); one that was
  registered is found (`RegisteredIsFound`); the store is a register for each key, with one call
  at a time (`StoreIsRegister`);
* *introspection*: a token that was said to be inactive stays so (`NoRevival`);
* *signatures*: nobody is admitted but with a request that was signed just so, in time,
  with a registered key (`AdmittedWasSigned`), and what `sign curl` prints is admitted
  (`SignedIsAdmitted`).

## 2. Modules

| Module | What it is |
|---|---|
| `Grants` | the record of a grant and the pure changes the store makes to it |
| `GrantLifecycle` | the abstract store: every call is one step on the current grant |
| `GrantStore` | files, mutexes, goroutines, handlers, crashes and failures; the properties; the refinement of `GrantLifecycle` |
| `MCGrantStore` | `GrantStore` for TLC, with its symmetry |
| `GrantStoreProofs` | theorems about `GrantStore` |
| `GrantOneProcessProofs` | extends `GrantStoreProofs`: theorems about `GrantStore` with one process, the refinement among them |
| `KeyBook` | the abstract key store: a register for each key, whose calls succeed or fail, and restarts |
| `RSKeyStore` | cache, files, saves, failures and restarts of the resource servers' keys; the three lookups; the refinement of `KeyBook` |
| `MCRSKeyStore` | `RSKeyStore` for TLC, with its symmetry |
| `RSKeyStoreProofs` | theorems about `RSKeyStore`, the refinement among them |
| `Tokens` | the record of a token |
| `TokenBook` | the abstract token store: a record appears, stays, and expires |
| `TokenStore` | files, cache and lock of the tokens, their issuance, introspection, cleanup, restarts and failures; the refinement of `TokenBook` |
| `MCTokenStore` | `TokenStore` for TLC, with its symmetry |
| `TokenStoreProofs` | theorems about `TokenStore`, the refinement among them |
| `Authorization` | the abstract server: grants, tokens and the order of the protocol between them |
| `GrantTokens` | extends `GrantStore` and instantiates `TokenStore`: the server as a whole; the refinement of `Authorization` |
| `MCGrantTokens` | `GrantTokens` for TLC, with its symmetry |
| `GrantTokensProofs` | extends the proofs of `GrantStore` and instantiates those of `TokenStore`: theorems about `GrantTokens` |
| `AuthorizationProofs` | extends `GrantTokensProofs`: with one process, the refinement of `Authorization` |
| `SignedRequests` | extends `RSKeyStore`: key files, `sign curl`, a network, `VerifyRSProof` |
| `MCSignedRequests` | `SignedRequests` for TLC |
| `SignedRequestsProofs` | extends `RSKeyStoreProofs`: theorems about `SignedRequests` |

What follows says how state, steps and data of the modules stand for the code, module
by module: first `GrantStore`.

**State.** `disk[i]` is `grants/<i>.json` and `tmp[i]` the temporary file beside it:
no file, a truncated one (`Empty`), one that is no JSON (`Torn`), or a grant.
`mutex[p]` is `FileStore.mu` of process `p`. It is one holder and no readers:
`FindGrantByUserCodePending` takes the read lock around single file reads, which
are single steps here and need the lock to be free. `req[t]` is the request that
goroutine `t` serves: the handler, the store call it is in, its next step and the
copy of the grant it has. `fd[t]` says which file the descriptor of a writing
goroutine is open on: it follows the file, not the name, when the other process
renames it. `minted`, `told` and `entered` record what the outside world has
seen: tokens, final answers, user codes typed in.

**Steps.** A call of the store takes its lock, reads the file and decides in one
step (`MarkCodeVerified`, `ApproveGrant`, `DenyGrant`, `GetGrant`, `CreateGrant`); if
it writes, it keeps the mutex through `OpenTmp`, `WriteData` and `RenameTmp`, the
system calls of `writeGrant`. The read and the decision need no finer steps: the
decision touches nothing shared, and a write of the other process between the
read and our `OpenTmp` is an interleaving the model has. The step of a call that
returns includes what the handler does next: answer, or enter the second call.
`WriteFails` makes any of the three system calls fail, `RenameFindsNothing` is the
rename of a file the other process has renamed away. `ReadFails` is a file or a
directory that is there and cannot be read: the call returns early. A scan passes such a file
over, like one whose code does not match (`ScanGrant`). A process dies in `Crash`:
its goroutines and mutex are new, the files stay.

**Data.** A grant has its status, `CodeVerified`, user code, requested and approved
access, subject and expiry. The continuation token is the Boolean "the right one or
not" of a request. Users' codes are drawn from a set without regard to the codes in
use, as `RandUserCode` does.

**Resource server keys.** A *slot* is a tenant and a key (its thumbprint). `cache[s]` is the
entry of `RSKeyStore.cache`, `file[s]` the record's own file, `saving` the save of the
goroutine that holds `RSKeyStore.mu`, from the change of the cache (`RegisterKey`,
`DeactivateRSKey`) to the return of `os.WriteFile` (`Truncate`, then `Fill`), which fails at
either step in `SaveFails`, or when the file is closed, after it was written.
`Restart` is a new process: its cache is what `loadFromDisk` can read and parse; it
skips the files whose reading fails. The lookups change nothing and are operators: the *set* of
what they may answer, because they range over Go maps, whose order is any. A record
has its kid, whether it is active, and whether the JWK is public: `RegisterKey` takes a
private one as well, and the lookups then pass over it or fail. `expected[s]` is what
callers may count on: the record of the last successful call, or, after a call that
failed or died, also the one it asked for, or none; and after a restart that could not
read the file also none, for the next restart may find it again. `KeyBook` keeps
three things of this: what lookups see (`key`, which is `cache`), what a restart may find (`may`, which
is `expected`), and which slot has a call under way. A call changes `key` at once, and its
success (`Succeed`) leaves a restart no choice.

**Tokens.** `made[k]` is the record that `IssueOpaqueToken` made for token `k` (a token
stands for its hash, by which alone the store knows it), `file[k]` its file, `cache[k]`
its entry in memory. `lock` is the goroutine that holds the write lock of the store from
one step to the next; a read lock is needed within single steps only, which ask for `lock`
to be free. `req[t]` is an issuance, an introspection or a revocation. An issuance makes
a token for one access after the other (`MakeToken`), and stores each in three steps of
`Put`: truncate, write, cache (`OpenFile`, `FillFile`, `CacheRecord`). A failed write ends the
issuance with an error (`PutFails`): the tokens before it stay in the store and the client
gets none. `GetByHash` reads the cache or else the file; in the second case it unlocks,
locks for writing (`FillCache`) and once more for reading (`ReturnFill`) before it returns.
`Answer` is the verdict of `Introspect`, at the time on the clock then. `CleanupExpired` is
one step because it holds the write lock throughout; nothing in the repository calls it
or `Revoke`, but the store offers both. `Revoke` is two steps of which the second does
not end: at "stuck" it holds the write lock and waits for the read lock. `Restart` loads
what can be read, and may fail to read some files.
`given` and `gone` are what the outside has seen: the tokens clients were given, and the
queries that were answered with "inactive".

The introspection handler is modelled with the fields its type has. As wired by the
router, it has no registry, so every well-formed request of an identified server panics
(`introspect.go:82`), before the token is looked up, and is answered with 500; and it has no grant
URL, so no token would be active. No caller of the issuance
binds a token to a key; that field is left out.

**Grants and tokens.** `GrantTokens` has the state and the actions of both stores, taken over
as they are, and says how the handlers join them. A goroutine of the server is busy
in one store at a time: `Accepts` and `Handles` are the requests of `GrantStore` up to
the issuance, `Introspect` those that concern tokens only. `/continue` goes from one to
the other. `StartIssue` is its call of `IssueToken` with the approved access of the grant as it
*was read*, `IssueOpaqueToken` and `StoreToken` make and store a token for each, and with
the last one `TokenStored` ends the request; `IssueRefused` is an empty approval or a `Put`
that failed. `Passes` is one clock for both stores, and in `Crashes` the server's death takes
its requests to both along, while the playground's leaves the tokens alone. Nothing calls
`Revoke` or `CleanupExpired`, so they are no steps here. A record names its grant and its subject
(`InstanceID`, `Sub`); `TokenStore` leaves the two out, because the store only
keeps them, and `source[k]` has them here, with what had been said about the grant
when the `/continue` came. `consents` is whose approval of which grant somebody has sent.

`Authorization` is what this server promises: `GrantLifecycle` and `TokenBook` side by side,
without requests, copies, files, locks, failures or crashes, and the order between them. A
grant moves on (`Move`) when a call of the store has renamed its file; it is verified only by
a code that somebody sent to `/device/verify` (`EnterCode`), and approved only for a subject
for whom an approval was sent (`Consent`). `Issue` is one turn of the loop in `IssueOpaqueToken`:
a token for one access of the approval, for its subject, to a client who came before anybody was told
that the grant is over. `Record` is the moment from which `GetByHash` finds a token, `Give`
the answer of `/continue`: tokens of one grant for all that its client requested, each of
which introspection knows or has expired. In the refinement `grant` is `disk`, and `book`
is what lookups find (`BookNow` of `TokenStore`); the other variables are the same. (The
package `internal/authz` is not meant; it is a stub.)

**Signed requests.** `jwk` and `pub` are the two files of a key pair, which `keys new` writes
one after the other (`KeysNew`, `KeysNewPublic`; it takes the thumbprint as the kid even if
`--kid` names another one). Key files with other kids come from elsewhere (`ImportKey`). A
signature is the record of key pair, algorithm and base; the cryptography is external,
and equality of two signatures is all that verification asks. A base maps every covered
component to its value, and carries the parameters. `SignBase` and `RequestBase` build it
from the command's arguments and from the request that arrives: `curl` omits a default
port from `Host`, and the server, which has no TLS, takes each request for an http one. The
values are what tells the two apart; case, order and quoting, in which the two agree with
each other, are left out, except that a quote in a kid cuts the parameters off (`Parsed`). The time in a
request is the number that `parseInt` makes of its digits (`Int64`), which wraps around.
Content digests are covered like any header: neither side compares them with the body.
A signed request stays in `net` and may arrive at any time, any number of times, and with its
method, its URL or its headers changed (`Receive`). `req[t]` is a request past the checks that
need no key; `Resolve` looks the key up. Requests that are refused change nothing, so the verdict
is the operator `Admits`. The actions of `RSKeyStore` are taken over as they are: its state
moves by registrations, deactivations, saves and restarts.

**Fault variants.** A definition whose name ends in `_F` is the one after it with a
plausible bug; no specification uses it. `PROJECT.json` says which property each of
them must break.

## 3. Runs

| Run | Instance | What it shows |
|---|---|---|
| `grant_tokens` | 2 server goroutines, 1 grant of 1 or 2 accesses, 1 token, 2 ticks, 1 failed operation of the token store, 1 crash | what introspection says of a token is true of its grant; given tokens are those requested; none is active that was asked for after a denial; the server implements `Authorization` |
| `one_process` | 2 server goroutines, 1 grant, 3 ticks, 1 failed read or write, 1 crash | the file store implements `GrantLifecycle`; a file is always readable; the mutex is its writer's; no token for a `/continue` that came after an answer of "denied"; no grant is undone |
| `two_processes` | 1 goroutine in each process, 1 grant, 2 codes, 2 ticks, 1 failed read or write, 1 crash | types, consistency of the grant, only its own code verifies it, no token after an answer of "expired" |
| `liveness` | 2 server goroutines, 1 grant, 2 ticks, 1 failed read or write | every request ends; a polling client is told that its grant is over |
| `decided_once` | 2 server goroutines, 1 grant | **violated**: an approved grant becomes denied |
| `issued_once` | 1 server goroutine, 1 grant | **violated**: a client that polls on is issued a second token |
| `verify_atomic` | 1 goroutine in each process | **violated**: `MarkCodeVerified` undoes a decision of the other process |
| `rs_keys` | 1 tenant, 2 keys of different curves, 2 kids, 1 failure of a save or a load, 2 restarts | keys are as callers were told; deactivated ones are gone, registered ones are found; the store implements `KeyBook` |
| `rs_active_keys` | 1 tenant, 1 key, 1 kid | **violated**: a deactivated key is found by its kid |
| `token_store` | 2 goroutines, 2 tokens, a grant of 2 accesses, 2 issuers, 2 ticks, 1 failed file operation, 1 restart | `TokenStore` implements `TokenBook`; given tokens are complete, durable and found; inactive ones stay so; the lock is its writer's; a revocation stops the store |
| `token_revoke` | 1 goroutine, 1 token, no faults | **violated**: `Revoke` waits for the lock it holds |
| `signatures` | 1 goroutine, 2 keys (P-256, P-384), 2 kids (one with a quote), 2 methods, 2 URLs, 2 ticks, 1 request, 2 calls of the key store, 1 failed save, numbers of 3 bits | only what was signed is admitted; what `sign curl` prints is |

**Bounds.** Two goroutines suffice for every race here: each property relates one
request to one other that decides, expires or overwrites the same grant. One grant
suffices where grants do not interact, that is everywhere except in the scan, which goes
on to the next grant when the code does not match: `two_processes` has a second code that
somebody may enter, and the scan then passes over the only grant; of two pending grants with one
code the entry verifies the one whose file comes first, and `OnlyEnteredCodesVerify`, which is proved
for any number of grants, says of both only that their code was entered. The
clock needs to pass the expiry once (`TTL` = 1 and one tick more; 3 ticks leave room
for a grant created late). `MaxFail` and `MaxCrash` of 1 put the failure at every
step once; a second one would only repeat it on the other goroutine. `MaxMint` caps
a counter only `IssuedOnce` reads: it is 2 there and 0 elsewhere. Ids are numbers because a scan visits them in order.

In `rs_keys` two slots are enough: they may share a kid, which is the only way in which
slots meet, and it does not matter to that whether they are in one tenant or in two
(`LookupRSPublicKeyById` merges the tenants, the other two lookups see one). The two
curves are treated differently by the lookups. One failure and two restarts allow a
restart in the middle of a save that follows a failed one, and another after it, or a
restart that misses a record and one that finds it again. The
server process crashes, not the machine: what `os.WriteFile` has written is kept.

In `token_store` two goroutines are an issuance and an introspection, two introspections
with the lock hand-over between them, or either beside a revocation. Two tokens are
one for each access of the grant, with a failure between them. A token lives for one
tick and the clock makes two, so that each expires, also one that was made late. `Issuer` has two members because
`Introspect` answers for one URL only. The failure may hit a write, a read, or a file at the
restart; the restart may come at any step.

In `grant_tokens` both goroutines do everything: one may continue while the other decides or
introspects. A grant lives for the tick it was made in (`TTL` = 0) and a token for one more,
so that within two ticks a token outlives its grant and expires. The one failure is of the
token store, because those of the grant store are in the runs of `GrantStore` and change
nothing about the tokens but through what is read. With one token, an
issuance that completes has one access, and one of two accesses stays unfinished or
dies with the server; several tokens in one answer are in `token_store`, and in the
theorem `GivenMeansRequested` for any number, as are the two processes in `ActiveMeansGranted`.

In `signatures` one request is enough because nothing in the verdict on one depends on
another; it may arrive any number of times. The two key types tell the algorithm apart that
`sign curl` takes by default from the one it can be told. One URL is a plain one, the other has
what the signer and the server disagree about, https and a default port. The sets of
components leave out the method, or add what the server can build (`@authority`), or what it
cannot (`@path`). The clock goes one tick past the window, which is `Skew` = 1 wide, and the
signer's may be one ahead. An int64 has three bits here (`Half` = 4, for 2^63), so that no clock
reaches its end, and other software may write the number 8 (`Written`), which wraps around to
the first moment. Two calls are two registrations, under the same kid or not, or one
and a deactivation. Restarts of the key store are in `rs_keys`, and in the theorems.

**Deadlock** is checked in the runs of `GrantStore` and `RSKeyStore`: a request may always
arrive at an idle goroutine, so a state without a step would be one where all goroutines
wait; a key may always be registered when no save is under way, and a save can always
go on. It is not checked in the runs of `TokenStore`, where a revocation does stop all
goroutines for good, which is the finding of `token_revoke`, nor in `grant_tokens` and `signatures`, where clock,
tokens, requests and calls are bounded and run out.

**Fairness.** Every goroutine that can take a step takes it: strong fairness for the
steps of a request, because a goroutine that waits for `sync.RWMutex` is not passed
over for ever. Time goes on (weak fairness of `Tick`). `PollingEnds` also assumes that
the client polls, as `app.js` does every two seconds (`startPolling`), and goes on doing so; arrivals of
other requests are not fair. It counts the answers to the client's own `/continue` only, not what
whoever denies the grant is told. `WriteFails` and `ReadFails` are part of a request's steps, so fairness
never forces a read or a write to succeed; what makes the client hear of the end is that not every
one fails (`MaxFail`). `token_revoke` assumes strong fairness of every goroutine's
steps in the same way: `Revoke` fails to return although everybody runs.

**What the violations mean.**

* `DecidedOnce` is the state diagram of the playground (`app.js:170-178`), where
  `approved` leads to `finalized` only. `DenyGrant` does not ask for a pending grant, so
  a second decision replaces the first. The model shows the trace: verify, approve,
  deny.
* `IssuedOnce` is the same diagram, in which nothing leads out of `finalized`. `/continue`
  leaves the grant approved, and `callContinue` does not stop the page's poll timer after
  a token, so the page itself is issued tokens until the grant expires.
* `ActiveKeysOnly` is the comment "returns the first active key with matching kid"
  (`store_rs_keys_fs.go:218`); the check of `Active` is commented out at line 227, and the
  router passes this lookup to the signature middleware.
* `VerifyIsAtomic` is the comment "mark verified (atomic transition in the store)"
  (`device.go:66`). The server reads the grant as pending, the playground denies it, and
  the server writes its copy back: the denial is lost and the grant is pending again.

* `RevokeReturns` is what `Revoke` says it does: "Mark as revoked", "Save back to disk"
  (`store_tokens.go:142,145`). It holds the write lock of the store's `sync.RWMutex` when it calls
  `GetByHash`, whose first step is to ask for the read lock of the same mutex. It never
  returns, and no later call of the store does. No endpoint calls `Revoke` yet.

`NeverTorn`, `NoTokenAfterDenial`, `StoreIsAtomic`, `NothingUndone`, `NoActiveAfterDenial` and
`ServerIsAtomic` are checked for one process because two break them, in the way of `VerifyIsAtomic`.

## 4. Proofs

`GrantStoreProofs` proves, for any sets of goroutines, ids, codes and accesses and any
bounds:

* `TypeCorrect`: `Spec => []TypeOK`
* `GrantsStayConsistent`: `Spec => []GrantConsistent`
* `OnlyEnteredCodesVerify`: `Spec => []VerifiedByItsCode`
* `ExpiryIsFinal`: `Spec => []NoTokenAfterExpiry`
* `MutexIsTheWriters`: `Spec => []HeldByAWriter`

The assumptions are those named in `Grants` and `GrantStore`: ids and bounds are
natural numbers, the goroutines of the two processes differ, and the null values are
no grants.

None of the three safety properties is inductive: a copy of the grant in the hands of a
goroutine, or in the temporary file, can come back to disk at any time. The invariant
`IInv` therefore speaks of all the *copies* of a grant (`Copies`): they agree in code,
request and expiry (`CopiesAgree`), each is consistent (`CopiesConsistent`), "expired"
is said only after the time that all of them carry (`ExpiryTold`), and a copy is
verified only if its code was entered (`CodesEntered`). `Known` says that only
`CreateGrant` works on a grant without a file, and `Shapes` what a request has in
hand at each step.

The argument has two halves. Four lemmas look at the actions: `CopiesStep` (a step only
makes copies that are *derived* from old copies, or the first of a new grant),
`ToldStep`, `RequestStep` (how a request moves) and `FilesStay`. The preservation of
each conjunct of `IInv` then follows from these four without looking at an action
again. `HeldByAWriter` is inductive without help: a goroutine writes from the step that took
the mutex of its process to the one that gives it back, or both are lost in a crash
(`HolderMoves`).

`GrantOneProcessProofs` proves, under the hypothesis `PGThread = {}` (no goroutine of a
second process) and for any number of goroutines in the server, any ids, codes, accesses and bounds:

* `GrantsStayReadable`: `Spec => []NeverTorn`
* `DenialIsFinal`: `Spec => []NoTokenAfterDenial`
* `StoreImplementsLifecycle`: `Spec => StoreIsAtomic`, the refinement of `GrantLifecycle`
* `NoGrantIsUndone`: `Spec => NothingUndone`

Its invariant `OneInv` adds to `IInv` what the mutex is good for. `Locked` says that
whoever writes holds it, so the temporary file is the writer's own; `Drafts` that whoever
creates a grant is the only one, and that the grant has no file yet; `Current` that what is about to be
renamed is one `Change` of what is on disk, because what the writer read under the lock
cannot have changed since; `DenialStays` that a grant somebody was told is denied stays
so, or expires. The preservation rests on `LockedStep` (who writes), `DiskStep` (only a rename
changes the disk) and `ServeMoves` (what a handler does between the store's calls). For
the refinement, `ChangeIsLife` maps each `Change` to a step of `GrantLifecycle`, and
`StepIsLife` every step of the store to such a rename, a tick or a stutter. `NothingUndone` says
what this means for a grant: `ChangeContinues` shows that no `Change` takes anything back. That
an approval replaces no other rests on `GrantConsistent`, by which a pending grant has nothing
approved.

`RSKeyStoreProofs` proves, for any tenants, keys, kids and bounds:

* `NothingSurprises`: `Spec => []NoSurprise`
* `DeactivationHolds`: `Spec => []DeactivatedIsGone`
* `RegistrationHolds`: `Spec => []RegisteredIsFound`
* `StoreImplementsRegister`: `Spec => StoreIsRegister`, the refinement of `KeyBook`

The assumptions: the bounds are natural numbers, the null values are no records,
keys, slots or saves, and no P-521 key is also one of a supported type. `NoSurprise` is not inductive: a
restart brings back what the files hold, and the end of a save narrows what is expected
to what was asked. `RSInv` adds that what a restart would load is expected
(`FileExpected`), which a restart that cannot read a file keeps true only because it
allows for the record's return, and that the save under way writes what was asked and the cache has it
already (`SavingAsAsked`). The two properties of the lookups follow from `NoSurprise` in
every state, without looking at a step. In the refinement a registration or deactivation is
the abstract one at the moment the cache changes (`BeginIsChange`): `ChangeIsAsAsked` shows that
`Upserted` leaves the record that was asked for, whatever there was before. `SavingAsAsked`
makes the end of a save a `Succeed`, and `FileExpected` a restart a `Reload`.

`TokenStoreProofs` proves, for any tokens, goroutines, accesses, servers and bounds:

* `StoreTypeCorrect`: `Spec => []StoreTypeOK`
* `TokensAreDurable`: `Spec => []GivenAreDurable`
* `TokensAreFound`: `Spec => []HeldIsFound`
* `InactiveIsFinal`: `Spec => []NoRevival`
* `StoreImplementsBook`: `Spec => StoreIsBook`, the refinement of `TokenBook`
* `LockIsTheWriters`: `Spec => []LockedByAWriter`
* `RevocationStopsTheStore`: `Spec => RevocationStops`

The assumptions: the bounds are natural numbers, accesses and audiences are subsets of
the declared ones, the grant URL is one of the issuers, and the null values are no
records, goroutines or tokens. The invariant `TokenInv` says: every copy of a record, on disk, in
the cache or in a request, is the one made for its token (`AsMade`), which is why it does no
harm that `GetByHash` caches what it read before; a token that is being put is in one
goroutine's hands and unknown to everybody else (`Owned`); a token that somebody has seen is on
disk until it expires (`Kept`); the tokens of an issuance are those of its accesses so
far (`Complete`); an introspection that found nothing had nothing to find (`Looked`); and a
query in `gone` is one whose token is over or does not grant what it asks (`Remembered`). For the
refinement, `FoundIsFiled` shows that what a lookup finds and has not expired is exactly what the
files hold, whatever the cache has; `FilesStep` shows that each step enters one record
there, lets the expired ones go, or leaves it alone. `LockedByAWriter` is inductive over the types:
`LockMoves` lists how a step moves the lock. While a goroutine is stuck in `Revoke` the lock is
its own, so by the same invariant nobody else is in the middle of a `Put`, and every other step
of the store waits (`RevocationStopsTheStore`).

`GrantTokensProofs` proves, for any constants of the two stores:

* `SystemImplementsGrants`: `SystemSpec => Spec`
* `SystemImplementsTokens`: `SystemSpec => T!Spec`, the specification of `TokenStore`
* `ActiveMeansGranted`: `SystemSpec => []ActiveWasGranted`
* `GivenMeansRequested`: `SystemSpec => []GivenWasRequested`
* `DenialReachesTokens`: `SystemSpec => []NoActiveAfterDenial`, under the hypothesis
  `PGThread = {}`, because two processes can undo a denial

The first two say that the composition adds no behaviour to either store: every step is a step
of `GrantStore` or leaves its variables alone, and likewise for `TokenStore`. So their
invariants `IInv` and `TokenInv` hold here without a new proof, and so does every theorem about
them. What they cannot say is how the two hang together. `SystemInv` adds: `Consented`, a
copy of a grant that has a subject has one who sent its approval, and so does a request
that is about to approve; `Sourced`, every token that was made has a source, whose subject
consented, which nobody had been told is expired, and of which every copy asks for the
token's access and has a code that was entered (`Granted`); `Linked`, while a goroutine issues
tokens, it does so for the accesses of the grant it holds in the other store, and
those it made name that grant; `GivenFrom`, the tokens that were given together are of one
grant and cover its request.
The copies may since have been denied, expired or overwritten, and files of a grant may be
torn: what is proved of a token therefore refers to the parts of a grant that all copies share
(`CopiesAgree`) and to what callers have sent, and never to its present status. `LinkMoves` says how a
step moves the request of one goroutine in the two stores together, and `LinkedStep` rests on it. For denials, `Undenied` says that
no token has a source that was read after its denial was told, which is
`NoTokenAfterDenial` at the moment of issuance, and the source does not change afterwards.

`AuthorizationProofs` proves, again under the hypothesis `PGThread = {}`:

* `ServerImplementsAuthorization`: `SystemSpec => ServerIsAtomic`

The invariant is `AuthInv`: those of the two stores, of their composition and of one process,
with `Served`: while a goroutine issues tokens, the grant on disk may have been denied or have
expired since the goroutine read it, but its approved access and its subject are still those of the
copy, because it takes a pending grant to approve it again. Without `Served` the abstract
`Issue`, which reads the current grant, would not be allowed. Every step is then mapped to a step
of `Authorization` or to none (`StepIsProtocol`), along the parts it moves. A change of `disk`
is a move of the grant, whose code was entered or whose subject consented (`ChangeIsMove`, over
the refinement of `GrantLifecycle`; `HandlesIsMove`). What lookups find moves as the
files do (`BookIsFiled`, `BookStep`, over the refinement of `TokenBook`), so writing a token's
file is `Record` and caching it is nothing. Making a token is `Issue` (`IssueIsIssue`): `told = {}` follows from
`NoTokenAfterExpiry` and `NoTokenAfterDenial`. The step that answers a client is `Give`
(`StoredIsGive`), from `GivenFrom` and from what `TokenInv` says of given tokens. Failures and
crashes change nothing here (`OthersAreQuiet`).

`SignedRequestsProofs` proves, for any tenants, keys, kids, methods, URLs and bounds, restarts
included:

* `RequestsUseTheKeyStore`: `SigSpec => Spec`, the specification of `RSKeyStore`
* `AdmissionIsEarned`: `SigSpec => []AdmittedWasSigned`
* `SignaturesAreAdmitted`: `SigSpec => []SignedIsAdmitted`

The assumptions are those of `RSKeyStore`, with the types of the constants, and that the clocks stay
below 2^63 (`SignedAssumption`), so that a time which `sign curl` writes is read as it was meant. Every
step is one of `RSKeyStore` or leaves its variables alone (`SigStepIsRSStep`), so `RSInv` holds
here without a new proof (`RSInvStep`). `SigInv` adds what the key files hold, that a
request in `net` is one a signer makes (`NetInv`), and that one past the checks is an edit
of one in `net` and arrived in its window (`ReqInv`). `BasesAgree` compares the two bases: from equal ones follow
the same method, port and path, and for a plain http URL the signer's is the verifier's.

Left to TLC: the liveness properties (`EveryRequestEnds`, `PollingEnds`), which are out of the
prover's reach, and the counterexamples of section 3.

## 5. Plan

1. *(done)* `Grants`, `GrantLifecycle`, `GrantStore`, their runs and the theorems above.
2. *(done)* `Tokens`, `TokenBook`, `TokenStore`, its runs and theorems.
3. *(done)* `RSKeyStore`, its runs and theorems.
4. *(done)* `SignedRequests` over `RSKeyStore`, its run and theorems; introspection is part of
   `TokenStore`.
5. *(done)* `GrantOneProcessProofs`: for one process, the lock discipline, `NeverTorn`,
   `NoTokenAfterDenial` and the refinement `StoreIsAtomic`.
6. *(done)* `GrantTokens`, the two stores composed, its run and theorems; the lock discipline with
   two processes (`MutexIsTheWriters`).
7. *(done)* `Authorization`, the abstract server, refined by `GrantTokens`.
8. *(done)* `KeyBook`, the abstract key store, refined by `RSKeyStore`; the lock discipline of
   `TokenStore` and the reach of a revocation.
9. An abstract verifier, which admits what was signed and registered, refined by `SignedRequests`.

## 6. Not modelled

* The event hub: `Broadcast` has no caller, so the hub only ever adds and removes
  subscribers.
* Logging, tracing and cache headers: they change no state but a counter of polls that decides
  what is logged.
* What `curl` and a shell change inside the path, the query or a header of a printed command: `curl`
  removes dot segments, and a shell expands a `$` in the quotes of `%q`. The values of paths and
  headers pass the model as they are, so `SignedIsAdmitted` speaks of values that neither changes.
* The single items of an access in introspection: `CanSatisfyAccess` compares type and id of each
  item of a list (`introspect.go:183-193`), the model one access as a whole, as a token has one.
* The bases of RFC 9421: signer and verifier both write `@method` in lower case and order the
  parameters in their own way. They agree with each other, which is what is modelled; other software
  has to do as they do.
* Several signatures in one header, nonces, and the binding of a token to a key, which nothing sets.
* HTML and JSON formats, the cryptography of signatures (external), CORS, discovery
  documents, version output, configuration files, and the stubs under `authz`, `di`, `policy` and
  `sign/verify.go`.
