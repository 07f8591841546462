# maubase: a TLA+ verification project

maubase is a single-binary backend: customer accounts, an OAuth
authorization server, auto-REST over the deployment's own SQLite tables,
realtime events over WebSockets, file storage, an owner plane with an admin UI,
and schema migrations. This directory models the parts of it that keep state
and whose steps interleave, model-checks them with TLC on small instances, and
proves the central results for all instances with TLAPS.

Nearly every module rests on one fact about the code: `internal/db.Open` calls
`SetMaxOpenConns(1)`, so within a process **one SQL statement, or one
transaction, is one atomic step, and nothing else is**. A handler that runs
three statements is three steps, with any other request between them.

## Inventory

| Part | State it keeps | Operations | What is hard about it | Module |
|---|---|---|---|---|
| OAuth token store (`internal/oauth/storage.go`, `handlers.go`, `provider.go`) | authorization codes, PKCE rows, access and refresh tokens, consents | authorize, exchange, rotate, replay and reuse responses, revoke, sweep a subject | requests are several statements; fosite's transactional interface is not implemented | `OAuthTokens`, `OneTimeCredential` |
| Realtime (`internal/realtime`) | subscription map, one buffered channel per connection, the Redis relay | connect, subscribe, publish, close, relay | sends happen outside the mutex; two goroutines per connection; a lossy, echoing relay | `RealtimeBroker` |
| Customer accounts (`internal/auth`) | users, sessions, reset tokens, social identities | sign-up, login, reset, social callback, delete, purge | check and insert are separate statements | `Accounts` |
| Owner plane (`internal/ownerauth`, `internal/audit`) | owners, their sessions, the audit log | bootstrap, login, create, delete, purge | the last-owner rule; restarts; the caller's role is read before it is used; the audit entry is a further statement | `OwnerPlane` |
| Auto-REST (`internal/restapi`) | rows, `_policies`, the registry pointer | create, update, delete, erase, reload | the event of a write is gated by what a later statement reads | `Collections` |
| File storage (`internal/storage`) | bytes on disk, rows of `files` | upload, download, delete, erase | two stores and no transaction across them; crashes | `FileStorage` |
| Application migrations (`internal/db/migrate.go`, `cmd/maubase/migrate.go`) | `schema_migrations`, the schema, the directory | new, up, down, redo, to | several processes; a command is many transactions; two orders (name, age) | `Migrations` |
| Account erasure (`handleDeleteAccount`, `handleDeleteUser`) | the account, its rows, files and tokens | erase, fail, ask again | four calls into four components, no transaction; the account's clients go on meanwhile | `Erasure` |
| Signing keys (`internal/oauth/keys.go`, `session.go`) | signing keys and which is current, the HMAC secret, each process's copy of it | first start, restart, authorize, sign | several processes on an empty database; a grant stores the key's name, its tokens are signed later | `SigningKeys` |
| Rate limiter (`internal/ratelimit`) | a bucket per address | allow, sweep | window edges; the clock is read before the mutex is held | `RateLimiter` |
| A serving process (`cmd/maubase/main.go`, `internal/server`) | what it reads at its start, what it loses at its end | start, stop, serve | restarts and several processes on one database | `ServerProcess`, composing the two above |
| JavaScript SDK (`sdk/js`) | stored tokens and client (shared by all tabs), the pending authorization (one per tab) | connect, callback, refresh, disconnect | overlapping calls, several tabs, answers that never arrive, against the server's reuse detection | `Sdk` |
| Admin UI, routing, discovery, email, configuration, scaffolding | none of their own | call the parts above | | mapped where they call them, otherwise not modelled |

How they interact: account erasure (`handleDeleteAccount`, `handleDeleteUser`)
calls Auto-REST, file storage, the token store and accounts in that order and
without a transaction; each of those modules has the erasure as it sees it, at
its own statements, and `Erasure` puts the four together with what the account
still does meanwhile. `Sdk` is the client side of the token endpoint of
`OAuthTokens`. Auto-REST hands every event to the broker, and its
`Audience` is the broker's owner gate. The bearer middleware authenticates
against the token store; where a module depends on that, it allows a token
issued behind a sweep to go on working, because `OAuthTokens` shows that it can.

## Modules and how they correspond to the code

`PROJECT.json` maps each definition to its lines. In every module `req[p]` (or
`cmd[p]`, `pc[p]`) is one handler's goroutine: the name of its next statement
and the values it read earlier. A definition headed "Fault:" is not part of the
specification: it is the form a plausible bug would give the definition after
it, kept to show that the properties notice.

* **OAuthTokens** has the five tables of the grant flow and one action per
  storage call, in the order fosite makes them (external). A request that stops
  early, whatever the reason, is `Abort`. **OneTimeCredential** is the abstract
  promise: a credential is spent once and pays for at most one successor.
  `RefreshTokensAreOneTime` is the refinement.
* **RealtimeBroker** has Go's view: the mutex-protected operations are atomic,
  each channel send after the snapshot is a step, a full buffer drops, a closed
  channel panics. A write pump that took an event is in the write until
  `WriteReturns`, which is the peer's doing. Processes share nothing but the relay, which drops, delays
  and returns a process its own publications.
* **Accounts** abstracts a password to its version and an address to a model
  value. `ResetPassword` is one transaction and one step; login, sign-up,
  reset requests and social callbacks are several.
* **OwnerPlane** includes process restarts, bootstrap's count and insert, the
  role middleware, `DeleteOwner`'s transaction and the audit statement after it.
* **Collections** has one owner-scoped table. Rules are looked up once per
  request and may be stale by its next statement. Keys may be chosen by clients.
  Customers, the data browser (`Admin`) and erasure write it. The data browser's
  UPDATE goes on to fetch and publish when it matched nothing (`UpdateMisses`).
* **FileStorage** has a directory and a table. Every disk operation and every
  statement is a step; each may fail and the process may stop after any, and the
  body of a download may break off. The
  table is a set of ids and `rank` their order of insertion, which is what
  `ORDER BY created_at, rowid` sorts by: a deletion works on `First` of the ids
  it still has to remove.
* **Migrations** has files by their place in filename order, records with
  one-second timestamps, and the schema as the set of files in effect with the
  order they ran in (`ranBefore`). Commands of several processes interleave
  between per-file transactions. What a command still has to do is a set of
  entries, worked off from the oldest or the newest by `Older`, which is
  `ORDER BY applied_at, version`; a listing of the directory has no times, so
  the same order is `sort.Strings`. `inOrder` remembers whether every file
  that came sorted last and commands did not overlap; `ordinary` is the same but
  for files of `new` whose number outgrew its padding (`NewOutgrowsPadding`).
  `outcome` is the command the last step completed, if nothing disturbed it.
* **Sdk** has what a browser keeps: localStorage is shared by the tabs,
  sessionStorage is a tab's own. A call runs to its next `await` in one step;
  its request then reaches the server, or does not, and its answer is heard, or
  is not (`NetworkFails`, `CloseTab`, `Approve` and `Deny`, which load another
  page). A flow number stands for the verifier and the state `connect()` drew.
  The server's side is the part of `OAuthTokens` a client can observe: a
  credential is read in one step and spent in another.
* **SigningKeys** has the start of a process as the statements of
  `EnsureHMACSecret` and `EnsureKey`; a secret is named after the process that
  drew it, a key by its number. `HandleToken` stands for the exchange and every
  later refresh. **RateLimiter** keeps readings of the clock as ages, so that
  time needs no bound; `Arrive` reads the clock, `Allow` has the mutex.
  **ServerProcess** composes them: the keys outlive a process, its limiter
  does not.
* **Erasure** has one account and an item of each kind. `Fail` is any of the
  erasure's calls failing with part of its work done. `behind` and `missed`
  remember what was committed where the successful erasure had already been.

## Runs

| Run | Instance | Shows |
|---|---|---|
| `oauth_tokens` | 2 requests, 1 grant, 5 signatures | refresh tokens are one-time, chains have one active token, a token exists only beside a spent code and a spent predecessor, dead grants stay dead, an undisturbed sweep leaves nothing |
| `code_redeemed_once` (violation) | 2 requests | two exchanges that both read the code active both mint tokens (TOK-03) |
| `broker` | 2 processes with the relay, 2 connections, 2 events, buffer 1 | the map matches the subscribers, owner gates hold across the relay, no event twice, a publication never waits for a slow client, a closed connection's goroutines end once its writes return |
| `broker_panic` (violation) | 1 process | a connection closed between snapshot and send makes the publisher panic |
| `accounts` | 2 requests, 2 addresses, 1 identity, 2 accounts, 1 session, 2 reset tokens | reset tokens are one-time, no credential written before a reset survives it (the other reset token neither), no callback changes whom it is signed in as, identities stay linked |
| `owner_plane` | 2 requests, 3 accounts, 2 sessions | there is always an owner once there was one, bootstrap fires once, every account traces back to an owner, the trail records only what happened |
| `collections` | 2 requests, 2 customers, 1 key, 2 rule sets | owner-ruled writes are the owner's, events of writes reach exactly the readers of the row (everyone, if it has no owner and owners read), erasure misses only what was given to the account meanwhile |
| `files` | 3 requests, 2 users, 2 files | listed files are whole, bytes are discoverable, downloads are own and whole, an erased account's bytes are gone, each up to the exceptions the property names |
| `migrations` | 2 processes, 2 files, 3 seconds, n up to 2 | records match the schema, the applied files are a prefix while files come in order, down, redo and to do what they document, to the second `applied_at` has |
| `sdk` | 2 tabs, 2 calls in flight, 2 clients, 2 authorizations, 2 refresh tokens each | the SDK ends its own grant only by overlapping refreshes or a lost answer, stores no rotated-out token otherwise, exchanges a code with its own verifier and client |
| `server` | 2 processes, 1 grant, 2 keys; 2 attempts at a time, 2 addresses, limit 2, window 2 | one HMAC secret for all, tokens verify unless two first starts raced, at most twice the limit in any window's length, an honest Retry-After |
| `erasure` | 3 requests, 1 row, 1 file, 1 token, 1 failure | what an erasure leaves was committed behind it; an erasure that is asked for completes |

Bounds. The hazards are races of two requests on one object, so two requests
and one object of each kind reach them; a third request is there where a third
party matters (an erasure and a deletion during an upload, two erasures and a
writer). Five signatures are
a pair from a code, its successor pair and the start of a third. Two users or
owners are what it takes to tell "own" from "any". Two migration files tell
older from newer under two processes; `Migrations_serial.cfg` is the same
question for one process and three files, one of them irreversible, so that
a target has files on both sides. Two connects that both register, and a
token refreshed once, are what `sdk` needs two of each for. `server` has a
window of two ticks so that an attempt can be inside it, at its edge and past
it. The one failure in `erasure` may come at any call, with any part of its work
done; the retry after it is a fresh erasure of what is left.
Two reset tokens let one stand while the other is redeemed. The provider of the
`accounts` run reports one address; the placeholder address of an identity
without one is reached in `Accounts_LosingCallbacksSignIn.cfg` and covered by
the theorems.
Every counter has a named bound (`MaxSig`, `MaxUser`, `MaxSession`, `MaxTok`,
`MaxOwner`, `MaxAudit`, `MaxClock`, `MaxRevert`, `Cap`, `MaxClient`, `MaxFlow`,
`MaxGrant`, `MaxToken`, `MaxKey`, `MaxStall`, `MaxFault`); a bound only ends a
behaviour, it never changes what a step does. Symmetry is used over requests,
users and ids, never where a run checks liveness. `CHECK_DEADLOCK FALSE` is set
for the broker and the erasure only: when all events are out and all
connections are closed, or the account and its tokens are gone, there really is
nothing left to do. Every module has a type invariant (`TypeOK`, `SdkTypeOK`,
`MigTypeOK`); only the broker's is checked by a run, for its bound on the
buffers. Each is a theorem.

Fairness. Two runs assume any. The broker's: weak fairness of the sends of a
publication that has begun, which block on nothing (`select` with a default), and
of a closed connection's write pump between its writes and of its teardown, which
wait for nothing but the closed channel and each other, so the Go scheduler runs
them. A write is different: `conn.WriteJSON` has no deadline and waits for the
peer. `WriteReturns` has no fairness in the specification, and
`ClosedConnsFinish` takes it as its own hypothesis. Clients are not assumed to
read, nor the relay to deliver. The erasure's: weak fairness of each handler that is
under way (straight-line code again), of signing in again once an erasure was
asked for, and strong fairness of sending the request: a customer who keeps
asking gets through one of the times they are signed in and a request slot is
free. Weak fairness would not do, because a sign-out or other requests may
come between again and again. Failures are finitely many (`MaxFault`).

## Proofs

Eight modules hold the proofs, beside the modules they are about;
`OAuth_proofs` is about both sides of the token endpoint and `Operator_proofs`
about the two things an operator does, with no state shared. Each theorem is
for any number of requests, accounts, rows, files, grants, connections and
processes and for any bounds; where the table names a property, a run checks
the same definition on its small instance.

| Module | Proved of every behaviour |
|---|---|
| `OAuth_proofs` | of `OAuthTokens`: `TypeOK`, `OneActivePerChain`, `TokensSpendTheirSource`, `QuietSweepLeavesNothing`, `DeadGrantsStayDead`, and that refresh tokens implement `OneTimeCredential` |
| | of `Sdk`: `SdkTypeOK`, `ExchangesMatch`, `StoredTokenWorks`, `OnlyRacesKillGrants` |
| `RealtimeBroker_proofs` | `TypeOK` (no buffer exceeds its capacity), `SubscribersAreOpen`, `EntriesMatchSubscribers`, `AtMostOnce`, `OnlyOwnersSeeOwned` |
| `Accounts_proofs` | `TypeOK`, `CredentialsAreOfThisPassword`, `NoSilentSwitch`, `OneAccountPerEmail`, `NothingOutlivesItsAccount`, `IdentitiesStayLinked`, and that reset tokens implement `OneTimeCredential` |
| `Operator_proofs` | of `OwnerPlane`: `AlwaysAnOwner`, `BootstrapFiresOnce`, `AccountsTraceBack`, `TrailIsTruthful`, `SessionsHaveOwners` |
| | of `Migrations`: `MigTypeOK`, `RecordsMatchSchema`, `AppliedIsAPrefix`, `DownTakesTheNewest`, `RedoRestores`, `ToLandsOnTarget` |
| `Collections_proofs` | `TypeOK`, `OwnedWritesAreTheOwners`, `WriteEventsFollowReads`, `ErasureIsComplete` |
| `FileStorage_proofs` | `TypeOK`, `ListedFilesAreWhole`, `BytesAreDiscoverable`, `DownloadsAreOwnAndWhole`, `ErasedBytesAreGone` |
| `Erasure_proofs` | `TypeOK`, `NothingIsOrphaned` |
| `ServerProcess_proofs` | `TypeOK`, `OneSecret`, `TokensVerify`, `RetryAfterIsHonest`, `TwiceTheLimit` |

Hardly any of these is inductive as it stands. What each needs beside itself,
and why (TLC checked each invariant on the run's instance before it was proved):

* `OAuthTokens`. Nothing in `OneActivePerChain` keeps a request that is about to
  insert a successor apart from another on the same chain. `IInv` adds that
  signatures are unique and older than the next one, that a chain is *held* once
  (by an active row or by one request past its rotation, never both), and that a
  request past a rotation holds a token that is spent. Most actions only take
  rows away; one lemma (`TakingAwayKeepsInv`) serves them all, and the three that
  add something have a lemma each. Whoever is about to mint, or has minted, does so
  for a grant whose code is spent (`CodesFit`). A quiet sweep (`QuietFits`) leaves behind it,
  table by table, nothing of its scope, and nothing is being issued for it.
* `RealtimeBroker`. `BInv` follows an event's path: a connection still on a
  publication's list has not been offered it, an event not yet relayed has
  reached no connection of another process, a relayed one is pending at most once
  per process, and what was delivered was gated.
* `Accounts`. `AInv` says what a request in flight carries (a callback made while
  signed in keeps to its own account; one that makes an account is anonymous),
  that ids and tokens are handed out once, that a spent token's row is used, and
  that every password but the first cost a token, which bounds the versions the
  refinement needs. The refinement maps a reset token to a credential and the
  password version it set to its yield.
* `OwnerPlane`. `OInv` keeps what was true of a caller when the role middleware
  looked, in a form a deletion does not undo (the account *was made* with the
  role); that ids never come back, so the target of a deletion's entry stays
  gone; and that a start-up which counted no accounts is right, since no request
  runs before it has finished.
* `Collections`. `CInv` ties the authority and the gate a request carries to the
  statement it stands before, and says of an erasure past its wipe that the
  account's rows are late ones.
* `FileStorage`. `FInv` follows a file: drawn before it has bytes, whole before it
  has a row, in nobody's hands but its upload's until then; a deletion that is
  about to remove a row has removed the bytes; an erasure still has the account's
  rows before it, but for late ones. That the order of uploads is strict
  (`OneFirst`) is why a deletion removes the row of the very bytes it removed.
* `Sdk`. `StoredTokenWorks` says nothing of the tokens on their way. `SdkInv` says
  where a credential is: a code in one tab's location or with one call, and no
  token of its grant in the browser yet (`CodeHeldOnce`); of a grant that is not
  excused, the working refresh token with at most one refresh, which presents it
  or brings its successor (`TokenHeldOnce`); and that an authorization and every
  grant it led to are of one client (`FlowsFit`). So a presented token is
  replayed only after an overlap or a lost answer.
* `Migrations`. `MigInv` is four layers, each proved from those before it: types
  and which command may be where; the records are the schema, in an order the
  schema has (`RecordsFit`); while files come in order the work before a command
  has no gaps and its ages run with the names (`InOrderFits`), so that the oldest entry
  is the first file, the newest record that of the last applied file, and the
  applied files stay a prefix; and a command that is alone knows the records:
  what it found, less what it reverted, with what it applied (`AloneFits`). That
  a down leaves nothing newer follows from its worklist being upper in `Older`
  and from times that never run against the order of execution (`LeftStanding`);
  what they leave open is one second. A
  redo's worklist is an upper segment of what it found, which is why reapplying
  restores the order. `to` takes as many by age as it counted by name; that they
  are the same files (`LandsDown`) is a count: were one of them not beyond the
  target, all that are would be newer and taken as well.
* `Erasure`. `EInv`: where an erasure has been, all there is was committed behind
  it or is on its list.
* `ServerProcess`. A process that drew a secret has shown it to nobody, one past
  that point has the row's (`SecretInv`); until two first starts race there is at
  most one key and nobody about to create another (`KeyInv`). For the limiter, an
  address waits exactly until its window ends, so no sweep takes a window with
  an answer to honour (`PromisesKept`); and the admissions of the last `Window`
  ticks are those of the window that runs, which admitted no more than it
  counted and only while it ran, and of the one before it (`WindowsFit`).

The assumptions are the named ones of the modules: the constants have their
types, markers such as `Nobody` are not members of the sets beside them, and
four sets are not empty (`IPs`, the keys of `Collections`, its declared rule
sets, the migration files), since an idle record holds some member of them. The theorems rest on no
unproved fact.

`SubscribersAreOpen`, `OneAccountPerEmail`, `NothingOutlivesItsAccount` and
`SessionsHaveOwners` are theorems and in no run: the last three say what a
UNIQUE constraint or a foreign key of the schema says, and the other proofs
need them.

Only model-checked: liveness (`PublishReturns`, `ClosedConnsFinish`,
`ErasureCompletes`), since the prover does not do fairness. Every safety
property of a passing run is a theorem.

## Promises that do not hold

Each of these is a definition of a module, violated by what the code does.
The first two are runs of `PROJECT.json` and findings there; the others are
checked the same way, by a configuration named after the promise or, where
several share an instance, by `Collections_promises.cfg`,
`Migrations_promises.cfg` and `OAuthTokens_promises.cfg`, for which TLC reports
every violation with
`tlc -continue -config Collections_promises.cfg MCCollections`.

* `CodeRedeemedOnce` (OAuthTokens): invalidating a code ignores the row count.
* `NoPublicationPanics` (RealtimeBroker): send on a channel closed meanwhile.
* `TeardownNeedsNoPeer` (RealtimeBroker): `writePump` "exits once Broker.Close(c)
  closes c's event channel", but not from inside `WriteJSON`, which has no
  deadline. `readPump` also returns for a frame that is no JSON, with the socket
  open; `conn.Close()` comes after `wg.Wait()`, so a peer that then does not read
  keeps both goroutines.
* `ToKeepsItsTarget` (Migrations): `to` counts by filename and reverts by age.
* `PrefixThroughOrdinaryUse` (Migrations): `MigrateDirTo`'s comment says the
  applied files are a prefix, "always true through ordinary use of
  new/up/down/redo"; `new` pads to the digits of the highest file, so `10_`
  after `9_`, or `10000_` after `9999_`, sorts before what is applied.
* `DownUndoesTheLast` (Migrations, MIGCLI-15): of two files applied in one
  second, the lower name last, `down 1` reverts the higher one.
* `ReuseKillsGrant` (OAuthTokens, TOK-07): a rotation in flight inserts its
  tokens behind the reuse response.
* `SweptGrantsHaveNoTokens` (OAuthTokens): so does a token request in flight
  during a subject's sweep, and the tokens outlive the account.
* `NoSessionOfAnOldPassword` (Accounts, PWRESET-03): a login that has checked
  the old password when the reset commits opens its session after it.
* `LosingCallbacksSignIn` (Accounts): of two callbacks for one new identity the
  second to link fails instead of signing in.
* `NewAccountMeansCreated` (Accounts): a callback that lost the address to a
  sign-up reports a new account all the same.
* `DeletionsAreRecorded` (OwnerPlane): the audit entry of a deletion is lost
  when the request ends between the commit and the entry.
* `EventsFollowReads` (Collections, RT-05): a deletion whose owner lookup finds
  nothing publishes with the empty gate, which the broker takes for everyone;
  the comment in `handleDelete` says it "just won't reach anyone".
* `UnownedRowsAreUnheard` (Collections, RT-05): where owners read, nobody may read
  a row whose owner is NULL; `ownerGateValue` gives its event the empty gate, and
  it goes to everyone.
* `EventsFollowCurrentRules` (Collections): `spec/realtime.md` has an event go
  only to who "could GET that row through the ordinary REST endpoint right now";
  the rules are those its request started with.
* `DeletionsReachReaders` (Collections, RT-04): erasure gates its events by the
  subject even where reads are shared.
* `AnswersAreOwn` (Collections): the row a write answers with is read back by
  key alone.
* `NoRowOfAnErasedAccount` (Collections, IDNT-10) and `ErasureLeavesNoBytes`
  (FileStorage, STOR-08): a create or an upload under way during the erasure
  leaves its row, or its bytes, behind.
* `NothingIsLeft` (Erasure): the same for the whole erasure; `DeleteOwned`'s
  comment says "no application data is left behind, orphaned". A token minted
  behind the sweep goes on writing rows for an account that is gone.
* `RefreshIsTransparent` (Sdk): `getAccessToken()` is documented as
  "transparently refreshing"; two calls that find the token expired both redeem
  it, and a refresh whose answer is lost is presented again. Either way the
  server sees reuse and revokes the grant.
* `DisconnectLasts` (Sdk): a refresh in flight stores its tokens again after
  `disconnect()`.
* `TokensNameTheirKey` (SigningKeys): `session.go` says a token "stays
  verifiable there across a key rotation"; a token of a grant that was
  authorized before the rotation is signed with the new key and names the old
  one. Today the only rotation there is comes from two first starts at once.
* `AtMostLimitPerWindow` (RateLimiter): the comment's "at most Limit attempts
  per Window" counts from the window's start; the end of one and the start of
  the next together admit up to twice that.

## Not modelled

* The contents of scopes, claims, rows, emails and pages; hashing and JWTs.
* Reads that keep nothing (listing, export, status, diff, discovery): they are
  in the map only where a property is about what they see.
* Table creation in the admin UI and what a statement typed into SQL Studio
  does, except that it may change `_policies` and reloads the registry.
* Loss of written but unsynced bytes when the host, not the process, stops.
* A clock that runs backwards, which would reorder `applied_at`.
* The SDK's `AuthClient` and `CollectionQuery`: one request each, no state.
  A `TokenStore` other than localStorage is the same model with one tab.
* The checks on the fields of a client registration, discovery documents,
  social providers' HTTP exchanges, the email sender, configuration, project
  scaffolding and `internal/testserver` (the wiring of `run` for tests): each is
  one pass over its input, with no state that two steps could disturb.

## Extending it

The parts of the system with state of their own are modelled, and every safety
property a run checks is proved. What would come next follows the code: a
property that a `Promises that do not hold` entry states becomes an invariant to
prove once the code is changed to keep it (a conditional update for the
authorization code, a sweep that also marks the subject, a refresh shared by the
tabs), and the counterexample's actions are the ones to change first.
