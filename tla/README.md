# A TLA+ model of auth-service-v2

The service authenticates users: it registers accounts, logs them in by password or
through Google, hands out short-lived JWTs and single-use refresh tokens, and keeps one
session per device. Its state is in PostgreSQL (accounts, sessions, refresh tokens,
verification tokens) and Redis (idempotency records, rate-limit counters, OAuth states,
raw verification tokens). Handlers keep nothing between requests, so everything that can
go wrong lies in how the statements of concurrent requests interleave over that shared
state, in what a failure leaves behind, and in time.

Paths below are relative to `src/`; `internal/` is dropped where it is clear.

## The system

| Component | State | Operations | Correct when |
|---|---|---|---|
| Session issuance (`app/auth/sessionissuer`) | `sessions`, `refresh_tokens` | `IssueForDevice` | one unrevoked session per user and device; a superseded session is replaced, never just lost |
| Refresh rotation (`app/auth/refresh`) | same | `Handle` | a token is exchanged once; a replay ends its family; a rejection changes nothing |
| Logout (`app/auth/logout`) | same | `Handle` | once answered, nothing the session ever minted can be refreshed |
| Transactions, repositories, SQL (`platform/postgres`, `queries`, `migrations`) | rows, locks, constraints | begin, statements, commit, rollback | each transaction is all or nothing, constraints are never hit by legal requests |
| Idempotency (`transport/http/middleware/idempotency.go`, `platform/idempotency`) | one Redis key per `Idempotency-Key` | claim, poll, run, save, release | a response answers only the request it was made for; a stored one ends the work under its key |
| Rate limiting (`platform/authattempt`) | Redis counters | `Check`, `RecordFailure`, `Reset` | bounded guesses per window, no lock longer than a window |
| Login (`app/auth/login`) | none of its own | `Handle` | limiter, verdict, account status and issuance in this order |
| Registration (`app/user/register`) | `users`, `email_verification_tokens` | `Handle` | one account per normalized email, with a token |
| Email verification (`app/user/verifyemail`, `resendverification`, `platform/verification`) | tokens, raw-token cache | verify, resend | consumed exactly when verified; resend sends a token that works |
| OAuth (`app/auth/oauthstart`, `oauthcallback`, `platform/oauthstate`) | Redis states, `oauth_identities` | start, callback | a state is used once; an identity is linked to one account |
| Accounts (`domain/user`) | `users.status` | `CanLogin`, `VerifyEmail`, ... | status changes are not lost |
| Process (`cmd/server/http`, `transport/http/server.go`, `router.go`) | the listener, requests under way | start, serve, drain, exit | a signal ends it and cuts no transaction of a request read before it |
| Connection pool (`platform/postgres`, `WithinTransaction`) | `DATABASE_MAX_CONNECTIONS` connections | acquire, begin, roll back | handlers never wait for each other in a circle; what they take they give back, whatever hangs |
| Health (`health`) | none | `GET /ready` | true, and of each dependency by itself |
| Configuration, crypto, audit, metrics, tracing, logging | | | see `PROJECT.json` |

They interact through the two stores, and through the pool of connections to one of them. Login and the OAuth callback both end in
`IssueForDevice`; refresh and logout work on the rows it created. The idempotency
middleware wraps login. Audit, metrics, tracing, logging and email are called after the
commit, and their errors are logged and dropped.

The hard parts are the overlapping transactions under READ COMMITTED (snapshots per
statement, re-evaluated `WHERE` clauses, row locks taken in different orders), the
device slot guarded by an advisory lock, failures between statements and at the commit,
the reservation that may expire under its holder, requests whose context dies in the
middle, counters that are read and written by separate commands, and dependencies that
hang while the process is told to stop. `PROJECT.json`
lists each hazard at its line.

## The modules

### Sessions and refresh tokens

* `SessionStore` holds the two tables and PostgreSQL as the handlers see it. `sessions`
  and `tokens` are the committed rows. A transaction writes to its private
  `sessionDraft` and `tokenDraft`, which `Commit` moves to the tables and `Rollback`
  drops. `sessionLock`, `tokenLock` and `slotLock` say who holds which row lock
  and which advisory lock. `scan` is what `RevokeFamily` still has to update: its
  snapshot is taken when the statement starts, each row is updated when its lock is
  free, and a row another transaction changed meanwhile is tested again
  (`FamilySnapshot`, `RevokeRow`). Sessions are named by the login that created them and
  tokens by the request that minted them, which is the freshness of the UUIDs.
* `IssueForDevice`, `RefreshRotation` and `Logout` are the three handlers, one action
  per SQL statement, with `pc` naming the statement that comes next. Code between two
  statements belongs to the action of the first.
* `SessionLifecycle` composes them: `Arrive` lets a request begin (a refresh or logout
  presents any token handed out so far, or one that never existed), `Fail` lets any
  statement fail, `CommitUnanswered` lets a commit be durable and unconfirmed,
  `DeadlockVictim` is PostgreSQL's detector, `Tick` passes time.
* `SessionLedger` is the abstract specification: a login, a rotation, a family revocation
  and a logout are each one step on the two tables. `SessionLifecycle!Ledger` maps the
  committed rows to it and `ImplementsLedger` states the refinement.

A session row keeps `created`, `expires`, `revoked`, its reason and its slot; a token row
its session, parent, `expires`, `consumed` and `revoked`. Ids of families are the ids of
their sessions, as in the code. Times are values of one `clock`; `NOW()` in a statement is
the time its transaction began, `time.Now()` and `clock_timestamp()` are the current one.

### Idempotency

`Idempotency` is the life of one key, for any number of calls. `record` is the value
Redis holds; a reservation has `answer = None`. A call polls (`claim`, `waiting`), runs
the handler with a reservation (`run`) or without protection (`runBare`), flushes the
response, then saves or releases. `Alive` is the request's context: it dies with the
client's connection or `RequestTimeout` after arrival, and a Redis or PostgreSQL call
with a dead context fails. `minted` remembers when a handler committed a session.
`record.by` and the `by` of a response name the call they come from; the code does not
store them and no guard reads them.

### Rate limiting

`LoginAttempts` is the part of `LoginService.Handle` before issuance, for attempts from
one client IP. `counter` holds the credential counters and `ipCounter` the IP counter.
Checks, counts and the reset are separate Redis commands, hence separate actions.
`standing` is a history variable: the failed attempts whose last count is in the present
counter.

### The login route

`LoginPath` puts the two together as `NewRouter` does: the `Attempts` of `LoginAttempts`
are the calls of `Idempotency`, which is instantiated with `Calls <- Attempts`. `Handle`
joins a step of the handler with what the middleware sees of it (`Ends`): nothing before
the answer, then a session (`LogIn`), a 401 or 429 that is stored (`Reject`) or an error
that is not (`HandlerFails`, which may have committed the session all the same). `Around`
and `Save` are the middleware's own steps and `PathTick` is one clock for both. All faults
of `Idempotency` occur (`LayerFaults`): Redis and PostgreSQL fail, a commit is not
confirmed, and in `Dies` a client goes away or the handler dies with its reservation in
place. A handler may be slow; once its context is dead every command of it fails
(`ContextDead`): a lookup is an error, a failure that cannot be counted is still a 401, a
right password is an error or a locked account. `Others` is what attempts with other keys
do to the counters, which is all they share with these calls. `stored` is history: when
the answer of a call was stored.

### Accounts, verification and OAuth

* `Accounts` holds what the four requests share: the rows of `users`, `vtokens`
  (`email_verification_tokens`) and `links` (`oauth_identities`), the raw-token cache
  (`cache`), the OAuth `states` and the emails sent (`mailed`). A request creates at most
  one account, token and link, so they bear its name. What these transactions write is
  fixed by what the handler remembers in `local`, so there is no draft: rows appear at
  the commit and `held` says which unique keys and rows the transaction keeps until then;
  another statement on them waits, then looks again. A handler that returns forgets its
  locals. An address is a mailbox and whether it is written in its normal form; that is
  all `NormalizeEmail` changes. `vouched` on a row is history: no column, no guard reads
  it.
* `Registration`, `EmailVerification` (verify and resend) and `OAuthLogin` (start and
  callback) have one action per statement. A refusal by validation or by the limiter is a
  choice at the first step; the session a callback ends in is `IssueForDevice` and its
  outcome a choice.
* `AccountLifecycle` composes them with failing statements, unconfirmed commits, a cache
  that forgets (`Evict`), states that expire and an operator who suspends accounts
  (`Suspend`, which no code of the repository does). A registration locks an email, a
  callback an email and then a subject, a verification a token and then its account: none
  wait in a circle, so the model has no deadlock detector.
* `AccountDirectory` is the abstract specification: mailboxes with at most one account,
  identities with at most one link, tokens that are used once. Registering, a first login
  of an identity, linking and verifying are one step each, and a dead or failed request is
  no step. `AccountLifecycle!Directory` maps the committed rows to it (an account is known
  by its mailbox there, whatever the spelling) and `ImplementsDirectory` states the
  refinement.

### The process

`Server` is everything around the handlers. `main` is where `main()` is, from `Load` over
the pings of `postgres.New` and `redis.New` to `Shutdown` and `Exit`; `listener` is the
goroutine of `server.Start`; `signal` is the channel of `signal.Notify`. `req` holds what
each client connection is being served. A connection is accepted (`Connect`) while the
listener is open, and its request is read (`ReadRequest`) up to `HeaderTimeout` later,
which is `ReadTimeout` of the server; `net/http`'s `Shutdown` spares a connection nothing
was read from, so a request may be read and served during the drain (`late`). A handler is
what all of them are to this module: calls to PostgreSQL, alone or in a transaction, and to
Redis outside of one, in any order, up to `MaxCalls`. A probe is the two checks of
`/ready`.

A dependency is up, down (it refuses at once) or hung (it never answers). Computing takes
no time: `Tick` is enabled only while every request that was read waits for the pool or
for a hung dependency, so a property that bounds an age bounds the waiting the code does.
What ends a wait is what ends it in the code (`GivesUp`): pgx gives up with the context.
The Redis client looks at the context while it waits for a connection and before it sends
a command again; an exchange it has begun ends with `REDIS_READ_TIMEOUT` only, and a call
is several exchanges: the greeting of a new connection, the command, and its repetitions
(`Again`), which `redis.New` leaves at the library's default. A rollback has a second of its
own (`RollbackOver`). `troubled` and `late` are history.

## Runs

| Run | Question | Result |
|---|---|---|
| `race` | one session, three refreshes and a logout presenting any token in any order, any statement failing | holds: `ConsumedExactlyOnce`, `OneUnspentTokenPerFamily`, `LogoutIsFinal`, `ReplayRevokesReplacement`, `RevocationIsPermanent`, `ImplementsLedger`, `TypeOK` |
| `slots` | two logins on one device slot, a refresh, a logout, failures, a clock that outlives the session; is every request answered? | holds: `NoConstraintViolation`, `SlotEmptiedOnlyByLogout`, `ImplementsLedger`, `EveryRequestIsAnswered` |
| `replay_escape` | does a replay end every token of its family? | no, see Findings |
| `expired_conflict` | does a 409 mean an active session? | no, see Findings |
| `idem_faults` | two calls, every fault; does every call return? | holds: `RepliesMatchRequests`, `OnlyOwnReservation`, `EveryCallReturns`, `TypeOK` |
| `idem_dropped` | can a retry after a dropped connection log in again? | yes, see Findings |
| `login_path` | two logins with one key, others with their own, through middleware and limiter; every fault of clients, handlers and stores, a stored answer from its beginning to its end | holds: `StoredAnswerIsFinal`, `NoSessionWithoutPassword`, `LimitHolds`, `OldFailuresForgotten`, `TypeOK` |
| `limiter_ip` | does the limit of an IP hold? | no, see Findings |
| `accounts` | a registration, two verifications and a resend of one mailbox, failures, a forgetful cache, a clock | holds: `VerifiedForAReason`, `MailedTokensWork`, `EveryRequestIsAnswered`, `ImplementsDirectory`, `TypeOK` |
| `linking` | two callbacks of any identities against a registration and a verification | holds: `OneOwner`, `BornComplete`, `LinkedOnlyIfVouched`, `OneExchangePerState`, `ImplementsDirectory` |
| `oauth_address` | does a callback find the account of a known mailbox? | no, see Findings |
| `process` | start to exit, two connections over a pool of one, dependencies that hang, refuse and come back, requests that are read late, a signal at any time; does it end? | holds: `DrainSparesTransactions`, `ConnectionsComeBack`, `ProbesTellTheTruth`, `WaitsOnlyForDependencies`, `ExitFollowsSignal` |

`StoredAnswerIsFinal` is what the middleware does guarantee about judging a request once.
That a key is judged once in `ResponseTTL` is not true: besides a client that left
(`idem_dropped`) it is judged again after a crash, a 5xx (with or without a committed
session), a reservation that lapsed under a slow handler and a failing Redis, because in all
of these no answer was stored. What holds is that once one is stored nothing more happens
under its reservation: no session is created and no failure counted, although handlers may
still be at work. Callers whose claim failed run without protection and are not covered.

`DrainSparesTransactions` is what a drain of 10 s is enough for. A transaction uses
PostgreSQL only, so it is over at its request's deadline or one rollback later, 5 s + 1 s.
The rest is not bounded: see the items on the drain under Findings.

### Findings

* A refresh that passed its checks before a replay of an older token is detected commits
  its replacement after the family was revoked. Nothing looks at `revoked_at` again, so
  that token keeps working, although the 401 promises the whole family is dead
  (`replay_escape`).
* A session that expired without being revoked keeps its device slot. Every later login
  from the device is refused with a conflict (`expired_conflict`).
* The response of a login is saved with the context of its request. If the client is
  gone by then, the reservation lapses and a retry logs in a second time
  (`idem_dropped`).
* The per-IP login counter is checked and never incremented (`limiter_ip`).
* An OAuth callback looks its address up as the provider wrote it, while accounts are
  stored normalized. For an address that is not its own normal form it misses the
  account, starts to create one and fails on the unique constraint: a 500 instead of
  linking or of a conflict (`oauth_address`). No second account results (`linking`).

The modules show more without a run of their own:

* a wrong password of a known account is counted twice (`Failures`), so the credential
  limit bites after half as many attempts;
* a rotation renews the life of the token but not of the session, so the last token may
  expire after the session that carries it (`ChildToken`);
* verifying writes back the status read before the transaction (`CommitVerified`): a
  suspension committed in between would be undone, once something suspends accounts;
* a second token of an account, verified later, overwrites `email_verified_at`, so a
  repeated verification is not always answered "with the same `verified_at`"
  (`docs/email-verification.md:247`);
* the conflict a caller "should never hit" (`queries/oauth_identity.sql:8`) is hit by two
  concurrent callbacks of one identity (`CreateLink`); the second is a 500;
* a signal that arrives after the listener was started and before `signal.Notify` kills
  the process without a drain (`Signal`, `cmd/server/http/main.go:49-73`);
* each check of `/ready` is not "bounded by a 2-second timeout" (`docs/health.md:23`), nor is
  the worst case "the slower of the two" timeouts (`:82`): both checks share one context
  of 2 s, and the Redis client ignores it once an exchange has begun. With a hung Redis the
  ping is tried again while the context lives, each time for up to `REDIS_READ_TIMEOUT`, so
  the last exchange may begin just before 2 s and end 3 s later: the probe is answered after
  up to 5 s, when the server's own write timeout has passed as well (`GivesUp`, `Again`;
  `platform/redis/redis.go:22` does not set `MaxRetries`). The database check does end
  after 2 s. The module states no bound for a probe;
* a request read during the drain, from a connection that `Shutdown` spares, begins its
  5 s as late as 5 s into the 10 s of the drain (`transport/http/server.go:25`,
  `cmd/server/http/main.go:79`). With the second of its rollback, or a Redis exchange of
  3 s, it can still be at work when `main` returns, and is cut off (`ReadRequest`, `Exit`);
* a handler that waits for a hung Redis after its transaction, or has a command tried
  again, may outlast the drain as well: its session is committed and its idempotency record
  not saved;
* one Redis failure lets a login past the middleware (`ClaimFails`) and then fails it in
  the limiter (`LookupFails`): the first layer fails open, the second closed, so the
  login is an error in the end.

Read while modelling and left to prose, since no module holds the state it is about:

* `HTTP_SHUTDOWN_TIMEOUT` (`config.go:38`) is read by nothing; `main` drains for 10 s
  whatever it says. `Grace` is that constant;
* the deferred flush of the tracer (`main.go:37`) shares the variable `ctx` with the drain,
  and `defer cancel()` runs before it: the flush gets a cancelled context, and spans still
  in the batch are lost;
* the server's `WriteTimeout` equals the request timeout, so an answer that
  comes after its deadline is written to a connection that no longer takes it.

### Bounds and fairness

Requests are few because each hazard needs few of them: a lost race needs two callers of
one token and a third to see what is left; superseding needs two logins,
one of which waits for the slot. Requests with the same role are symmetric, and symmetry is
used where no liveness is checked. `race` has
`MaxClock = 0`, so nothing expires in it and every order of statements is explored; `slots` lets the
clock move and has grace period 0, so both the superseding and the refused login occur.
In `Idempotency` one unit of the clock stands for a second or so: what matters is
`MaxWait < RequestTimeout < ReservationTTL`, which the assumption states and the
constants of the code satisfy. With the durations 0, 2 and 3 of `idem_faults` a waiter
gives up at its next poll, the winner may still be at work when its context dies, and the
reservation outlives it by one unit. `MaxArrival` and `MaxClock` end a run; at the last
tick a record of the first call has expired while the second is served.

In `login_path` two calls suffice: one key needs a winner, and a caller that waits for it,
takes over from it or replays its answer. One account with a password is enough, since the other kinds take a part of the steps of a wrong password
and leave the same answers. With `Limit = 1` one wrong password, which counts twice, locks
the credential, so a call may meet a 429 that its own key caused. The durations 2, 3 and 1
for the request, the reservation and the answer are the smallest for which everything
happens before `MaxClock = 3`: a handler outlives its context, its reservation lapses under
it, a second call takes the key over, and an answer is stored while the first handler is
still at work. `Others` acts at the first instant only (`MaxOthers`): a counter that
somebody else has filled or that expires is met by calls that arrive later.

In `process` the durations 2, 1, 1, 1, 1 and 3 stand for 5 s (the headers), 5 s (a request),
2 s, 3 s, 1 s and 10 s. What the properties depend on is stated by the assumption: a
request that used all of its time and then rolls back is done before the grace period is
over. A request that is read at the last moment, two units into the drain, is not, so the
requests the property excepts occur. A pool of one connection and two clients is the
smallest case in which one holds what the other needs; each handler makes two calls, so it
may hold a transaction and need another statement or Redis, and a call to Redis has up to
two exchanges (`MaxExchanges`). One of the clients may ask for `/ready`, the other one has
handlers only, which is the interesting load for a probe.

In `accounts` two verifications race for one token, or use the tokens of the registration
and of the resend; the clock makes one step, which is when a token with `TokenTTL = 1`
expires. In `linking` both spellings of a mailbox, two subjects and both values of the
provider's `email_verified` meet, so every linking case occurs before, during and after
another request's transaction. Its clock stands still; `accounts` moves it. One mailbox suffices: addresses of different mailboxes
share no key.

Fairness is one weak fairness condition per system: while some handler can take its next
step, one does (a goroutine is scheduled, and a statement that is not blocked runs).
Which one is left open, so no property rests on a fair scheduler between requests. A
statement that waits for a lock is not enabled, and `Progress` of the sessions includes
`DeadlockVictim`: refresh locks token then session, logout session then token, and
PostgreSQL breaks the cycle. The account transactions need no detector. `Idempotency`
adds weak fairness of time, and `Server` takes time and the requests' steps together:
a timer that was started fires, whatever happens meanwhile. Nothing is assumed of
`Startup`: a process that hangs in it is killed by the signal. Faults are never fair:
nothing has to fail, arrive or crash.

The liveness properties say that the system is idle again and again (`[]<>`); since each
request of a run comes once, each one that was begun is then answered.

## Proofs

Every invariant, action property and refinement of the passing runs is a theorem, for any
sets of requests, slots, mailboxes and identities and any durations and limits the
assumptions allow. The argument is the same throughout: an inductive invariant, one
lemma per action or per conjunct, and the property from the invariant.

| Module | Theorems | Inductive invariant |
|---|---|---|
| `SessionLifecycleProofs` | `TypeCorrectness`, `RotationIsSingleUse`, `FamilyHasOneEnd` | `IInv` |
| `SessionSafetyProofs` | `ConstraintsAreNeverHit`, `SlotsAreEmptiedByLogouts`, `LogoutsAreFinal`, `ReplaysRevokeTheReplacement`, `RevocationsArePermanent` | `SInv`, on top of `IInv` |
| `SessionLedgerProofs` | `LedgerRefinement` | `SInv` |
| `IdempotencyProofs` | `IdempotencyTypes`, `RepliesAnswerTheirRequest`, `WritesOnlyOwnReservation` | `Holders` and others |
| `LoginProofs` | of the limiter: `LimiterTypes`, `CredentialLimitHolds`, `FailuresAreForgotten`; of the route: the same three, `PathRunsTheMiddleware`, `StoredAnswersAreFinal`, `SessionsNeedThePassword` | `IInv`; `OwnInv` |
| `AccountLifecycleProofs` | `TypeCorrectness`, `MailboxesHaveOneAccount`, `AccountsAreBornComplete`, `VerificationsHaveReasons`, `LinksAreVouchedFor`, `SentTokensWork`, `StatesAreSpentOnce` | `IInv` |
| `AccountDirectoryProofs` | `Refinement` | the same |
| `ServerProofs` | `DrainOutlastsTransactions`, `NoConnectionIsKept`, `ProbesAreTruthful`, `NobodyWaitsForThePoolAlone` | `Inv` |

**Rotation** (`SessionLifecycleProofs`). The properties speak about committed rows and are
not inductive: a commit makes visible what a transaction drafted several steps earlier.
`IInv` therefore ties together what a handler remembers and what its program counter
implies (`HandlersRemember`, `LoginWrites`, `RefreshWrites`), the drafts and the rows they
extend (`DraftsExtendRows`), the row locks that keep others out of a drafted row
(`OnlyWriters`), references between rows (`References`) and where a token comes from
(`MintedAtCommit`).

**Revocation and slots** (`SessionSafetyProofs`). What a commit may show is bounded by
`DraftsOnlyAdd`: a draft never takes back a revocation or an exchange. Given that:

* `LogoutIsFinal` needs only the session: `LogoutHas` says that a logout past its first
  statement holds the lock on its session, with the revocation drafted (`SessionWriter`),
  or found it revoked. A refresh that touches the session meanwhile writes back what is
  committed, so the revocation stays. The family scan of the logout, which may miss a
  token, is not part of the argument.
* `ReplayRevokesReplacement` does need the scan: a replay is detected on a token that is
  consumed, so its replacement was committed before the snapshot (`ReplayKnows`,
  `FamilyOnly`, `Chains`). A token minted by a refresh that is under way is not in it,
  which is why the property stops at the replacement (see `replay_escape`).
* `NoConstraintViolation` and `SlotEmptiedOnlyByLogout` follow from `LoginHas`: the
  advisory lock is held from before the search of the active session to the commit, and
  everything found there is in the login's own locked drafts. `OneHolder` is the unique
  index as an invariant, `InTime` the check constraint, `OpenedAtCommit` the freshness of
  session ids.

**Idempotency**. The key conjunct is `Holders`: a call that claimed the key and
whose context is alive still owns the reservation, and the reservation expires after the
context does.

**The limiter and the route** (`LoginProofs`). `Covers` says a counter is at least the
number of standing failures and expires before the oldest of them is a window old. Every
step of `LoginPath` is a step of `Idempotency` or leaves its variables alone, so
`PathSpec` implements it (`PathRunsTheMiddleware`), with all its faults, and
`IdempotencyProofs` is instantiated, theorems and all. The limiter's invariant is re-used
in the same way: a step of a handler is a step of the limiter whether its context lives or
not, and `OthersKeep` adds the attempts with other keys. What is new is
`Agreeing` (the two modules agree where a call is) and `Kept` (the key holds a stored answer
until its time is over). `StoredAnswersAreFinal` then follows from `Holders` of
`Idempotency`: a handler with a live context still holds its reservation, so while an
answer is stored every protected handler has a dead one, and a dead context neither commits
nor counts. `LayerDurations` and `LayerNone` are the assumptions of `Idempotency`,
restated for the route's own constants.

**Accounts** (`AccountLifecycleProofs`). Uniqueness is a matter of locks and of rows: a
transaction between its INSERT and its commit holds the key (`held`, `ExclusiveKeys`) and
nobody has a row under it (`ReservesEmail`, `ReservesSubject`), so two commits cannot both
create it. What a callback read before its transaction is still true at the commit because
rows only grow (`RowsGrow`): emails never change and `verified_at` is never unset. Each
kind of request has its own conjunct for what `local` means at each `pc`
(`RegistrationKnows`, `VerificationKnows`, `ResendKnows`, `CallbackKnows`), and one lemma,
`StillKnows`, carries it over the steps of the others. `VerifiedForAReason` includes
that no verification panics on the row it reads again after a lost race.

**The refinements**. Only a commit changes committed rows. Each commit is shown to be one
step of the abstract specification and every other step to leave its variables unchanged.
`DirectoryNoneAssumption` says `None` is none of the values the mapping of the accounts
produces.

**The process** (`ServerProofs`). `HandlerCalls` says that a transaction keeps its connection
and calls only PostgreSQL meanwhile, so whoever holds a connection waits, if at all, for
PostgreSQL: no request waits for the pool alone, and its age is bounded by its deadline and
the timer of its rollback (`HandlerInTime`), which is `ConnectionsComeBack`. Nothing bounds
the age of a request at Redis, and nothing needs to: it holds no connection. A request that
was read before `Shutdown` began is as old as the drain (`Situated`), so `Grace` cannot run
out while one of them is in a transaction. `ProbeTimeout < Grace`, besides the sum in
`DurationsAssumption`, is what a probe in the database needs; the constants are 2 s and 10 s.

The assumptions on the constants are the ones stated in the modules: durations are positive where
`Config.Validate` says so, `None` is not a value, sets of requests are disjoint.

Checked by TLC only: the liveness properties `EveryRequestIsAnswered` (of sessions and of
accounts), `EveryCallReturns` and `ExitFollowsSignal`, since the prover does not reach
fairness. The claims that runs refute are, of course, not proved.

## What is abstracted

* A request takes seconds and a token lives for days, so the database check
  `expires_at > created_at` of a freshly minted token cannot fail and is left out.
* `pg_advisory_xact_lock` takes a 64-bit hash; a collision would only serialize two
  unrelated logins. Foreign-key share locks do not conflict with the updates made here.
* The rows `RevokeFamily` updates come in any order.
* Access tokens are self-contained and never looked up; they are not modelled.
* Hashes are injective and generated values are fresh. Bodies, passwords and emails are
  members of small sets.
* In `Server`: the size of the pool of Redis connections (waiting for one and dialling one
  are the same state, which the context ends), the exchange with Google (it ends with the
  request's context), clients that disconnect while they are served (a context that dies
  early only ends waits sooner), the wait for a request's body, and the time a connection
  stays idle.
* Audit events, `last_login_at`, metrics, tracing, logging and the verification email
  change nothing the models hold.
* The Redis client sends a command again when its reply is lost. For the claim script
  this is `ClaimUnheard`; a second `DEL` or `SET` changes nothing; a second increment
  only adds to a count.

## Plan

Done: all the modules above; every safety property of the passing runs proved.

Left:

1. Two hazards without a property. The stale `status` a verification writes back
   (`verifyemail/service.go:159`) needs somebody who suspends accounts, which the service
   does not have yet. A token that outlives its session (`refresh/service.go:309`) is
   refused by the check of the session, so nothing wrong follows from it.
2. Theorems about what the findings leave standing: how far a family outlives its replay
   (a token minted by a refresh that was under way, and its descendants, and none else),
   and that a conflict of a login is always the fault of a session in its grace period or
   past its end.
