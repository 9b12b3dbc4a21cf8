# A formal model of the Renku gateway

TLA+ modules that model the stateful core of this repository, TLC runs that
check them on small instances, and theorems about them that TLAPS checks for
every instance. Paths are relative to the root of the repository (`internal/...`,
`cmd/...`); every definition of a module has an entry in the `map` of
`PROJECT.json` that names the lines it stands for.

## 1. The system

The gateway is a Go server of which several replicas run behind one address. It
keeps browser sessions, logs users in with OIDC providers, keeps and refreshes
their tokens, and proxies requests to the Renku services with the tokens in
their headers. The replicas share nothing but Redis.

| Component | State | Operations | Speaks to |
|---|---|---|---|
| Token store (`internal/tokenstore`) | none of its own | `GetFreshAccessToken`, `GetFreshIDToken`, `refreshAccessToken`, setters | token repository, identity provider |
| Token repository (`internal/db/token_repo_redis.go`) | three Redis hashes per token ID | get; set = `HSET`, then `EXPIREAT` or `PERSIST` | Redis |
| Session store (`internal/sessions`) | the session in the context of each request | `Middleware`, `Get`, `Create`, `Save`, `Delete`, `SaveTokens`, token getters | session repository, token store, authenticator |
| Session repository (`internal/db/session_repo_redis.go`) | one Redis hash per session | get; set = `HSET`, then `EXPIREAT`; delete | Redis |
| Session lifetime (`session_maker.go`, `models/session.go`, `config/session.go`) | `ExpiresAt`, `CreatedAt`, two TTLs | `NewSession`, `Touch`, `Expired`, `Validate` | |
| Login server (`internal/login`) | login state and sequence, in the session | `GetLogin`, `GetCallback`, `GetLogout`, `nextAuthStep` | session store, OIDC client |
| OIDC client (`internal/oidc`) | none | code exchange, refresh | identity provider |
| Reverse proxy (`internal/revproxy`) | URL, headers and context of the request | path rewriting, routing, token injection, anonymous IDs | session store, services |
| Redirect store (`internal/redirects`) | a map behind a `RWMutex`, per replica | `GetRedirectEntry` | data service |
| Error reporting (`cmd/gateway/main.go`, `internal/utils/sentry.go`) | the variable `err` of `main` | one middleware | Sentry |
| Authenticator (`internal/authentication`) | one verifier per authorized party | `VerifyAccessToken` | identity provider |
| Configuration (`internal/config`) | one `Config` per process, from two files and the environment | `getConfig`, `Validate` | |
| Process (`cmd/gateway/main.go`) | how far `main` has got, its connections | constructors, servers, interrupt, `Shutdown` | all constructors |
| Metrics (`internal/metrics`) | a queue of events | `UserLoggedIn`, `Close` | login server, PostHog |
| Encryption, cookies, identifiers, serialisation, views, logging | constant | | |

How they interact. Every request passes the session middleware: it loads the
session into the request context, the handler works on that copy, and the
middleware writes the whole copy back, whatever the handler did. Handlers of the
login server save on their own before they redirect. The token getters are
called by the middlewares of the reverse proxy and by two login handlers; they
may call the identity provider and write all three token hashes. The session
holds only token IDs (`renku:<user>`), so all sessions of a user, on all
replicas, share the same three hashes.

What is hard about it:

* *Concurrency.* Redis is used without transactions or locks: two commands per
  write, whole-record writes of copies read long before, single-use refresh
  tokens read by several requests at once. Inside a replica there is one lock,
  held during a network call, and one unsynchronised shared variable.
* *Restarts.* What Redis has outlives the process and its configuration; a
  process ends by an interrupt, a timeout, an error of a server, or a signal for
  which nobody listens.
* *Failure.* The client disconnects (which cancels the commands that run under
  the context of the request, and no others), Redis or the provider fails, an
  answer is lost, a replica stops between two commands.
* *Order.* The provider spends a token before the gateway stores the new one;
  the answers of the data service must not overtake each other; rewrite rules
  and middlewares have an order that their comments argue about.
* *Time.* Sessions and tokens expire in Redis and in the process, at slightly
  different times (a leeway), between any two steps of a request.

The complete list, at the lines where it bites, is `hazards` in `PROJECT.json`.

What makes each component correct:

* token store: a user is not logged out by two of her own requests or by a
  client that goes away; nobody spends a refresh token that is not stored yet;
  every request ends; no token stays in Redis for ever;
* session store and login server: users and tokens get only into the session
  whose own callback put them there; the login state a browser was redirected
  with is in its session; a logout is final; no session outlives its maximum;
  a good session is not replaced;
* session lifetime: the expiry is the one the configuration describes;
* reverse proxy: the data service gets a refresh token or an anonymous ID, and
  not both; the anonymous ID comes back; a request speaks for one user; a path
  arrives where it is meant to;
* authenticator: what a client presents is believed if one verifier stands for
  all of it;
* configuration and process: tokens are encrypted if somebody asks for it;
  settings for tests do not get into production; both places that build OIDC
  clients have the same providers; an interrupt ends the process, and its exit
  code says whether a request was cut;
* redirect store: answers never go back in time, are fetched once per lifetime,
  and nobody waits for ever;
* error reporting: each request's own error.

## 2. The modules

| Module | Models | Checked by |
|---|---|---|
| `Expiry` | the clock arithmetic of `models/token.go`, `models/session.go`, `session_maker.go` | all that use it |
| `RedisHash` | one Redis hash key with its expiry: `HSET`, `EXPIREAT`, `PERSIST`, `DEL`, expiration (external) | all that use it |
| `TokenStore` | token store, token repository, `SaveTokens`, refresh and code exchange of the OIDC client, the provider | `MCTokenStore`, `TokenStoreProofs`, `TokenExpiryProofs` |
| `Sessions` | session store, session repository, login server, `ensureSession`, a browser | `MCSessions`, `SessionsProofs` |
| `RefreshCustody` | abstract: the life of single-use refresh tokens, which `TokenStore` implements | `MCTokenStore`, `TokenStoreProofs` |
| `SessionLifetime` | one stored session under every valid configuration | `MCStartup`, `MCSessionLifetime`, `SessionLifetimeProofs` |
| `Configuration` | the layers of the configuration and its validation | `MCStartup`, `StartupProofs` |
| `Startup` | the processes that run one after the other over one Redis; composes `SessionLifetime` and `Configuration` | `MCStartup`, `StartupProofs` |
| `Authenticator` | the verification of access tokens that clients present | `MCRevproxy`, `RevproxyProofs` |
| `Revproxy` | one request through rewriting, routing and middlewares; composes `Authenticator` | `MCRevproxy`, `RevproxyProofs`, `RevproxyPathProofs` |
| `RedirectStore` | the redirect store of one replica and the data service | `MCRedirectStore`, `RedirectStoreProofs` |
| `RedirectCache` | abstract: a cache whose lookups are atomic, which `RedirectStore` implements | `MCRedirectStore`, `RedirectStoreProofs` |
| `ErrorReporting` | the Sentry middleware | `MCErrorReporting` |

The `MC` modules define the values of constants that a `.cfg` cannot write, and
the symmetry sets. A definition introduced by "Mutant of ..." is a plausible bug:
`PROJECT.json` names the property that fails when it takes the place of the
definition it is a mutant of.

### TokenStore

`store` holds the three hashes of one token ID, each a token and the expiry of
its key. A token is a *generation* (which answer of the provider it came from)
and an expiry. `succ[g]` is the provider's record of spent refresh tokens: the
generation that replaced `g`. Each request is at a place `pc` and has the local
variables `token`, `refreshToken` and `freshTokens` of the Go functions. One
action is one Redis command or one call of the provider, with the code in memory
that follows it:

`Begin`, `ReadToken`, `GetRefreshToken`, `Exchange` (or `ExchangeRejected`,
`ExchangeUnreadable`, `ExchangeLost`), three times `WriteHash` and `WriteTTL`, or
`Reload`, then `Check`. `Login` starts a `SaveTokens`, which runs the same writes. A command
under the request's context fails when the client disconnects (`Cancellable`:
the reads and all of `SaveTokens`, but not the exchange and the writes of a
refresh, which run under `context.WithoutCancel`); any command may fail and a
replica may stop when `FaultsAllowed`. Two history variables: `lost`, the refresh
tokens that were received and dropped, and `cut`, the hashes whose last writer
stopped before it set their expiry.

The constants cover the providers: `Rotates` (single-use refresh tokens),
`Reissues` (a refresh returns a new one), `JWTOnRefresh` (whether that one is a JWT,
in every answer, in none or in some), `IDTokenOnRefresh`, and the three lifetimes,
where 0 stands for a token without an expiry that can be read.

The client parses a new refresh token as a JWT to learn its expiry. For an opaque
one it logs the error and goes on, but the error is still in `err` when it returns
the tokens (`oidc/client.go:130,170`), and `refreshAccessToken` of the store drops them
(`token_store.go:127-131`). `ExchangeUnreadable` is this step: the provider has spent
the old token, and nobody has the new one. It needs no fault. At login the same
error is only logged, so `SaveTokens` stores opaque refresh tokens. `ExchangeLost`
has the same effect on the store, and stands for an answer that does not arrive.
`lost` has the tokens of both.

`RefreshCustody` is what this promises of a single-use refresh token, without
requests, commands or clocks: it is issued into one hand, stored from there or
lost, and spent at most once, after it was stored. `Custody` is the instance, with
the generations of `TokenStore` as tokens; the tokens in hand are those that some
request is still going to write (`InHand`), and a token is lost also when the
write that would have stored it never happens.

### Sessions

`db` holds the hash of each session ID. A request carries the cookie of the
browser's `jar` or a verified bearer token, and its handler is one of `proxy`
(reads the session only), `ensure`, `login`, `callback`, `logout`. `loaded` and
`ctx` are the session in the echo context. `Get` is the function of that name:
the context, then the header, then Redis, where the copy is touched. `Save`
calls `Get` again, which matters: after a failed load it writes what it loads
then, and not what the handler changed. A callback therefore keeps its session in
`mem`, and `alias` says whether that is the one in the context. The response,
with its cookie and its redirect, reaches the browser when the middlewares have
returned (`Respond`), or does not (`ResponseLost`). Login states are numbers;
`spent` is the provider's record of codes that were redeemed.

`Exchange` is the code exchange up to the next step of the login,
`ExchangeFails` the same for an exchange that fails: `echo.WrapHandler` never
reports an error, so both go on with `nextAuthStep`.

Each login state is made for one provider, the `issuer`, whose codes are the only
ones that it comes with. `nextAuthStep` may end in an error after it has changed the
session: of the generator of states, or of `AuthHandler`, if the replica has no client
for the provider (`Missing`). So may `GetCallback`, when `CodeExchangeHandler` has no client:
by then the login sequence has lost its head. In these cases (`LoginFails`,
`NextAuthStep`, `CallbackRejected`) the handler does not save, no redirect is sent, and the
middleware writes back what the handler left in the context.

### SessionLifetime

One session: created with the expiry of `NewSession`, moved by `Touch` at every
`Use`, while the clock runs; the configuration is any that
`SessionConfig.Validate` lets through, also one with a negative maximum TTL.

### Configuration and Startup

A layer of the configuration (main file, secret file, environment) is a record of
the settings that it names; `getConfig` merges them in the order of the code, over
the defaults, and `Valid` is `Config.Validate`. Only settings that decide
something are there; keys are represented by their length, URLs by their presence,
the settings of one provider by a record.

`Startup` is `main`, process after process. `step` is how far it has got: each
constructor is an action that goes on or ends the process with code 1, `Load`,
`Validate` and the eight that build a component; `NewRedisAdapter` may also
panic. Then the servers run (`Listens`), requests come (`Accept`), become
websockets (`Hijack`) or end, use or make the session that is in Redis
(`UseSession`, `NewSession`), or log a user in (`LogIn`), which stores tokens,
sealed if there is an encryptor, and leaves an event to the PostHog client. The
process ends by `Interrupt`, then `Drained`, `Close` and `Return`, or `TimeOut`; by
`ServerFails`; or by `Killed`. `Exit` is what all ends have in common: it records
in `exit` what was cut, and why events were dropped: because their `upload` failed,
because the client was `closed` when they came, or because the process did `exit`
while they waited. An upload may fail at any time (`Send`), also the last one, in
the deferred `Close`, which ignores the error and lets `main` return all the same.
`Restart` starts the next process with any configuration. The session is that of
`SessionLifetime`, whose variables no process owns: it keeps the TTLs of the process
that made it. A session and tokens in the process-local mock of Redis are not part
of this state.

### Revproxy

A path is a sequence of segments, of which one (`a%2Fb`) has an encoded slash and
one is empty, after a trailing slash; a URL has a path and a raw path as in
`net/url`. `chain` is the list of middlewares that still have to run: first
`RewritePath`, which is what `main` registers with `Pre`, then those of the group that
`Route` finds. `RewritePath` removes a trailing slash and then applies the rules for the UI
server. The removal changes the path only: the raw path stays as it was, with the
slash, and `Route`, as echo's router, looks at the raw path if there is one, while
`Escaped` (`URL.EscapedPath`) no longer accepts it. The session in Redis and
the tokens may expire between any two of them. The headers the middlewares
look at and set are in `header`; of these the client sends only `Authorization`.

A request has a cookie, or credentials, or both, or neither. `Get` has the set of
all results of `SessionStore.Get` in the present state: the session in the context;
the one of the cookie; without a cookie the user of a verified token, whom `Get`
puts into the context at once, and whose header it rewrites; or nothing. A token
is a record of its claims, its signer and the time it is still good for;
`VerifyAccessToken` chooses the verifier by the authorized party and
`verifyAccessToken` checks the claims. Creating a session may fail (`CreateFails`); the
request then ends with an error.

### RedirectStore

`redirectMap` and its lock: a reader passes `RLock` and `RUnlock`, a writer
`Lock`, `Drain` (it has the lock once the readers are gone), `Recheck`, the call
(`Fetched` or `NotFetched`) and `Store`. The targets of a redirect are
numbered; the data service publishes new ones at any time. `seen` and `floor` are
history variables: the newest target anybody was redirected to.

`RedirectCache` has no lock and no copies: a lookup waits, and one step finds a
fresh entry, replaces one that is too old by a version that was current since the
last replacement, or finds nothing. `Cache` is the instance; a request is waiting
until the step of `RedirectStore` that decides its answer.

### ErrorReporting

Each access to the shared variable `err` is a step of its own. The value that is
read is that of some assignment; a torn read of the interface value, which a Go
data race also permits, is not modelled. An error knows whose it is; nil is one
value, the same for all requests.

## 3. The runs

| Run | Shows | Bounds |
|---|---|---|
| `TokenStoreFaults` | types; only a lost replacement strands a user; a token in hand is nowhere else; only a stopped writer leaves a token in Redis for ever; the steps are those of `RefreshCustody` | 2 requests, 3 answers of the provider, clock from 2 to 3, without leeway: an access token leaves Redis when it expires; refresh tokens without an expiry, opaque or JWTs from one answer to the next; no ID token on refresh, crashes, failures |
| `TokenStoreLive` | disconnecting clients strand nobody; every request ends; a spent token leaves the store | 2 requests, 2 answers, with and without an ID token, clock from 2 to 4, without leeway; refresh tokens are JWTs that expire |
| `SessionsLogin` | types; users and tokens only by own callbacks; good sessions kept | 2 requests, 2 sessions, 2 login states, no tick; clients may be missing |
| `SessionsFaults` | no copy outlives the maximum; only a stopped writer leaves a session in Redis for ever | 2 requests, 1 anonymous session, 3 ticks: past the maximum and the leeway; crashes |
| `SessionsSequential` | the login state is stored; a logout is final | 1 request at a time, 3 sessions, 4 states, 2 ticks; clients may be missing |
| `RedirectOrder` | answers in order, one fetch per lifetime, lookups are atomic (`RedirectCache`), every lookup ends | 2 requests, 2 projects, 3 targets, 3 ticks |
| `RevproxyChain` | a refresh token or an anonymous ID; the anonymous ID returns; one user per request; only verified credentials count; paths arrive, and stay encoded | 24 paths, with and without encoded and trailing slashes, every initial session, 8 tokens that each fail one check or none, 2 verifiers |
| `LifetimeWithMaximum` | the expiry is as configured, over restarts; tokens are encrypted as asked; test settings stay in development; one set of providers; a clean exit cut no request and dropped only failed uploads; an interrupt ends the process | 1 connection, 1 queued event, clock to 4, TTLs of -1 to 2 ticks, 75 layerings: each setting changed by the environment, under three secret files |

The bounds are chosen so that the cases of the hazards happen: two requests are
enough for a lost update and for a race for a refresh token, a third answer lets
a login or a further refresh come in between; the clock goes past every lifetime
plus the leeway; two sessions suffice to replace one by another. One connection
suffices for `Startup`, whose requests share nothing but Redis, and each process
may have any of the configurations, so that every pair follows one another; the
default TTLs of 4 and 24 hours are 1 and 2 ticks there. `MaxGen`,
`MaxSessions` and `MaxStates` end in an error that the code has too (a provider
that refuses, a generator of identifiers that fails), so that no request gets
stuck at a bound. The leeway with which tokens stay in Redis is 0 in both runs of
`TokenStore`, so that a token is gone for the store when it is expired for the code;
the proofs are about any leeway. In `RevproxyChain`, `LifetimeWithoutMaximum` and
`ErrorsConcurrent` the system stops when the request is served, the clock has
reached its bound, or all requests are done: there, deadlock is not checked.

`SessionsLogin` and `SessionsFaults` divide the work: logins with both providers
at one instant, and one session over its whole life with failures. A session of a
logged-in user is written by the same two commands as an anonymous one, so its
expiry is covered by the second.

Each of the following runs ends with a counterexample, which shows a difference
between the code and what its comments, documentation or tests say. The
`findings` of `PROJECT.json` quote both.

| Run | What the code does |
|---|---|
| `SessionsLogout` | a request in flight brings a deleted session back; with one request at a time (`SessionsSequential`) the same property holds |
| `RedirectDefaultTtl` | the documented default lifetime is never applied |
| `LifetimeWithoutMaximum` | without a maximum TTL a new session expires at once |
| `ErrorsConcurrent` | a request loses its error to the nil of a concurrent one: nothing is sent to Sentry, and nil is returned |

The models contain further behaviours that a maintainer may not expect, for which
there is no run of their own:

* With a provider whose single-use refresh tokens are opaque, the first refresh
  strands the user until the next login: the answer is dropped with the error of a
  parse (`oidc/client.go:130,170`; `ExchangeUnreadable`). `StrandedOnlyByLoss` counts this as a
  loss; `CancelNeverStrands` and the run `TokenStoreLive` presume JWTs.
* A request that loses the race for a refresh token reloads the access token
  once. The winner may not have stored it yet; then the loser is answered
  `ErrTokenExpired` (`token_store.go:52`; `Reload`).
* `PendingStateStored` holds for one request at a time and fails for two: the save
  at the end of a slow request overwrites the login state that `nextAuthStep`
  stored meanwhile (`session_store.go:56`).
* A failed code exchange is followed by `nextAuthStep`, for `echo.WrapHandler`
  reports no error, so that the branch at `login_server_routes.go:83` is never
  taken; with a single provider the flow is then complete, without tokens
  (`ExchangeFails`). `GitLabAfterRenku` shows what this cannot do.
* If `CodeExchangeHandler` has no client for the provider, the middleware saves the
  session without the head of its login sequence, with the state that was good for
  it (`login_server_routes.go:57`; `CallbackRejected`).
* A Redis read that fails makes `ensureSession` replace a good session
  (`middlewares.go:53`; `Ensure`). `GoodSessionKept` holds as long as reads work.
* Below `/ui-server/api/notebooks` an encoded slash reaches the data service
  decoded, since the third rewrite rule replaces the path and not the escaped
  path that the second left (`middlewares.go:109`). `EncodingKept` covers all the
  other paths and excepts these.
* So does an encoded slash in any path with a trailing slash, whose removal leaves
  the escaped path as it was (`cmd/gateway/main.go:70`; `RemoveTrailingSlash`).
  `DataServicePath` holds of these paths too; `EncodingKept` excepts them.
* An event whose upload to PostHog fails is dropped, also by the last upload before
  `main` returns with 0 (`posthog.go:25`; `Close`).
* An access token may be injected together with an anonymous ID, if the refresh
  token is missing (`middlewares.go:133`); the property is therefore about the
  refresh token.
* main listens for an interrupt, and containers are stopped with SIGTERM: requests
  in flight are then cut without the ten seconds (`main.go:251`; `Killed`).
* With the cookie of one user and the `Authorization` header of another a service
  gets the refresh token of the first and the access token of the second
  (`auth.go:61`; `BearerToken`). `OneIdentity` covers every other combination.
* A client whose bearer token is good but who has no refresh token gets an
  anonymous session, whose cookie takes precedence over the token from then on
  (`middlewares.go:137`; `WithSession`).
* Without an address of Redis the process panics (`redis_adapter.go:85`;
  `NoAddress`), since `RedisConfig.Validate` does not ask for one.
* A path that no group matches is answered with 404 and does not fall back to the
  UI (`revproxy/main.go:91`; `Fallback`).

### Fairness

`FairSpec` asks for weak fairness of the steps of each request: a goroutine that
can run does. It asks for nothing of clients, of failures and of the clock. A
call that fails is also a step that ends, so no answer of the provider is
presumed to be good; that a call ends at all is presumed. `RedirectStore` asks in
addition for strong fairness of `Lock`: `sync.RWMutex` queues its writers on a
`sync.Mutex`, which hands itself to a writer that has waited for a millisecond.
In `TokenStore` there are no locks, and weak fairness is enough. `Sessions` has safety
properties only, and no fairness. `StartupSpec` asks for three things only: the timer of
`Shutdown` fires, the deferred `Close` ends, whether its upload worked or not (the
PostHog client gives up after its retries), and `main` then returns. Requests may run
for ever, nobody has to interrupt the process, and nothing needs to be uploaded before
the end.

## 4. What is proved

The theorems hold for every value of the constants that the named assumptions of
the modules allow: any number of requests, any lifetimes, any bounds.

**`TokenStoreProofs`**, from `TokenStoreAssumption` (natural numbers, a positive
margin, and that a provider with single-use tokens gives new ones).
`TypeCorrect` is the type invariant, strengthened by `OpInv`: only a request for
a token takes the steps of `GetFresh...`.
`StrandedOnlyByLossAlways`, `HandIsExclusiveAlways` and
`CancelNeverStrandsAlways` follow from one inductive invariant, `CustodyInv`.
`StrandedOnlyByLoss` is not inductive: that the replacement of the stored token
stays in sight when another request spends, stores or drops a token depends on
the token in hand being in no other place (`HandIsExclusive`), which in turn
needs that generations are fresh (`OnlyIssued`). `SpentOnlyIfRotating` covers
the providers that spend nothing, and `LostReplacesNothing` says what a
disconnecting client can lose when nothing else goes wrong (`Reliable`: no faults, and
no refresh token that cannot be parsed): a login's tokens, which replace none. That is
why `CancelNeverStrands` has `Reliable` as its hypothesis: without it the first refresh with
an opaque single-use token refutes it. The steps
fall into few kinds, each with a lemma of its own: a request receives a token
(`ReceiveKeeps`), publishes one (`PublishKeeps`), drops what it holds
(`DropKeeps`), reads the token it will spend (`GetRefreshTokenKeeps`), or moves
none (`UnrelatedKeeps`).

`LifeOfRefreshTokensAlways` is the refinement: `TokenStore` with single-use tokens
implements `RefreshCustody`, on top of `CustodyInv`, which says where each token may
be, and `LostIsGone`, that a lost token stays out of reach. The same kinds of step
appear again, each as the step of `RefreshCustody` that it is; the case that needs
most care is a request that drops a token it has already stored, which is not a
loss.

**`TokenExpiryProofs`**, on top of these. `NoImmortalTokenAlways` needs `DatesInv`:
the tokens of one kind have all an expiry or none has, in Redis and in the hands
of requests. Otherwise the `PERSIST` of one writer could follow the `HSET` of
another and leave its token without expiry. What is written is never empty
(`ToWrite`), so that no command deletes or revives a key on the way.

**`SessionsProofs`**, from `SessionsAssumption` (finitely many requests, a positive
idle TTL within the maximum if there is one, sequences of providers that are not
empty). The properties are about all copies of sessions that there are (`Copies`:
in Redis, in the context of each request, in the hands of a callback, in a write
under way), and the proofs rest on one fact about each action: every copy after a
step was one before, or is one of few changes of one (a touched one, a new one,
one with the user or the tokens of a callback, one with a new login state).

* `SessionsTypeCorrect` is not inductive without `ProviderDue` (a code is exchanged only
  while a provider is left in the sequence, whose head the exchange takes).
* `WithinMaxTTLAlways`, by `LivedInv`: every copy, also a stale one that will be
  written back, expires after it was created and within the maximum of that.
* `NoImmortalSessionAlways` is the property itself with the types: a writer past
  its `HSET` is still going to set an expiry, or has stopped.
* `StoredUserLoggedInAlways`, by `LoggedInInv`: a copy with an ID and a user is one
  in which the token callback ran, and a session is stored under its own ID. The
  session made of a header has a user and no ID, and is therefore never saved.
* `GitLabAfterRenkuAlways`, if every login begins with Renku (`RenkuFirst`: both default
  sequences do, `login_server_constants.go:3-4`; a login with a `provider_id` of its
  own that begins with GitLab is the case this leaves out). By `GitLabInv`: a session
  without a user waits for a login state that the browser never hears of, or for one
  whose `issuer` is not GitLab, and the browser sends only states it has heard of. The
  second case is that of a callback without a client for its provider.
* `GoodSessionKeptAlways`, if reads of Redis succeed, an action property: by
  `EarlyInv` the session in the context of a handler is the one of the cookie.
* `LogoutSticksAlone`, for one request at a time (`OneAtATime`), with failures and
  crashes: no copy of a deleted session is left anywhere (`DeletedInv`), and IDs are
  new. `SessionsLogout` is the counterexample with two requests.
* `PendingStateStoredAlone`, for one request at a time without failures and
  disconnects. `PendingInv` follows a request through its places:
  IDs are given out in order (`Numbered`); a request came with the cookie that the
  browser still has, and what the middleware did not find is not there later
  (`Carried`); the copy in the context has the state that Redis has, or its first
  save is still to come, or it has expired (`Ahead`); what is written is that copy,
  unless it expired (`Written`); an exchange is under way only when no redirect is
  pending (`Exchanged`); and the response carries the state of the copy and its
  cookie (`Answered`). A session may expire between any two of these.

**`SessionLifetimeProofs`**, from `LifetimeAssumption`. `LifetimeTypeCorrect`, and
`LifetimeAlways`: unless the maximum is zero, `ExpiresAt` is always the earlier of the two limits
(`EarlierLimit`; a negative maximum is no limit), whether `NewSession` or `Touch`
set it; `AsConfiguredAlways` follows for every set of configurations without a
maximum of zero. The run `LifetimeWithoutMaximum` shows why that hypothesis is
needed.

**`StartupProofs`**, from `StartupAssumption`: the two settings that are used as
conditions are truth values, and the TTLs of every layering are among the
configurations of `SessionLifetime`. `StartupTypeCorrect` follows the state of a
process through its start, its end and the next start. `CleanExitAlways` needs
`Served`: once `Shutdown` has returned no request is open, and none can come, for
only an open request is hijacked and nothing is accepted any more; so no event can
come to the closed client, and after `Close`, which empties the queue one way or the
other, none is left for `Return` to drop. What remains are the batches whose upload
failed, before or in `Close`, and these the property lets a clean exit drop.
`EncryptedAsAskedAlways` needs `Keyed`: what `Validate` has seen is what the layers
say, and the key it let pass makes the condition of `main.go:133` true; both are
about every way in which three layers can be merged (`MergeKeeps`).
`SameProvidersAlways` and `SafeInProductionAlways` need `ServedAsRead`, which says of
each place of `main` what has been read, validated and built by then, and that the
settings have not changed since but for the provider that validation removes.
`SharedAsConfigured` composes: the steps of any sequence of processes are steps of
`SessionLifetime` on the session in Redis, or leave it alone, so that `LifetimeInv`
holds of it, and with it `AsConfigured`, if no configuration has a maximum of zero.

**`RevproxyProofs`**, from `RevproxyAssumption` and `AuthenticatorAssumption` (the
types of the paths, tokens and verifiers). The four properties of the headers
follow from one inductive invariant, `HeaderInv`. `SessionInv` and `UserInv` say
whose the session in Redis, the one in the context and each header are: with a
cookie, one user; without one, the subject of the token that the client presents.
`ChainInv` is about the middlewares that have not run yet: before the data service
there is always the one that sets the anonymous ID, or that decision has been taken
(`Settled`) and nothing is left that could undo it (`Late`: the rewriting and the
service itself); this is the argument about their order that the comments of
`revproxy/main.go` make. An error of `Create` ends the chain, and what it did before is a
lookup without effect on the store (`Looks`).
`VerifiedCredentials` is inductive with these; a verifier is the last one with its
authorized party, whose existence needs that a bounded set of numbers has a
greatest member (`Greatest`).

**`RevproxyPathProofs`**, on top of these, for paths of any length.
`DataServicePathAlways` and `EncodingKeptAlways` follow from `PathInv`: before routing
the URL is what was asked for; on the way, it is the one that is `Meant` as soon as no
middleware that rewrites is left in the chain. Removing a trailing slash leaves a URL
that is the parse of the shorter path, or a `Stale` one, whose raw path does not fit any
more (`RemovedIs`). For a stale one every rule works on the decoded path
(`StaleRewritten`, `StaleRules`), and the route, which is found by the raw path, is the one of
the decoded path too, since neither an encoded slash nor a trailing one makes a
difference to the prefixes of the routes (`StalePrefix`, `RoutedStale`). So the path
is right, and only the encoding is lost. `RewriteIs` computes the three rewrite
rules for the UI server, each a case of `ParseIs` (what `url.Parse` gives) and
`ReplacedIs` (what replacing a prefix does to a path and its escaped form).
`ThirdAfterSecond` is the reason for the other exception in `EncodingKept`: the
third rule applies to what the second left, and replaces the decoded path. `Decode`
is a concatenation along the path, and that it commutes with cutting and replacing
prefixes (`DecodeAppend`, `DecodeConcat`) is an induction over data; it is done with
sets instead of predicates, by the least length at which the fact fails (`WFMin`,
`SeqInduction`). `RevproxyTypeCorrect` needs `PathInv` too, for only a path that
begins with the prefix is cut.

**`RedirectStoreProofs`**, from `RedirectAssumption`. `RedirectTypeCorrect`, and
`NeverBackInTimeAlways` by the inductive invariant `OrderInv`: who is past `Lock`
is the writer; each entry is at most what the data service has and at least what
anybody was redirected to; what a request has read or fetched lies in between.
`RefetchedOnlyWhenStaleAlways` adds `StaleUnderLock`: what the holder of the lock
found to be stale is stale until it has stored the answer, for nobody else can
store one. `AtomicLookupsAlways`, that `RedirectStore` implements `RedirectCache`, adds
`CopyIsCurrent`: the copy on which the first check decides is either still the entry
or too old, since an entry is replaced only after its lifetime.

*Only model-checked.* Every safety property of the passing runs is a theorem. Not
proved are the liveness properties, which are out of the prover's reach (fairness
and `ENABLED`): `EveryRequestEnds` and `StrandedUserRecovers` of `TokenStore`,
`EveryLookupEnds` and `ShutdownEnds`. What the other four runs
refute has no proof, of course, and where it holds under a further hypothesis
(`LogoutSticks`, `AsConfigured`) the theorem says under which; so `ErrorReporting`, whose
only property fails, has no theorem. The findings themselves are single
counterexamples and need TLC only.

## 5. What is not modelled

Stateless code whose correctness is that of a library or of a format: the
transformations of encryption and of cookie signing, serialisation, HTML views,
the generated API bindings, logging. Of the configuration the parsing of values,
and the settings that decide nothing in the models. Rate limiting, CORS and the
counters of Prometheus are library middlewares. The discovery of a provider or an
issuer either works or fails. Three injectors in `revproxy/auth.go` belong to no
chain. A client that itself sends the headers of the gateway
(`Renku-Auth-...`, `Gitlab-Access-Token`) is not modelled; the injectors leave
them alone. The clock is the same for all replicas, and Redis is one server that
executes one command at a time: fail-over between sentinels is not modelled. In
`Startup` a request is atomic but for the connection that it keeps; its commands
one by one, and what a crash between them leaves, are the subject of `Sessions` and
`TokenStore`.

## 6. Plan

1. *Done:* the token store, sessions and login, the lifetime of a session, the
   reverse proxy with the verification of tokens, the redirect store, error
   reporting, the configuration, the start and end of a process; two abstract
   specifications and the refinements, checked and proved.
2. *Left:* `Gateway`, sessions and tokens together: a logout in one session of a
   user and a refresh in another, an ID token that is read by the logout, one of
   them expiring before the other.
3. *Left to prove:* the same of `Gateway`. Of what there is, `PendingStateStored` with
   failures, in the weaker form that a failed save is answered with an error and not
   with a redirect; and a browser with several requests of which only one is a
   logout, where `LogoutSticks` holds of all but those that overlap it.

## 7. Running it

    tlc -config TokenStoreFaults.cfg MCTokenStore.tla
    tlapm TokenStoreProofs.tla

and likewise for the other runs, whose modules are in `PROJECT.json`. The longest
takes a few minutes with two workers.
