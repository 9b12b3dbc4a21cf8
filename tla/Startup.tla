------------------------------- MODULE Startup -------------------------------
(***************************************************************************)
(* The life of a gateway process (cmd/gateway/main.go): it loads and         *)
(* validates its configuration, builds one component after the other, serves *)
(* requests until it is interrupted, drains them, and is started again,      *)
(* perhaps with another configuration.  What is in Redis survives: the       *)
(* session of SessionLifetime, and a user's tokens.                          *)
(***************************************************************************)
EXTENDS SessionLifetime, Configuration

CONSTANTS
    Client,      \* connections
    Layerings,   \* the configurations: [main, secret, env]
    MaxQueued    \* bound: events that wait for PostHog

\* The layers give settings of the types of config.Config, and Configured has
\* the TTLs that they can lead to.
ASSUME StartupAssumption ==
    /\ MaxQueued \in Nat
    /\ \A l \in Layerings :
          /\ {getConfig(l).posthog, getConfig(l).encryption} \subseteq BOOLEAN
          /\ [idle |-> getConfig(l).idleSessionTTLSeconds,
              max |-> getConfig(l).maxSessionTTLSeconds] \in Configured

VARIABLES
    layers,      \* the files and variables of this process
    step,        \* how far main has got
    settings,    \* gwConfig
    sealing,     \* the Redis adapter has an encryptor
    clients,     \* the providers of the token store
    loginClients,\* those of the login server
    metrics,     \* there is a PostHog client
    conn,        \* what each connection carries: nothing, a request, a websocket
    events,      \* of the PostHog client: those it has not sent yet, and why it
                 \* dropped others
    exit,        \* how the last process ended: its code, the connections it
                 \* cut and why it dropped events
    atRest       \* the user's tokens in Redis, and whether the process that
                 \* wrote them was asked to encrypt them

process == <<layers, step, settings, sealing, clients, loginClients, metrics, conn,
             events, exit, atRest>>

Construction == <<"load", "validate", "NewRedisAdapter", "NewTokenStore",
    "NewAuthenticator", "NewSessionStore", "NewRedirectStore", "NewPosthogClient",
    "NewLoginServer", "start">>
Step == {Construction[i] : i \in DOMAIN Construction}
          \cup {"serve", "shutdown", "close", "closed", "exited"}

Idle     == [c \in Client |-> "none"]
NoEvents == [queued |-> 0, dropped |-> {}]
NoExit   == [code |-> "none", cut |-> {}, dropped |-> {}]
NoTokens == [form |-> "none", asked |-> FALSE]

StartupTypeOK ==
    /\ layers \in Layerings /\ step \in Step
    /\ {sealing, metrics} \subseteq BOOLEAN /\ (metrics => settings.posthog)
    /\ clients \cup loginClients \subseteq ProviderID
    /\ conn \in [Client -> {"none", "http", "ws"}]
    /\ events \in [queued : 0 .. MaxQueued, dropped : SUBSET {"upload", "closed"}]
    /\ exit \in [code : {"none", "0", "1", "panic", "killed"},
                 cut : SUBSET {"http", "ws"}, dropped : SUBSET {"upload", "closed", "exit"}]
    /\ atRest \in [form : {"none", "plain", "sealed"}, asked : BOOLEAN]

\* The first process comes up in the middle of the life of the system: it has
\* loaded a configuration, and Redis has a session of an earlier one.
StartupInit ==
    /\ Init
    /\ layers \in Layerings /\ step = "load" /\ settings = Default
    /\ sealing = FALSE /\ clients = {} /\ loginClients = {} /\ metrics = FALSE
    /\ conn = Idle /\ events = NoEvents /\ exit = NoExit /\ atRest = NoTokens

----------------------------------------------------------------------------
(* The construction                                                         *)

\* The process ends: os.Exit runs no deferred call, and connections are cut.
Exit(code) ==
    /\ step' = "exited"
    /\ exit' = [code |-> code, cut |-> {conn[c] : c \in Client} \ {"none"},
                dropped |-> events.dropped \cup {why \in {"exit"} : events.queued > 0}]
    /\ conn' = Idle /\ events' = NoEvents
    /\ sealing' = FALSE /\ clients' = {} /\ loginClients' = {} /\ metrics' = FALSE
    /\ UNCHANGED <<vars, layers, settings, atRest>>

\* One constructor: it goes on to the next one if it can, or main exits.
After(name) == Construction[1 + CHOOSE i \in DOMAIN Construction : Construction[i] = name]

Construct(name, possible) ==
    /\ step = name
    /\ possible
    /\ step' = After(name)
    /\ UNCHANGED <<vars, layers, conn, events, exit, atRest>>

Fails(name, possible) == step = name /\ ~possible /\ Exit("1")

\* The files may be missing or unreadable.
Load ==
    \/ /\ Construct("load", TRUE)
       /\ settings' = getConfig(layers)
       /\ UNCHANGED <<sealing, clients, loginClients, metrics>>
    \/ step = "load" /\ Exit("1")

Validate ==
    \/ /\ Construct("validate", Valid(settings))
       /\ settings' = WithoutGitlab(settings)
       /\ UNCHANGED <<sealing, clients, loginClients, metrics>>
    \/ Fails("validate", Valid(settings))

\* WithRedisConfig takes the first address without a look at their number.
NoAddress == settings.redisType = "redis" /\ ~settings.addresses

\* The lengths of key that AES accepts.
CipherKey == {16, 24, 32}

\* The encryptor is an option of the adapter.
Encrypts == settings.encryption /\ settings.secretKey # 0
AdapterPossible ==
    /\ settings.redisType \in {"redis", "redis-mock"}
    /\ Encrypts => settings.secretKey \in CipherKey

NewRedisAdapter ==
    \/ /\ Construct("NewRedisAdapter", AdapterPossible /\ ~NoAddress)
       /\ sealing' = Encrypts
       /\ UNCHANGED <<settings, clients, loginClients, metrics>>
    \/ Fails("NewRedisAdapter", AdapterPossible) /\ ~NoAddress
    \/ step = "NewRedisAdapter" /\ NoAddress /\ Exit("panic")

KeysPossible(keys) == keys.cookieEncodingKey \in {0, 16, 32} /\ keys.cookieHashKey \in {0, 32}

\* NewClientStore makes a client of each provider, and asks the provider for
\* its endpoints, which may fail.
ProvidersPossible == \A id \in Providers(settings) : KeysPossible(settings[id])

NewTokenStore ==
    \/ /\ Construct("NewTokenStore", ProvidersPossible)
       /\ clients' = Providers(settings)
       /\ UNCHANGED <<settings, sealing, loginClients, metrics>>
    \/ step = "NewTokenStore" /\ Exit("1")

NewAuthenticator ==
    \/ /\ Construct("NewAuthenticator", settings.authorizationVerifiers)
       /\ UNCHANGED <<settings, sealing, clients, loginClients, metrics>>
    \/ step = "NewAuthenticator" /\ Exit("1")

SessionsPossible ==
    /\ KeysPossible(settings)
    /\ settings.unsafeNoCookieHandler \/ settings.cookieHashKey # 0

NewSessionStore ==
    \/ /\ Construct("NewSessionStore", SessionsPossible)
       /\ UNCHANGED <<settings, sealing, clients, loginClients, metrics>>
    \/ Fails("NewSessionStore", SessionsPossible)

\* The reverse proxy, which comes next, cannot fail.
RedirectsPossible == settings.redirects => settings.redirectsBaseURL

NewRedirectStore ==
    \/ /\ Construct("NewRedirectStore", RedirectsPossible)
       /\ UNCHANGED <<settings, sealing, clients, loginClients, metrics>>
    \/ Fails("NewRedirectStore", RedirectsPossible)

\* Mutant of NewPosthogClient: there is a client although none is enabled.
NewPosthogClientAlways ==
    /\ Construct("NewPosthogClient", TRUE)
    /\ metrics' = TRUE
    /\ UNCHANGED <<settings, sealing, clients, loginClients>>

NewPosthogClient ==
    \/ /\ Construct("NewPosthogClient", TRUE)
       /\ metrics' = settings.posthog
       /\ UNCHANGED <<settings, sealing, clients, loginClients>>
    \/ step = "NewPosthogClient" /\ settings.posthog /\ Exit("1")

\* The second client of each provider, and the second discovery.
NewLoginServer ==
    \/ /\ Construct("NewLoginServer", ProvidersPossible)
       /\ loginClients' = Providers(settings)
       /\ UNCHANGED <<settings, sealing, clients, metrics>>
    \/ step = "NewLoginServer" /\ Exit("1")

\* The servers run in goroutines of their own before main listens to signals.
Notify ==
    /\ step = "start"
    /\ step' = "serve"
    /\ UNCHANGED <<vars, layers, settings, sealing, clients, loginClients, metrics,
                   conn, events, exit, atRest>>

----------------------------------------------------------------------------
(* Requests                                                                 *)

Listens == step \in {"start", "serve"}
Alive   == Listens \/ step \in {"shutdown", "close", "closed"}

\* The mock keeps in the process what Redis keeps otherwise.
InRedis == settings.redisType = "redis"

Carries(c, what) == conn' = [conn EXCEPT ![c] = what]
others == <<layers, step, settings, sealing, clients, loginClients, metrics, exit>>

Accept(c) ==
    /\ Listens /\ conn[c] = "none"
    /\ Carries(c, "http")
    /\ UNCHANGED <<vars, others, events, atRest>>

\* The proxy to the UI server hijacks the connection of a websocket.
Hijack(c) ==
    /\ Alive /\ conn[c] = "http"
    /\ Carries(c, "ws")
    /\ UNCHANGED <<vars, others, events, atRest>>

Finish(c) ==
    /\ Alive /\ conn[c] # "none"
    /\ Carries(c, "none")
    /\ UNCHANGED <<vars, others, events, atRest>>

\* The request uses the session that is in Redis, or makes the next one, which
\* has the TTLs of this process.
UseSession(c) ==
    /\ Alive /\ conn[c] = "http" /\ InRedis
    /\ Use
    /\ Carries(c, "none")
    /\ UNCHANGED <<others, events, atRest>>

NewSession(c) ==
    /\ Alive /\ conn[c] = "http" /\ InRedis
    /\ config' = [idle |-> settings.idleSessionTTLSeconds,
                  max |-> settings.maxSessionTTLSeconds]
    /\ created' = now /\ last' = now
    /\ exp' = FirstExpiry(now, config'.idle, config'.max)
    /\ Carries(c, "none")
    /\ UNCHANGED <<now, others, events, atRest>>

\* The last callback of a login: the tokens are stored, and the event of the
\* login is left to the PostHog client, which refuses it once it is closed.
LogIn(c) ==
    /\ Alive /\ conn[c] = "http" /\ InRedis /\ loginClients # {}
    /\ metrics => events.queued < MaxQueued
    /\ atRest' = [form |-> IF sealing THEN "sealed" ELSE "plain",
                  asked |-> getConfig(layers).encryption]
    /\ events' = CASE ~metrics         -> events
                   [] step = "closed"  -> [events EXCEPT !.dropped = @ \cup {"closed"}]
                   [] OTHER            -> [events EXCEPT !.queued = @ + 1]
    /\ Carries(c, "none")
    /\ UNCHANGED <<vars, others>>

\* The PostHog client uploads what it has.  If that fails, after some retries or
\* when it is being closed, the events are gone, and nobody is told.
Upload ==
    \E failed \in SUBSET {"upload"} :
        /\ failed # {} => events.queued > 0
        /\ events' = [queued |-> 0, dropped |-> events.dropped \cup failed]

Send ==
    /\ Alive /\ events.queued > 0
    /\ Upload
    /\ UNCHANGED <<vars, others, conn, atRest>>

----------------------------------------------------------------------------
(* The end of the process                                                   *)

\* The first interrupt after Notify; Shutdown closes the listener.
Interrupt ==
    /\ step = "serve"
    /\ step' = "shutdown"
    /\ UNCHANGED <<vars, layers, settings, sealing, clients, loginClients, metrics,
                   conn, events, exit, atRest>>

\* Mutant of Drained: Shutdown waits for nothing.
NotDrained ==
    /\ step = "shutdown"
    /\ step' = "close"
    /\ UNCHANGED <<vars, layers, settings, sealing, clients, loginClients, metrics,
                   conn, events, exit, atRest>>

\* Shutdown waits for the requests, not for hijacked connections.
Drained ==
    /\ step = "shutdown" /\ \A c \in Client : conn[c] # "http"
    /\ step' = "close"
    /\ UNCHANGED <<vars, layers, settings, sealing, clients, loginClients, metrics,
                   conn, events, exit, atRest>>

\* Mutant of TimeOut: Shutdown has no timeout.
TimeOutNever == FALSE

\* The ten seconds are over: os.Exit without the deferred Close.
TimeOut == step = "shutdown" /\ Exit("1")

\* The deferred Close uploads what is queued, and ignores whether that worked.
Close ==
    /\ step = "close"
    /\ step' = "closed"
    /\ Upload
    /\ UNCHANGED <<vars, layers, settings, sealing, clients, loginClients, metrics,
                   conn, exit, atRest>>

\* main has returned; what the open websockets carry is lost.
Return == step = "closed" /\ Exit("0")

\* A server that cannot listen ends the process; that of Prometheus may do so
\* until the end.
ServerFails == (Listens \/ (Alive /\ settings.prometheus)) /\ Exit("1")

\* SIGTERM, for which main does not listen, SIGKILL, a crash; an interrupt that
\* comes before Notify.
Killed == step # "exited" /\ Exit("killed")

Restart ==
    /\ step = "exited"
    /\ layers' \in Layerings
    /\ step' = "load" /\ settings' = Default /\ exit' = NoExit
    /\ UNCHANGED <<vars, sealing, clients, loginClients, metrics, conn, events, atRest>>

StartupTick == Tick /\ UNCHANGED process

StartupNext ==
    \/ Load \/ Validate \/ NewRedisAdapter \/ NewTokenStore \/ NewAuthenticator
    \/ NewSessionStore \/ NewRedirectStore \/ NewPosthogClient \/ NewLoginServer
    \/ Notify
    \/ \E c \in Client :
          Accept(c) \/ Hijack(c) \/ Finish(c) \/ UseSession(c) \/ NewSession(c) \/ LogIn(c)
    \/ Send \/ Interrupt \/ Drained \/ TimeOut \/ Close \/ Return \/ ServerFails \/ Killed \/ Restart
    \/ StartupTick

\* The timeout of Shutdown fires, and the upload in Close ends, well or not;
\* nothing is assumed of requests, signals or the clock.
StartupSpec ==
    /\ StartupInit /\ [][StartupNext]_<<vars, process>>
    /\ WF_<<vars, process>>(TimeOut) /\ WF_<<vars, process>>(Close)
    /\ WF_<<vars, process>>(Return)

----------------------------------------------------------------------------
(* Properties                                                               *)

\* What the layers say of a setting: "the order of preference from most
\* preferred to least is environment variables, secret config, non-secret
\* config" (config_handler.go:27-29).
Says(s) == LET named == {l \in {"env", "secret", "main"} : s \in DOMAIN layers[l]}
           IN  CASE "env" \in named    -> layers.env[s]
                 [] named = {"secret"} \/ named = {"secret", "main"} -> layers.secret[s]
                 [] named = {"main"}   -> layers.main[s]
                 [] named = {}         -> Default[s]

\* A deployment that asks for encryption has no token in plain text in Redis
\* that it wrote itself: the adapter gets its encryptor under one condition
\* (main.go:133) and LoginConfig.Validate accepts the key under another
\* (login.go:42), in the presence of three layers that may set either.
EncryptedAsAsked == atRest.form = "plain" => ~atRest.asked

\* "for testing, in production this has to be false/unset" (session.go:11-13,
\* login.go:29-31): unless the most preferred layer says "development", no
\* process serves requests with the mock of Redis, without the cookies of the
\* session store, or with a provider without cookies.
SafeInProduction ==
    Listens /\ Says("runningEnvironment") # "development" =>
        /\ settings.redisType # "redis-mock"
        /\ ~settings.unsafeNoCookieHandler
        /\ \A id \in clients \cup loginClients : ~settings[id].unsafeNoCookieHandler

\* The login server and the token store build their clients at two places of
\* main: what one obtains the other can refresh, and neither has a client of
\* GitLab if the internal GitLab is not enabled, because a validation removed it
\* before (login.go:38-41).
SameProviders ==
    Listens => /\ loginClients = clients
               /\ ~Says("enableInternalGitlab") => "gitlab" \notin clients

\* A process that ends with code 0, and not with "shutting down the server
\* gracefully failed" (main.go:258), cut no request, but perhaps websockets; and
\* what its PostHog client dropped are batches whose upload failed: no event
\* waited when main returned, and no login came to a client that was closed
\* already, because main closes it after Shutdown has seen all requests end.
CleanExit ==
    exit.code = "0" => exit.cut \subseteq {"ws"} /\ exit.dropped \subseteq {"upload"}

\* An interrupt ends the process although a request may never end.
ShutdownEnds == step = "shutdown" ~> step = "exited"
=============================================================================
