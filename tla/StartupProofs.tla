---------------------------- MODULE StartupProofs ----------------------------
(***************************************************************************)
(* For every set of configurations: tokens are encrypted if that is asked    *)
(* for, all components have the settings that validation let pass, settings  *)
(* for tests stay in development, a process that ends with code 0 has drained *)
(* its requests and sent its events, and the session in Redis keeps the      *)
(* lifetime of the process that made it.                                     *)
(***************************************************************************)
EXTENDS Startup, SessionLifetimeProofs, TLAPS

\* main takes its steps in the order in which Construction names them.
LEMMA Order ==
    /\ After("load") = "validate"
    /\ After("validate") = "NewRedisAdapter"
    /\ After("NewRedisAdapter") = "NewTokenStore"
    /\ After("NewTokenStore") = "NewAuthenticator"
    /\ After("NewAuthenticator") = "NewSessionStore"
    /\ After("NewSessionStore") = "NewRedirectStore"
    /\ After("NewRedirectStore") = "NewPosthogClient"
    /\ After("NewPosthogClient") = "NewLoginServer"
    /\ After("NewLoginServer") = "start"
<1>1. ASSUME NEW i \in 1 .. 9
      PROVE  After(Construction[i]) = Construction[i + 1]
  <2>1. DOMAIN Construction = 1 .. 10
    BY DEF Construction
  <2>2. \A j \in 1 .. 10 : Construction[j] = Construction[i] => j = i
    BY DEF Construction
  <2>3. (CHOOSE j \in DOMAIN Construction : Construction[j] = Construction[i]) = i
    BY <2>1, <2>2
  <2>4. After(Construction[i])
          = Construction[1 + CHOOSE j \in DOMAIN Construction : Construction[j] = Construction[i]]
    BY Zenon DEF After
  <2>5. 1 + i = i + 1
    OBVIOUS
  <2>6. QED
    BY <2>3, <2>4, <2>5, Zenon
<1>2. After(Construction[1]) = Construction[2] /\ After(Construction[2]) = Construction[3]
  BY <1>1
<1>3. After(Construction[3]) = Construction[4] /\ After(Construction[4]) = Construction[5]
  BY <1>1
<1>4. After(Construction[5]) = Construction[6] /\ After(Construction[6]) = Construction[7]
  BY <1>1
<1>5. After(Construction[7]) = Construction[8] /\ After(Construction[8]) = Construction[9]
  BY <1>1
<1>6. After(Construction[9]) = Construction[10]
  BY <1>1
<1>7. /\ Construction[1] = "load" /\ Construction[2] = "validate"
      /\ Construction[3] = "NewRedisAdapter" /\ Construction[4] = "NewTokenStore"
      /\ Construction[5] = "NewAuthenticator" /\ Construction[6] = "NewSessionStore"
      /\ Construction[7] = "NewRedirectStore" /\ Construction[8] = "NewPosthogClient"
      /\ Construction[9] = "NewLoginServer" /\ Construction[10] = "start"
  BY DEF Construction
<1>8. QED
  BY <1>2, <1>3, <1>4, <1>5, <1>6, <1>7

\* A merge has every setting of the layer below.
LEMMA MergeKeeps ==
    ASSUME NEW over, NEW under, NEW s \in DOMAIN under
    PROVE  s \in DOMAIN Merge(over, under)
BY DEF Merge, Over

\* The configuration has the two settings of the encryption.
LEMMA Named ==
    ASSUME NEW l
    PROVE  {"encryption", "secretKey"} \subseteq DOMAIN getConfig(l)
<1>1. {"encryption", "secretKey"} \subseteq DOMAIN Default
  BY DEF Default
<1>2. {"encryption", "secretKey"} \subseteq DOMAIN Read(l)
  BY <1>1, MergeKeeps DEF Read
<1>3. QED
  BY <1>2 DEF getConfig

\* Validation keeps them.
LEMMA Kept ==
    ASSUME NEW c, {"encryption", "secretKey"} \subseteq DOMAIN c
    PROVE  /\ WithoutGitlab(c).encryption = c.encryption
           /\ WithoutGitlab(c).secretKey = c.secretKey
BY DEF WithoutGitlab

----------------------------------------------------------------------------
(* A process that ends with code 0                                          *)

\* What makes it inductive: once Shutdown has returned no request is left, and
\* since nothing is accepted any more none comes; so the PostHog client has no
\* event once it is closed, and is not asked to take one.
Served ==
    /\ conn \in [Client -> {"none", "http", "ws"}]
    /\ events \in [queued : Int, dropped : SUBSET {"upload"}]
    /\ step \in {"close", "closed"} => \A c \in Client : conn[c] # "http"
    /\ step = "closed" => events.queued = 0
    /\ CleanExit

\* Every way out but the last return keeps it, whatever was open.
LEMMA ExitServed ==
    ASSUME Served, NEW code, Exit(code), code = "0" => step = "closed"
    PROVE  Served'
<1>1. /\ conn' = Idle /\ events' = NoEvents /\ step' = "exited" /\ exit'.code = code
      /\ exit'.cut = {conn[c] : c \in Client} \ {"none"}
      /\ exit'.dropped = events.dropped \cup {why \in {"exit"} : events.queued > 0}
  BY DEF Exit
<1>2. (conn \in [Client -> {"none", "http", "ws"}])'
  BY <1>1 DEF Idle
<1>3. (events \in [queued : Int, dropped : SUBSET {"upload"}])'
  BY <1>1 DEF NoEvents
<1>4. CleanExit'
  <2>1. SUFFICES ASSUME code = "0"
                 PROVE  exit'.cut \subseteq {"ws"} /\ exit'.dropped \subseteq {"upload"}
    BY <1>1 DEF CleanExit
  <2>2. {conn[c] : c \in Client} \subseteq {"none", "ws"}
    BY <2>1 DEF Served
  <2>3. events.queued = 0 /\ events.dropped \subseteq {"upload"}
    BY <2>1 DEF Served
  <2>4. {why \in {"exit"} : events.queued > 0} = {}
    BY <2>3
  <2>5. QED
    BY <1>1, <2>2, <2>3, <2>4
<1>5. QED
  BY <1>1, <1>2, <1>3, <1>4 DEF Served

\* So do the steps of main from one constructor to the next.
LEMMA ConstructServed ==
    ASSUME Served, NEW name, NEW possible, Construct(name, possible),
           After(name) \notin {"close", "closed"}
    PROVE  Served'
BY DEF Served, CleanExit, Construct

\* An upload empties the queue.
LEMMA UploadServed ==
    ASSUME Served, Upload
    PROVE  (events \in [queued : Int, dropped : SUBSET {"upload"}] /\ events.queued = 0)'
<1>1. PICK failed \in SUBSET {"upload"} :
          events' = [queued |-> 0, dropped |-> events.dropped \cup failed]
  BY DEF Upload
<1>2. events.dropped \in SUBSET {"upload"}
  BY DEF Served
<1>3. events.dropped \cup failed \in SUBSET {"upload"}
  BY <1>2
<1>4. QED
  BY <1>1, <1>3

LEMMA StepServed == Served /\ [StartupNext]_<<vars, process>> => Served'
<1> SUFFICES ASSUME Served, [StartupNext]_<<vars, process>> PROVE Served'
  OBVIOUS
<1>1. CASE \/ Load \/ Validate \/ NewRedisAdapter \/ NewTokenStore \/ NewAuthenticator
           \/ NewSessionStore \/ NewRedirectStore \/ NewPosthogClient \/ NewLoginServer
  <2>1. ASSUME NEW code \in {"1", "panic"}, Exit(code) PROVE Served'
    BY <2>1, ExitServed
  <2>2. ASSUME NEW name \in {"load", "validate", "NewRedisAdapter", "NewTokenStore",
                             "NewAuthenticator", "NewSessionStore", "NewRedirectStore",
                             "NewPosthogClient", "NewLoginServer"},
               NEW possible, Construct(name, possible)
        PROVE  Served'
    <3>1. After(name) \notin {"close", "closed"}
      BY Order
    <3>2. QED
      BY <2>2, <3>1, ConstructServed
  <2>3. CASE Load
    BY <2>1, <2>2, <2>3 DEF Load
  <2>4. CASE Validate
    BY <2>1, <2>2, <2>4 DEF Validate, Fails
  <2>5. CASE NewRedisAdapter
    BY <2>1, <2>2, <2>5 DEF NewRedisAdapter, Fails
  <2>6. CASE NewTokenStore \/ NewAuthenticator
    BY <2>1, <2>2, <2>6 DEF NewTokenStore, NewAuthenticator
  <2>7. CASE NewSessionStore \/ NewRedirectStore
    BY <2>1, <2>2, <2>7 DEF NewSessionStore, NewRedirectStore, Fails
  <2>8. CASE NewPosthogClient \/ NewLoginServer
    BY <2>1, <2>2, <2>8 DEF NewPosthogClient, NewLoginServer
  <2>9. QED
    BY <1>1, <2>3, <2>4, <2>5, <2>6, <2>7, <2>8
<1>2. CASE Notify \/ Interrupt
  BY <1>2 DEF Served, CleanExit, Notify, Interrupt
<1>3. CASE Drained
  BY <1>3 DEF Served, CleanExit, Drained
<1>4. ASSUME NEW c \in Client,
             Accept(c) \/ Hijack(c) \/ Finish(c) \/ UseSession(c) \/ NewSession(c) \/ LogIn(c)
      PROVE  Served'
  <2>1. /\ step' = step /\ exit' = exit
        /\ \/ conn' = [conn EXCEPT ![c] = "none"]
           \/ conn' = [conn EXCEPT ![c] = "http"] /\ step \notin {"close", "closed"}
           \/ conn' = [conn EXCEPT ![c] = "ws"]
    BY <1>4 DEF Accept, Hijack, Finish, UseSession, NewSession, LogIn, Listens, Carries, others
  <2>2. /\ (events \in [queued : Int, dropped : SUBSET {"upload"}])'
        /\ step = "closed" => events' = events
    <3>1. CASE events' = events
      BY <3>1 DEF Served
    <3>2. CASE LogIn(c)
      <4>1. step # "closed"
        BY <3>2 DEF LogIn, Served
      <4>2. events' = events \/ events' = [events EXCEPT !.queued = @ + 1]
        BY <3>2, <4>1 DEF LogIn
      <4>3. QED
        BY <4>1, <4>2 DEF Served
    <3>3. QED
      BY <1>4, <3>1, <3>2 DEF Accept, Hijack, Finish, UseSession, NewSession
  <2>3. QED
    BY <2>1, <2>2 DEF Served, CleanExit
<1>5. CASE StartupTick \/ UNCHANGED <<vars, process>>
  BY <1>5 DEF Served, CleanExit, StartupTick, process
<1>6. CASE TimeOut \/ ServerFails \/ Killed
  <2>1. PICK code \in {"1", "killed"} : Exit(code)
    BY <1>6 DEF TimeOut, ServerFails, Killed
  <2>2. QED
    BY <2>1, ExitServed
<1>7. CASE Send \/ Close
  <2>1. Upload /\ UNCHANGED <<conn, exit>> /\ (step' = step \/ step = "close")
    BY <1>7 DEF Send, Close, others
  <2>2. QED
    BY <2>1, UploadServed DEF Served, CleanExit
<1>8. CASE Return
  BY <1>8, ExitServed DEF Return
<1>9. CASE Restart
  BY <1>9 DEF Served, CleanExit, Restart, NoExit
<1>10. QED
  BY <1>1, <1>2, <1>3, <1>4, <1>5, <1>6, <1>7, <1>8, <1>9 DEF StartupNext

\* A process that ends with code 0 has cut no request, and its PostHog client
\* dropped no event but those whose upload failed: none waited when main
\* returned, and none came after the client was closed (main.go:186-193,251-260,
\* posthog.go:20-26); whatever the configuration, however many connections there
\* are and however often the process is started again.
THEOREM CleanExitAlways == StartupSpec => []CleanExit
<1>1. StartupInit => Served
  BY DEF StartupInit, Served, CleanExit, Idle, NoEvents, NoExit
<1>2. Served /\ [StartupNext]_<<vars, process>> => Served'
  BY StepServed
<1>3. Served => CleanExit
  BY DEF Served
<1>4. QED
  BY <1>1, <1>2, <1>3, PTL DEF StartupSpec

----------------------------------------------------------------------------
(* The encryption of tokens                                                 *)

\* The steps of a process that has validated its configuration.
Validated == Step \ {"load", "validate", "exited"}

\* What makes it inductive: Validate has seen what the layers say, and it let
\* only a key pass that the adapter takes too.
Keyed ==
    /\ step \in Step
    /\ step = "validate" => settings = getConfig(layers)
    /\ step \in Validated =>
          /\ settings.encryption = getConfig(layers).encryption
          /\ settings.encryption => settings.secretKey = 32
    /\ step \in Validated \ {"NewRedisAdapter"} => (settings.encryption => sealing)
    /\ EncryptedAsAsked

LEMMA Steps ==
    Step = {"load", "validate", "NewRedisAdapter", "NewTokenStore", "NewAuthenticator",
            "NewSessionStore", "NewRedirectStore", "NewPosthogClient", "NewLoginServer",
            "start", "serve", "shutdown", "close", "closed", "exited"}
<1>1. {Construction[i] : i \in DOMAIN Construction}
        = {"load", "validate", "NewRedisAdapter", "NewTokenStore", "NewAuthenticator",
           "NewSessionStore", "NewRedirectStore", "NewPosthogClient", "NewLoginServer",
           "start"}
  <2>1. DOMAIN Construction = {1, 2, 3, 4, 5, 6, 7, 8, 9, 10}
    BY DEF Construction
  <2>2. QED
    BY <2>1 DEF Construction
<1>2. QED
  BY <1>1 DEF Step

LEMMA ExitKeyed ==
    ASSUME Keyed, NEW code, Exit(code)
    PROVE  Keyed'
BY Steps DEF Keyed, EncryptedAsAsked, Exit, Validated

\* A constructor after the adapter changes nothing of this.
LEMMA ConstructKeyed ==
    ASSUME Keyed, NEW name \in {"NewTokenStore", "NewAuthenticator", "NewSessionStore",
                                "NewRedirectStore", "NewPosthogClient", "NewLoginServer"},
           NEW possible, Construct(name, possible), UNCHANGED <<settings, sealing>>
    PROVE  Keyed'
BY Order, Steps DEF Keyed, EncryptedAsAsked, Construct, Validated

LEMMA StepKeyed == Keyed /\ [StartupNext]_<<vars, process>> => Keyed'
<1> SUFFICES ASSUME Keyed, [StartupNext]_<<vars, process>> PROVE Keyed'
  OBVIOUS
<1>1. CASE Load
  <2>1. CASE Construct("load", TRUE) /\ settings' = getConfig(layers)
    BY <2>1, Order, Steps DEF Keyed, EncryptedAsAsked, Construct, Validated
  <2>2. CASE Exit("1")
    BY <2>2, ExitKeyed
  <2>3. QED
    BY <1>1, <2>1, <2>2 DEF Load
<1>2. CASE Validate
  <2>1. CASE Construct("validate", Valid(settings)) /\ settings' = WithoutGitlab(settings)
    <3>1. settings = getConfig(layers) /\ layers' = layers /\ atRest' = atRest
          /\ step' = "NewRedisAdapter"
      BY <2>1, Order DEF Keyed, Construct
    <3>2. settings.encryption => settings.secretKey = 32
      BY <2>1 DEF Construct, Valid, LoginValid
    <3>3. settings'.encryption = settings.encryption /\ settings'.secretKey = settings.secretKey
      BY <2>1, <3>1, Named, Kept
    <3>4. QED
      BY <3>1, <3>2, <3>3, Steps DEF Keyed, EncryptedAsAsked, Validated
  <2>2. CASE Exit("1")
    BY <2>2, ExitKeyed
  <2>3. QED
    BY <1>2, <2>1, <2>2 DEF Validate, Fails
<1>3. CASE NewRedisAdapter
  <2>1. CASE /\ Construct("NewRedisAdapter", AdapterPossible /\ ~NoAddress)
             /\ sealing' = Encrypts /\ UNCHANGED settings
    <3>1. /\ step = "NewRedisAdapter" /\ step' = "NewTokenStore" /\ settings' = settings
          /\ layers' = layers /\ atRest' = atRest
      BY <2>1, Order DEF Construct
    <3>2. settings.encryption => Encrypts
      BY <3>1, Steps DEF Keyed, Validated, Encrypts
    <3>3. QED
      BY <2>1, <3>1, <3>2, Steps DEF Keyed, EncryptedAsAsked, Validated
  <2>2. ASSUME NEW code, Exit(code) PROVE Keyed'
    BY <2>2, ExitKeyed
  <2>3. QED
    BY <1>3, <2>1, <2>2 DEF NewRedisAdapter, Fails
<1>4. CASE \/ NewTokenStore \/ NewAuthenticator \/ NewSessionStore \/ NewRedirectStore
           \/ NewPosthogClient \/ NewLoginServer
  <2>1. ASSUME NEW name \in {"NewTokenStore", "NewAuthenticator", "NewSessionStore",
                             "NewRedirectStore", "NewPosthogClient", "NewLoginServer"},
               NEW possible, Construct(name, possible), UNCHANGED <<settings, sealing>>
        PROVE  Keyed'
    BY <2>1, ConstructKeyed
  <2>2. ASSUME Exit("1") PROVE Keyed'
    BY <2>2, ExitKeyed
  <2>3. CASE NewTokenStore \/ NewAuthenticator
    BY <2>1, <2>2, <2>3 DEF NewTokenStore, NewAuthenticator
  <2>4. CASE NewSessionStore \/ NewRedirectStore
    BY <2>1, <2>2, <2>4 DEF NewSessionStore, NewRedirectStore, Fails
  <2>5. CASE NewPosthogClient \/ NewLoginServer
    BY <2>1, <2>2, <2>5 DEF NewPosthogClient, NewLoginServer
  <2>6. QED
    BY <1>4, <2>3, <2>4, <2>5
<1>5. CASE Notify \/ Interrupt \/ Drained \/ Close
  BY <1>5, Steps DEF Keyed, EncryptedAsAsked, Notify, Interrupt, Drained, Close, Validated
<1>6. ASSUME NEW c \in Client, LogIn(c) PROVE Keyed'
  <2>1. step \in Validated \ {"NewRedisAdapter"} /\ UNCHANGED <<step, settings, layers, sealing>>
    BY <1>6, Steps DEF LogIn, Alive, Listens, others, Validated
  <2>2. atRest'.form = "plain" => ~atRest'.asked
    BY <1>6, <2>1 DEF LogIn, Keyed
  <2>3. QED
    BY <2>1, <2>2 DEF Keyed, EncryptedAsAsked, Validated
<1>7. ASSUME NEW c \in Client, Accept(c) \/ Hijack(c) \/ Finish(c) \/ UseSession(c) \/ NewSession(c)
      PROVE  Keyed'
  <2>1. UNCHANGED <<step, settings, layers, sealing, atRest>>
    BY <1>7 DEF Accept, Hijack, Finish, UseSession, NewSession, others
  <2>2. QED
    BY <2>1 DEF Keyed, EncryptedAsAsked, Validated
<1>8. CASE Send \/ StartupTick \/ UNCHANGED <<vars, process>>
  BY <1>8 DEF Keyed, EncryptedAsAsked, Validated, Send, others, StartupTick, process
<1>9. CASE TimeOut \/ Return \/ ServerFails \/ Killed
  BY <1>9, ExitKeyed DEF TimeOut, Return, ServerFails, Killed
<1>10. CASE Restart
  BY <1>10, Steps DEF Keyed, EncryptedAsAsked, Restart, Validated
<1>11. QED
  BY <1>1, <1>2, <1>3, <1>4, <1>5, <1>6, <1>7, <1>8, <1>9, <1>10 DEF StartupNext

\* A process that was asked to encrypt tokens writes none in plain text
\* (main.go:131-141, login.go:42-44), whatever the layers of its configuration
\* and those of the processes before it are.
THEOREM EncryptedAsAskedAlways == StartupSpec => []EncryptedAsAsked
<1>1. StartupInit => Keyed
  BY Steps DEF StartupInit, Keyed, EncryptedAsAsked, NoTokens, Validated
<1>2. Keyed /\ [StartupNext]_<<vars, process>> => Keyed'
  BY StepKeyed
<1>3. Keyed => EncryptedAsAsked
  BY DEF Keyed
<1>4. QED
  BY <1>1, <1>2, <1>3, PTL DEF StartupSpec

----------------------------------------------------------------------------
(* What a process serves with                                               *)

\* The settings of a process that serves are those of its layers, validated,
\* and it has the providers that are left in them.
ServedAsRead ==
    /\ step \in Step /\ layers \in Layerings
    /\ step = "validate" => settings = getConfig(layers)
    /\ step \in Validated =>
          Valid(getConfig(layers)) /\ settings = WithoutGitlab(getConfig(layers))
    /\ step \in Validated \ {"NewRedisAdapter", "NewTokenStore"} => clients = Providers(settings)
    /\ Alive => loginClients = Providers(settings)

LEMMA ExitServedAsRead ==
    ASSUME ServedAsRead, NEW code, Exit(code)
    PROVE  ServedAsRead'
BY Steps DEF ServedAsRead, Exit, Validated, Alive, Listens

LEMMA ConstructServedAsRead ==
    ASSUME ServedAsRead, NEW name \in {"NewRedisAdapter", "NewAuthenticator", "NewSessionStore",
                                      "NewRedirectStore", "NewPosthogClient"},
           NEW possible, Construct(name, possible), UNCHANGED <<settings, clients, loginClients>>
    PROVE  ServedAsRead'
<1>1. name \in Step /\ step = name /\ step' = After(name) /\ layers' = layers
  BY Steps DEF Construct
<1>2. step' \in Step /\ step' # "validate" /\ ~Alive'
  BY <1>1, Order, Steps DEF Alive, Listens
<1>3. step \in Validated
  BY <1>1, Steps DEF Validated
<1>4. /\ step' \in Validated \ {"NewRedisAdapter", "NewTokenStore"}
            => step \in Validated \ {"NewRedisAdapter", "NewTokenStore"}
  BY <1>1, <1>3, Order
<1>5. QED
  BY <1>1, <1>2, <1>3, <1>4 DEF ServedAsRead

LEMMA StepServedAsRead ==
    ServedAsRead /\ [StartupNext]_<<vars, process>> => ServedAsRead'
<1> SUFFICES ASSUME ServedAsRead, [StartupNext]_<<vars, process>> PROVE ServedAsRead'
  OBVIOUS
<1>1. ASSUME NEW code, Exit(code) PROVE ServedAsRead'
  BY <1>1, ExitServedAsRead
<1>2. CASE Load
  <2>1. CASE Construct("load", TRUE) /\ settings' = getConfig(layers)
    BY <2>1, Order, Steps DEF ServedAsRead, Construct, Validated, Alive, Listens
  <2>2. QED
    BY <1>1, <1>2, <2>1 DEF Load
<1>3. CASE Validate
  <2>1. CASE Construct("validate", Valid(settings)) /\ settings' = WithoutGitlab(settings)
    <3>1. /\ settings = getConfig(layers) /\ layers' = layers /\ Valid(settings)
          /\ step' = "NewRedisAdapter"
      BY <2>1, Order DEF ServedAsRead, Construct
    <3>2. QED
      BY <2>1, <3>1, Steps DEF ServedAsRead, Validated, Alive, Listens
  <2>2. QED
    BY <1>1, <1>3, <2>1 DEF Validate, Fails
<1>4. CASE NewTokenStore
  <2>1. CASE /\ Construct("NewTokenStore", ProvidersPossible)
             /\ clients' = Providers(settings) /\ UNCHANGED <<settings, loginClients>>
    <3>1. /\ step = "NewTokenStore" /\ layers' = layers /\ step' = "NewAuthenticator"
      BY <2>1, Order DEF Construct
    <3>2. QED
      BY <2>1, <3>1, Steps DEF ServedAsRead, Validated, Alive, Listens
  <2>2. QED
    BY <1>1, <1>4, <2>1 DEF NewTokenStore
<1>5. CASE NewLoginServer
  <2>1. CASE /\ Construct("NewLoginServer", ProvidersPossible)
             /\ loginClients' = Providers(settings) /\ UNCHANGED <<settings, clients>>
    <3>1. /\ step = "NewLoginServer" /\ layers' = layers /\ step' = "start"
      BY <2>1, Order DEF Construct
    <3>2. QED
      BY <2>1, <3>1, Steps DEF ServedAsRead, Validated, Alive, Listens
  <2>2. QED
    BY <1>1, <1>5, <2>1 DEF NewLoginServer
<1>6. CASE \/ NewRedisAdapter \/ NewAuthenticator \/ NewSessionStore \/ NewRedirectStore
           \/ NewPosthogClient
  <2>1. ASSUME NEW name \in {"NewRedisAdapter", "NewAuthenticator", "NewSessionStore",
                             "NewRedirectStore", "NewPosthogClient"},
               NEW possible, Construct(name, possible), UNCHANGED <<settings, clients, loginClients>>
        PROVE  ServedAsRead'
    BY <2>1, ConstructServedAsRead
  <2>2. CASE NewRedisAdapter
    BY <1>1, <2>1, <2>2 DEF NewRedisAdapter, Fails
  <2>3. CASE NewAuthenticator \/ NewPosthogClient
    BY <1>1, <2>1, <2>3 DEF NewAuthenticator, NewPosthogClient
  <2>4. CASE NewSessionStore \/ NewRedirectStore
    BY <1>1, <2>1, <2>4 DEF NewSessionStore, NewRedirectStore, Fails
  <2>5. QED
    BY <1>6, <2>2, <2>3, <2>4
<1>7. CASE Notify \/ Interrupt \/ Drained \/ Close
  BY <1>7, Steps DEF ServedAsRead, Notify, Interrupt, Drained, Close, Validated, Alive, Listens
<1>8. ASSUME NEW c \in Client,
             Accept(c) \/ Hijack(c) \/ Finish(c) \/ UseSession(c) \/ NewSession(c) \/ LogIn(c)
      PROVE  ServedAsRead'
  <2>1. UNCHANGED <<step, settings, layers, clients, loginClients>>
    BY <1>8 DEF Accept, Hijack, Finish, UseSession, NewSession, LogIn, others
  <2>2. QED
    BY <2>1 DEF ServedAsRead, Validated, Alive, Listens
<1>9. CASE Send \/ StartupTick \/ UNCHANGED <<vars, process>>
  BY <1>9 DEF ServedAsRead, Validated, Alive, Listens, Send, others, StartupTick, process
<1>10. CASE TimeOut \/ Return \/ ServerFails \/ Killed
  BY <1>1, <1>10 DEF TimeOut, Return, ServerFails, Killed
<1>11. CASE Restart
  BY <1>11, Steps DEF ServedAsRead, Restart, Validated, Alive, Listens
<1>12. QED
  BY <1>2, <1>3, <1>4, <1>5, <1>6, <1>7, <1>8, <1>9, <1>10, <1>11 DEF StartupNext

\* A process serves with the settings that its layers give after validation.
THEOREM ServedAsReadAlways == StartupSpec => []ServedAsRead
<1>1. StartupInit => ServedAsRead
  BY Steps DEF StartupInit, ServedAsRead, Validated, Alive, Listens
<1>2. QED
  BY <1>1, StepServedAsRead, PTL DEF StartupSpec

\* A setting that is not a provider comes from the first layer that names it.
LEMMA ReadSetting ==
    ASSUME NEW s \in DOMAIN Default \ ProviderID
    PROVE  /\ s \in DOMAIN Read(layers) /\ Read(layers)[s] = Says(s)
           /\ s \in DOMAIN getConfig(layers)
           /\ s # "runningEnvironment" => getConfig(layers)[s] = Says(s)
           /\ s = "runningEnvironment" => getConfig(layers)[s] = RunningEnvironment(Says(s))
<1>1. ASSUME NEW over, NEW under, s \in DOMAIN under
      PROVE  /\ s \in DOMAIN Merge(over, under)
             /\ Merge(over, under)[s] = IF s \in DOMAIN over THEN over[s] ELSE under[s]
  <2>1. s \notin ProviderID \cap DOMAIN over \cap DOMAIN under
    OBVIOUS
  <2>2. /\ s \in DOMAIN Over(over, under)
        /\ Over(over, under)[s] = IF s \in DOMAIN over THEN over[s] ELSE under[s]
    BY <1>1 DEF Over
  <2>3. ASSUME NEW f, NEW g, s \in DOMAIN g, s \notin DOMAIN f
        PROVE  s \in DOMAIN Over(f, g) /\ Over(f, g)[s] = g[s]
    BY <2>3 DEF Over
  <2>4. DEFINE f == [id \in ProviderID \cap DOMAIN over \cap DOMAIN under |-> Over(over[id], under[id])]
  <2>5. s \notin DOMAIN f /\ Merge(over, under) = Over(f, Over(over, under))
    BY <2>1, Zenon DEF Merge
  <2> HIDE DEF f
  <2>6. QED
    BY <2>2, <2>3, <2>5
<1> DEFINE main == Merge(layers.main, Default)
           secret == Merge(layers.secret, main)
<1>2. s \in DOMAIN main /\ main[s] = IF s \in DOMAIN layers.main THEN layers.main[s] ELSE Default[s]
  BY <1>1
<1>3. /\ s \in DOMAIN secret
      /\ secret[s] = IF s \in DOMAIN layers.secret THEN layers.secret[s] ELSE main[s]
  BY <1>1, <1>2
<1>4. /\ s \in DOMAIN Read(layers)
      /\ Read(layers)[s] = IF s \in DOMAIN layers.env THEN layers.env[s] ELSE secret[s]
  BY <1>1, <1>3 DEF Read
<1> HIDE DEF main, secret
<1>5. Read(layers)[s] = Says(s)
  <2> DEFINE named == {l \in {"env", "secret", "main"} : s \in DOMAIN layers[l]}
  <2>1. /\ "env" \in named <=> s \in DOMAIN layers.env
        /\ "secret" \in named <=> s \in DOMAIN layers.secret
        /\ "main" \in named <=> s \in DOMAIN layers.main
        /\ named \subseteq {"env", "secret", "main"}
    OBVIOUS
  <2>2. Says(s) = CASE "env" \in named    -> layers.env[s]
                    [] named = {"secret"} \/ named = {"secret", "main"} -> layers.secret[s]
                    [] named = {"main"}   -> layers.main[s]
                    [] named = {}         -> Default[s]
    BY DEF Says
  <2> HIDE DEF named
  <2>3. CASE "env" \in named
    <3>1. named # {"secret"} /\ named # {"secret", "main"} /\ named # {"main"} /\ named # {}
      BY <2>3
    <3>2. Says(s) = layers.env[s]
      BY <2>2, <2>3, <3>1
    <3>3. QED
      BY <1>4, <2>1, <2>3, <3>2
  <2>4. CASE "env" \notin named /\ "secret" \in named
    <3>1. named = {"secret"} \/ named = {"secret", "main"}
      BY <2>1, <2>4
    <3>2. named # {"main"} /\ named # {}
      BY <2>4
    <3>3. Says(s) = layers.secret[s]
      BY <2>2, <2>4, <3>1, <3>2
    <3>4. QED
      BY <1>3, <1>4, <2>1, <2>4, <3>3
  <2>5. CASE named = {"main"}
    <3>1. Says(s) = layers.main[s]
      BY <2>2, <2>5
    <3>2. QED
      BY <1>2, <1>3, <1>4, <2>1, <2>5, <3>1
  <2>6. CASE named = {}
    <3>1. Says(s) = Default[s]
      BY <2>2, <2>6
    <3>2. QED
      BY <1>2, <1>3, <1>4, <2>1, <2>6, <3>1
  <2>7. QED
    BY <2>1, <2>3, <2>4, <2>5, <2>6
<1>6. s \in DOMAIN getConfig(layers)
  BY <1>4 DEF getConfig
<1>7. /\ s # "runningEnvironment" => getConfig(layers)[s] = Read(layers)[s]
      /\ s = "runningEnvironment" => getConfig(layers)[s] = RunningEnvironment(Read(layers)[s])
  BY <1>4 DEF getConfig
<1>8. QED
  BY <1>4, <1>5, <1>6, <1>7

\* Validation keeps every setting but the provider it removes.
LEMMA WithoutGitlabKeeps ==
    ASSUME NEW c, NEW s \in DOMAIN c, s # "gitlab"
    PROVE  s \in DOMAIN WithoutGitlab(c) /\ WithoutGitlab(c)[s] = c[s]
BY DEF WithoutGitlab

\* With its layers validated, a process that serves has the settings that they
\* give, and the providers that they name, but perhaps GitLab.
LEMMA Serving ==
    ASSUME ServedAsRead, Listens
    PROVE  LET c == getConfig(layers) IN
           /\ Valid(c) /\ settings = WithoutGitlab(c)
           /\ clients = Providers(WithoutGitlab(c)) /\ loginClients = clients
<1>1. step \in Validated \ {"NewRedisAdapter", "NewTokenStore"} /\ Alive
  BY Steps DEF Listens, Validated, Alive
<1>2. QED
  BY <1>1 DEF ServedAsRead

\* What the login server can obtain the token store can refresh, whatever the
\* configuration and those before it: both have the providers that validation
\* left (main.go:143-147,191-205, login.go:38-41).
THEOREM SameProvidersAlways == StartupSpec => []SameProviders
<1>1. ServedAsRead => SameProviders
  <2>1. SUFFICES ASSUME ServedAsRead, Listens
                 PROVE  /\ loginClients = clients
                        /\ ~Says("enableInternalGitlab") => "gitlab" \notin clients
    BY DEF SameProviders
  <2>2. /\ loginClients = clients
        /\ clients = Providers(WithoutGitlab(getConfig(layers)))
    BY <2>1, Serving
  <2>3. "enableInternalGitlab" \in DOMAIN Default \ ProviderID
    BY DEF Default, ProviderID
  <2>4. getConfig(layers).enableInternalGitlab = Says("enableInternalGitlab")
    BY <2>3, ReadSetting
  <2>5. ~getConfig(layers).enableInternalGitlab
           => "gitlab" \notin DOMAIN WithoutGitlab(getConfig(layers))
    BY DEF WithoutGitlab
  <2>6. QED
    BY <2>2, <2>4, <2>5 DEF Providers
<1>2. QED
  BY <1>1, ServedAsReadAlways, PTL

\* A process whose most preferred layer does not say "development" never serves
\* with the mock of Redis, without session cookies or with a provider without
\* cookies (session.go:11-13, login.go:29-31), whatever the layers are.
THEOREM SafeInProductionAlways == StartupSpec => []SafeInProduction
<1>1. ServedAsRead => SafeInProduction
  <2>1. SUFFICES ASSUME ServedAsRead, Listens, Says("runningEnvironment") # "development"
                 PROVE  /\ settings.redisType # "redis-mock"
                        /\ ~settings.unsafeNoCookieHandler
                        /\ \A id \in clients \cup loginClients : ~settings[id].unsafeNoCookieHandler
    BY DEF SafeInProduction
  <2> DEFINE c == getConfig(layers)
  <2>2. /\ Valid(c) /\ settings = WithoutGitlab(c)
        /\ clients = Providers(WithoutGitlab(c)) /\ loginClients = clients
    BY <2>1, Serving
  <2>3. {"runningEnvironment", "redisType", "unsafeNoCookieHandler"}
           \subseteq DOMAIN Default \ ProviderID
    BY DEF Default, ProviderID
  <2>4. c.runningEnvironment = RunningEnvironment(Says("runningEnvironment"))
    BY <2>3, ReadSetting
  <2>5. c.runningEnvironment # "development"
    BY <2>1, <2>4 DEF RunningEnvironment
  <2>6. {"runningEnvironment", "redisType", "unsafeNoCookieHandler"} \subseteq DOMAIN c
    BY <2>3, ReadSetting
  <2> HIDE DEF c
  <2>7. /\ settings.redisType = c.redisType
        /\ settings.unsafeNoCookieHandler = c.unsafeNoCookieHandler
    BY <2>2, <2>6, WithoutGitlabKeeps
  <2>8. c.redisType # "redis-mock" /\ ~c.unsafeNoCookieHandler
    BY <2>2, <2>5 DEF Valid, RedisValid, SessionsValid
  <2>9. \A id \in Providers(WithoutGitlab(c)) : ~c[id].unsafeNoCookieHandler
    BY <2>2, <2>5 DEF Valid, LoginValid
  <2>10. \A id \in Providers(WithoutGitlab(c)) : settings[id] = c[id]
    BY <2>2 DEF Providers, WithoutGitlab
  <2>11. QED
    BY <2>2, <2>7, <2>8, <2>9, <2>10
<1>2. QED
  BY <1>1, ServedAsReadAlways, PTL

----------------------------------------------------------------------------
(* Types                                                                    *)

\* There is a PostHog client only between its construction and the end of the
\* process, when the settings are those of the layers.
StartupTypes ==
    /\ StartupTypeOK
    /\ metrics => step \in {"NewLoginServer", "start", "serve", "shutdown", "close", "closed"}

EventTypes == [queued : 0 .. MaxQueued, dropped : SUBSET {"upload", "closed"}]

\* The two settings that become part of the state.
LEMMA SettingTypes ==
    ASSUME ServedAsRead
    PROVE  /\ getConfig(layers).encryption \in BOOLEAN
           /\ step \in Validated => settings.posthog \in BOOLEAN
<1>1. {getConfig(layers).posthog, getConfig(layers).encryption} \subseteq BOOLEAN
  BY StartupAssumption DEF ServedAsRead
<1>2. "posthog" \in DOMAIN Default \ ProviderID
  BY DEF Default, ProviderID
<1>3. "posthog" \in DOMAIN getConfig(layers)
  BY <1>2, ReadSetting
<1>4. WithoutGitlab(getConfig(layers)).posthog = getConfig(layers).posthog
  BY <1>3, WithoutGitlabKeeps
<1>5. QED
  BY <1>1, <1>4 DEF ServedAsRead

LEMMA ExitTypes ==
    ASSUME StartupTypes, NEW code \in {"0", "1", "panic", "killed"}, Exit(code)
    PROVE  StartupTypes'
<1>1. /\ layers' = layers /\ atRest' = atRest /\ conn' = Idle /\ events' = NoEvents
      /\ step' = "exited" /\ sealing' = FALSE /\ metrics' = FALSE
      /\ clients' = {} /\ loginClients' = {}
      /\ exit' = [code |-> code, cut |-> {conn[c] : c \in Client} \ {"none"},
                  dropped |-> events.dropped \cup {why \in {"exit"} : events.queued > 0}]
  BY DEF Exit
<1>2. {conn[c] : c \in Client} \ {"none"} \subseteq {"http", "ws"}
  BY DEF StartupTypes, StartupTypeOK
<1>3. exit' \in [code : {"none", "0", "1", "panic", "killed"},
                 cut : SUBSET {"http", "ws"}, dropped : SUBSET {"upload", "closed", "exit"}]
  BY <1>1, <1>2 DEF StartupTypes, StartupTypeOK
<1>4. conn' \in [Client -> {"none", "http", "ws"}] /\ events' \in EventTypes
  BY <1>1, StartupAssumption DEF Idle, NoEvents, EventTypes
<1>5. step' \in Step
  BY <1>1, Steps
<1>6. layers' \in Layerings /\ atRest' \in [form : {"none", "plain", "sealed"}, asked : BOOLEAN]
  BY <1>1 DEF StartupTypes, StartupTypeOK
<1>7. QED
  BY <1>1, <1>3, <1>4, <1>5, <1>6 DEF StartupTypes, StartupTypeOK, EventTypes

\* A constructor but that of the PostHog client.
LEMMA ConstructTypes ==
    ASSUME StartupTypes,
           NEW name \in {"load", "validate", "NewRedisAdapter", "NewTokenStore", "NewAuthenticator",
                         "NewSessionStore", "NewRedirectStore", "NewLoginServer"},
           NEW possible, Construct(name, possible), UNCHANGED metrics, sealing' \in BOOLEAN,
           clients' = clients \/ clients' = Providers(settings),
           loginClients' = loginClients \/ loginClients' = Providers(settings),
           name = "NewLoginServer" => UNCHANGED settings
    PROVE  StartupTypes'
<1>1. step = name /\ step' = After(name) /\ UNCHANGED <<layers, conn, events, exit, atRest>>
  BY DEF Construct
<1>2. step' \in Step /\ (name = "NewLoginServer" => step' = "start")
  BY <1>1, Order, Steps
<1>3. clients' \cup loginClients' \subseteq ProviderID
  BY DEF StartupTypes, StartupTypeOK, Providers
<1>4. metrics' \in BOOLEAN /\ (metrics' => name = "NewLoginServer")
  BY <1>1 DEF StartupTypes, StartupTypeOK
<1>5. metrics' => settings'.posthog
  BY <1>4 DEF StartupTypes, StartupTypeOK
<1>6. QED
  BY <1>1, <1>2, <1>3, <1>4, <1>5 DEF StartupTypes, StartupTypeOK

LEMMA StepTypes ==
    ServedAsRead /\ StartupTypes /\ [StartupNext]_<<vars, process>> => StartupTypes'
<1> SUFFICES ASSUME ServedAsRead, StartupTypes, [StartupNext]_<<vars, process>>
             PROVE  StartupTypes'
  OBVIOUS
<1>1. ASSUME NEW code \in {"0", "1", "panic", "killed"}, Exit(code) PROVE StartupTypes'
  BY <1>1, ExitTypes
<1>2. sealing \in BOOLEAN /\ Encrypts \in BOOLEAN
  BY DEF StartupTypes, StartupTypeOK, Encrypts
<1>3. ASSUME NEW name \in {"load", "validate", "NewRedisAdapter", "NewTokenStore",
                           "NewAuthenticator", "NewSessionStore", "NewRedirectStore",
                           "NewLoginServer"},
             NEW possible, Construct(name, possible), UNCHANGED metrics,
             sealing' = sealing \/ sealing' = Encrypts,
             clients' = clients \/ clients' = Providers(settings),
             loginClients' = loginClients \/ loginClients' = Providers(settings),
             name = "NewLoginServer" => UNCHANGED settings
      PROVE  StartupTypes'
  <2>1. sealing' \in BOOLEAN
    BY <1>2, <1>3
  <2>2. QED
    BY <1>3, <2>1, ConstructTypes
<1>4. CASE Load \/ Validate
  BY <1>1, <1>3, <1>4 DEF Load, Validate, Fails
<1>5. CASE NewRedisAdapter
  BY <1>1, <1>3, <1>5 DEF NewRedisAdapter, Fails
<1>6. CASE NewTokenStore \/ NewAuthenticator \/ NewLoginServer
  BY <1>1, <1>3, <1>6 DEF NewTokenStore, NewAuthenticator, NewLoginServer
<1>7. CASE NewSessionStore \/ NewRedirectStore
  BY <1>1, <1>3, <1>7 DEF NewSessionStore, NewRedirectStore, Fails
<1>8. CASE NewPosthogClient
  <2>1. CASE Construct("NewPosthogClient", TRUE) /\ metrics' = settings.posthog
             /\ UNCHANGED <<settings, sealing, clients, loginClients>>
    <3>1. /\ step = "NewPosthogClient" /\ step' = "NewLoginServer"
          /\ UNCHANGED <<layers, conn, events, exit, atRest>>
      BY <2>1, Order DEF Construct
    <3>2. metrics' \in BOOLEAN
      BY <2>1, <3>1, SettingTypes, Steps DEF Validated
    <3>3. step' \in Step
      BY <3>1, Steps
    <3>4. QED
      BY <2>1, <3>1, <3>2, <3>3 DEF StartupTypes, StartupTypeOK
  <2>2. QED
    BY <1>1, <1>8, <2>1 DEF NewPosthogClient
<1>9. CASE Notify \/ Interrupt \/ Drained
  <2>1. /\ step' \in {"serve", "shutdown", "close"}
        /\ UNCHANGED <<layers, settings, sealing, clients, loginClients, metrics, conn, events, exit,
                       atRest>>
    BY <1>9 DEF Notify, Interrupt, Drained
  <2>2. QED
    BY <2>1, Steps DEF StartupTypes, StartupTypeOK
<1>10. ASSUME NEW c \in Client,
              Accept(c) \/ Hijack(c) \/ Finish(c) \/ UseSession(c) \/ NewSession(c)
       PROVE  StartupTypes'
  <2>1. /\ UNCHANGED <<others, events, atRest>>
        /\ \E what \in {"none", "http", "ws"} : conn' = [conn EXCEPT ![c] = what]
    BY <1>10 DEF Accept, Hijack, Finish, UseSession, NewSession, Carries
  <2>2. conn' \in [Client -> {"none", "http", "ws"}]
    BY <2>1 DEF StartupTypes, StartupTypeOK
  <2>3. QED
    BY <2>1, <2>2 DEF StartupTypes, StartupTypeOK, others
<1>11. ASSUME NEW c \in Client, LogIn(c) PROVE StartupTypes'
  <2>1. /\ UNCHANGED others /\ conn' = [conn EXCEPT ![c] = "none"]
        /\ atRest' = [form |-> IF sealing THEN "sealed" ELSE "plain",
                      asked |-> getConfig(layers).encryption]
        /\ metrics => events.queued < MaxQueued
        /\ \/ events' = events
           \/ events' = [events EXCEPT !.dropped = @ \cup {"closed"}]
           \/ metrics /\ events' = [events EXCEPT !.queued = @ + 1]
    BY <1>11 DEF LogIn, Carries
  <2>2. conn' \in [Client -> {"none", "http", "ws"}]
    BY <2>1 DEF StartupTypes, StartupTypeOK
  <2>3. atRest' \in [form : {"none", "plain", "sealed"}, asked : BOOLEAN]
    BY <2>1, SettingTypes
  <2>4. events' \in EventTypes
    <3>1. events \in EventTypes /\ MaxQueued \in Nat
      BY StartupAssumption DEF StartupTypes, StartupTypeOK, EventTypes
    <3>2. CASE metrics /\ events' = [events EXCEPT !.queued = @ + 1]
      <4>1. events.queued + 1 \in 0 .. MaxQueued
        BY <2>1, <3>1, <3>2 DEF EventTypes
      <4>2. QED
        BY <3>1, <3>2, <4>1 DEF EventTypes
    <3>3. QED
      BY <2>1, <3>1, <3>2 DEF EventTypes
  <2>5. QED
    BY <2>1, <2>2, <2>3, <2>4 DEF StartupTypes, StartupTypeOK, EventTypes, others
<1>12. CASE Send \/ Close
  <2>1. PICK failed \in SUBSET {"upload"} :
            events' = [queued |-> 0, dropped |-> events.dropped \cup failed]
    BY <1>12 DEF Send, Close, Upload
  <2>2. events' \in EventTypes
    <3>1. events \in EventTypes /\ 0 \in 0 .. MaxQueued
      BY StartupAssumption DEF StartupTypes, StartupTypeOK, EventTypes
    <3>2. events.dropped \cup failed \in SUBSET {"upload", "closed"}
      BY <3>1 DEF EventTypes
    <3>3. QED
      BY <2>1, <3>1, <3>2 DEF EventTypes
  <2>3. /\ UNCHANGED <<layers, settings, sealing, clients, loginClients, metrics, conn, exit, atRest>>
        /\ step' = step \/ step' = "closed"
    BY <1>12 DEF Send, Close, others
  <2>4. QED
    BY <2>2, <2>3, Steps DEF StartupTypes, StartupTypeOK, EventTypes
<1>13. CASE StartupTick \/ UNCHANGED <<vars, process>>
  BY <1>13 DEF StartupTypes, StartupTypeOK, StartupTick, process
<1>14. CASE TimeOut \/ Return \/ ServerFails \/ Killed
  BY <1>1, <1>14 DEF TimeOut, Return, ServerFails, Killed
<1>15. CASE Restart
  <2>1. /\ layers' \in Layerings /\ step = "exited" /\ step' = "load" /\ exit' = NoExit
        /\ UNCHANGED <<sealing, clients, loginClients, metrics, conn, events, atRest>>
    BY <1>15 DEF Restart
  <2>2. ~metrics
    BY <2>1 DEF StartupTypes
  <2>3. exit' \in [code : {"none", "0", "1", "panic", "killed"},
                   cut : SUBSET {"http", "ws"}, dropped : SUBSET {"upload", "closed", "exit"}]
    BY <2>1, StartupAssumption DEF NoExit
  <2>4. QED
    BY <2>1, <2>2, <2>3, Steps DEF StartupTypes, StartupTypeOK
<1>16. QED
  BY <1>4, <1>5, <1>6, <1>7, <1>8, <1>9, <1>10, <1>11, <1>12, <1>13, <1>14, <1>15 DEF StartupNext

\* The state of a process keeps its types, from one process to the next.
THEOREM StartupTypeCorrect == StartupSpec => []StartupTypeOK
<1>1. StartupInit => StartupTypes
  <2>1. SUFFICES ASSUME StartupInit PROVE StartupTypes
    OBVIOUS
  <2>2. /\ layers \in Layerings /\ step = "load" /\ sealing = FALSE /\ metrics = FALSE
        /\ clients = {} /\ loginClients = {} /\ conn = Idle /\ events = NoEvents
        /\ exit = NoExit /\ atRest = NoTokens
    BY <2>1 DEF StartupInit
  <2>3. exit \in [code : {"none", "0", "1", "panic", "killed"},
                  cut : SUBSET {"http", "ws"}, dropped : SUBSET {"upload", "closed", "exit"}]
    BY <2>2, StartupAssumption DEF NoExit
  <2>4. atRest \in [form : {"none", "plain", "sealed"}, asked : BOOLEAN]
    BY <2>2 DEF NoTokens
  <2>5. events \in EventTypes /\ conn \in [Client -> {"none", "http", "ws"}] /\ step \in Step
    BY <2>2, StartupAssumption, Steps DEF Idle, NoEvents, EventTypes
  <2>6. QED
    BY <2>2, <2>3, <2>4, <2>5 DEF StartupTypes, StartupTypeOK, EventTypes
<1>2. ServedAsRead /\ StartupTypes /\ [StartupNext]_<<vars, process>> => StartupTypes'
  BY StepTypes
<1>3. StartupTypes => StartupTypeOK
  BY DEF StartupTypes
<1>4. QED
  BY <1>1, <1>2, <1>3, ServedAsReadAlways, PTL DEF StartupSpec

----------------------------------------------------------------------------
(* The session that the processes share                                     *)

\* The TTLs of a process that serves are among the configured ones, and valid.
LEMMA ServedTTLs ==
    ASSUME ServedAsRead, Alive
    PROVE  [idle |-> settings.idleSessionTTLSeconds, max |-> settings.maxSessionTTLSeconds]
              \in {c \in Configured : ValidTTLs(c.idle, c.max)}
<1> DEFINE c == getConfig(layers)
<1>1. step \in Validated
  BY Steps DEF Alive, Listens, Validated
<1>2. Valid(c) /\ settings = WithoutGitlab(c) /\ layers \in Layerings
  BY <1>1 DEF ServedAsRead
<1>3. {"idleSessionTTLSeconds", "maxSessionTTLSeconds"} \subseteq DOMAIN Default \ ProviderID
  BY DEF Default, ProviderID
<1>4. {"idleSessionTTLSeconds", "maxSessionTTLSeconds"} \subseteq DOMAIN c
  BY <1>3, ReadSetting
<1>5. [idle |-> c.idleSessionTTLSeconds, max |-> c.maxSessionTTLSeconds] \in Configured
  BY <1>2, StartupAssumption
<1> HIDE DEF c
<1>6. /\ settings.idleSessionTTLSeconds = c.idleSessionTTLSeconds
      /\ settings.maxSessionTTLSeconds = c.maxSessionTTLSeconds
  BY <1>2, <1>4, WithoutGitlabKeeps
<1>7. ValidTTLs(c.idleSessionTTLSeconds, c.maxSessionTTLSeconds)
  BY <1>2 DEF Valid, SessionsValid
<1>8. QED
  BY <1>5, <1>6, <1>7

\* A process uses the session, replaces it, or leaves it alone.
LEMMA SessionSteps ==
    ASSUME [StartupNext]_<<vars, process>>
    PROVE  \/ [Next]_vars
           \/ /\ Alive /\ now' = now /\ created' = now /\ last' = now
              /\ config' = [idle |-> settings.idleSessionTTLSeconds,
                            max |-> settings.maxSessionTTLSeconds]
              /\ exp' = FirstExpiry(now, config'.idle, config'.max)
<1>1. ASSUME NEW code, Exit(code) PROVE UNCHANGED vars
  BY <1>1 DEF Exit
<1>2. ASSUME NEW name, NEW possible, Construct(name, possible) PROVE UNCHANGED vars
  BY <1>2 DEF Construct
<1>3. CASE \/ Load \/ Validate \/ NewRedisAdapter \/ NewTokenStore \/ NewAuthenticator
           \/ NewSessionStore \/ NewRedirectStore \/ NewPosthogClient \/ NewLoginServer
  <2>1. UNCHANGED vars
    BY <1>1, <1>2, <1>3
       DEF Load, Validate, NewRedisAdapter, NewTokenStore, NewAuthenticator, NewSessionStore,
           NewRedirectStore, NewPosthogClient, NewLoginServer, Fails
  <2>2. QED
    BY <2>1
<1>4. CASE \/ Notify \/ Send \/ Interrupt \/ Drained \/ TimeOut \/ Close \/ Return \/ ServerFails
           \/ Killed \/ Restart
  <2>1. UNCHANGED vars
    BY <1>1, <1>4
       DEF Notify, Send, Interrupt, Drained, TimeOut, Close, Return, ServerFails, Killed, Restart
  <2>2. QED
    BY <2>1
<1>5. CASE StartupTick \/ UNCHANGED <<vars, process>>
  BY <1>5 DEF StartupTick, Next
<1>6. ASSUME NEW c \in Client, Accept(c) \/ Hijack(c) \/ Finish(c) \/ LogIn(c)
      PROVE  UNCHANGED vars
  BY <1>6 DEF Accept, Hijack, Finish, LogIn
<1>7. ASSUME NEW c \in Client, UseSession(c)
      PROVE  [Next]_vars
  BY <1>7 DEF UseSession, Next
<1>8. ASSUME NEW c \in Client, NewSession(c)
      PROVE  /\ Alive /\ now' = now /\ created' = now /\ last' = now
             /\ config' = [idle |-> settings.idleSessionTTLSeconds,
                           max |-> settings.maxSessionTTLSeconds]
             /\ exp' = FirstExpiry(now, config'.idle, config'.max)
  BY <1>8 DEF NewSession
<1>9. QED
  BY <1>3, <1>4, <1>5, <1>6, <1>7, <1>8 DEF StartupNext

LEMMA StepLifetime ==
    ServedAsRead /\ LifetimeInv /\ [StartupNext]_<<vars, process>> => LifetimeInv'
<1>1. SUFFICES ASSUME ServedAsRead, LifetimeInv, Alive,
                      now' = now, created' = now, last' = now,
                      config' = [idle |-> settings.idleSessionTTLSeconds,
                                 max |-> settings.maxSessionTTLSeconds],
                      exp' = FirstExpiry(now, config'.idle, config'.max)
               PROVE  LifetimeInv'
  BY SessionSteps, NextLifetime
<1>2. config' \in {c \in Configured : ValidTTLs(c.idle, c.max)}
  BY <1>1, ServedTTLs
<1>3. config' \in [idle : Int, max : Int] /\ ValidTTLs(config'.idle, config'.max)
  BY <1>2, LifetimeAssumption
<1>4. now \in Nat /\ now # ZeroTime
  BY <1>1 DEF LifetimeInv, TypeOK, ZeroTime
<1>5. exp' \in Nat
  BY <1>1, <1>3, <1>4, ExpiryType
<1>6. TypeOK'
  BY <1>1, <1>2, <1>4, <1>5 DEF TypeOK
<1>7. EarlierLimit'
  BY <1>1, <1>3, <1>4, FirstIsEarlier DEF EarlierLimit
<1>8. QED
  BY <1>6, <1>7 DEF LifetimeInv

\* The session in Redis keeps its types, and its expiry is the earlier of its
\* two limits, from one process to the next.
THEOREM SharedLifetime == StartupSpec => []LifetimeInv
<1>1. StartupInit => LifetimeInv
  BY InitLifetime DEF StartupInit
<1>2. QED
  BY <1>1, StepLifetime, ServedAsReadAlways, PTL DEF StartupSpec

\* So a session that outlives its process is good exactly as long as the process
\* that made it was configured to keep it, whatever configuration those that use
\* it later have (session_maker.go:21-41, models/session.go:36-51): the TTLs are
\* part of the stored session.
THEOREM SharedAsConfigured ==
    ASSUME \A c \in Configured : c.max # 0
    PROVE  StartupSpec => []AsConfigured
<1>1. LifetimeInv => AsConfigured
  BY LifetimeIsAsConfigured
<1>2. QED
  BY <1>1, SharedLifetime, PTL

=============================================================================
