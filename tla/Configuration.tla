---------------------------- MODULE Configuration ----------------------------
(***************************************************************************)
(* The configuration of the gateway (internal/config): how the main file,    *)
(* the secret file and the environment variables are put together, and what  *)
(* Config.Validate refuses.                                                  *)
(*                                                                          *)
(* A layer is a record of the settings that it names.  A key or a secret is  *)
(* represented by its length, a URL or a list of addresses by whether it is  *)
(* there.  The settings of one provider are a record of their own.           *)
(***************************************************************************)
EXTENDS Integers, Expiry

CONSTANTS DefaultIdle, DefaultMax   \* 4 and 24 hours

ProviderID == {"renku", "gitlab", "other"}

\* The zero config.OIDCClient.
ZeroProvider == [unsafeNoCookieHandler |-> FALSE,
                 cookieHashKey |-> 0, cookieEncodingKey |-> 0]

\* NewConfigHandler: the zero Config, but for the TTLs of a session.
Default ==
    [runningEnvironment |-> "",
     idleSessionTTLSeconds |-> DefaultIdle, maxSessionTTLSeconds |-> DefaultMax,
     cookieHashKey |-> 0, cookieEncodingKey |-> 0, unsafeNoCookieHandler |-> FALSE,
     authorizationVerifiers |-> TRUE,   \* all of them complete, or none at all
     enableInternalGitlab |-> FALSE, loginBaseURL |-> FALSE,
     encryption |-> FALSE, secretKey |-> 0,
     proxyURLs |-> FALSE,               \* the four that RevproxyConfig requires
     redisType |-> "", addresses |-> FALSE,
     redirects |-> FALSE, redirectsBaseURL |-> FALSE,
     posthog |-> FALSE, prometheus |-> FALSE]

\* Viper's MergeConfigMap and Set: maps are merged key by key.
Over(f, g) == [s \in DOMAIN f \cup DOMAIN g |-> IF s \in DOMAIN f THEN f[s] ELSE g[s]]
Merge(over, under) ==
    Over([id \in ProviderID \cap DOMAIN over \cap DOMAIN under |-> Over(over[id], under[id])],
         Over(over, under))

\* Mutant of Read: the secret file is merged last.
ReadSecretLast(layers) ==
    Merge(layers.secret, Merge(layers.env, Merge(layers.main, Default)))

\* The files that MergeInConfig, ReadInConfig and ReadConfig find.
Read(layers) == Merge(layers.env, Merge(layers.secret, Merge(layers.main, Default)))

RunningEnvironment(e) == IF e = "development" THEN e ELSE "production"

\* ConfigHandler.getConfig of files that can be read.
getConfig(layers) ==
    LET read == Read(layers)
    IN  [s \in DOMAIN read |->
           CASE s \in ProviderID          -> Over(read[s], ZeroProvider)
             [] s = "runningEnvironment"  -> RunningEnvironment(read[s])
             [] OTHER                     -> read[s]]

Providers(c) == ProviderID \cap DOMAIN c

\* Mutant of WithoutGitlab: the provider stays.
WithGitlab(c) == c

\* LoginConfig.Validate changes what it validates: Providers is a map.
WithoutGitlab(c) ==
    [s \in DOMAIN c \ (IF c.enableInternalGitlab THEN {} ELSE {"gitlab"}) |-> c[s]]

SessionsValid(c) ==
    /\ ValidTTLs(c.idleSessionTTLSeconds, c.maxSessionTTLSeconds)
    /\ c.runningEnvironment = "development" \/ ~c.unsafeNoCookieHandler

\* Mutant of LoginValid: the length of the secret key is not looked at.
LoginValidAnyKey(c) ==
    /\ c.runningEnvironment = "development"
       \/ \A id \in Providers(WithoutGitlab(c)) :
             id # "other" /\ ~c[id].unsafeNoCookieHandler
    /\ c.loginBaseURL

LoginValid(c) ==
    /\ c.encryption => c.secretKey = 32
    /\ c.runningEnvironment = "development"
       \/ \A id \in Providers(WithoutGitlab(c)) :
             id # "other" /\ ~c[id].unsafeNoCookieHandler
    /\ c.loginBaseURL

RevproxyValid(c) == c.proxyURLs

RedisValid(c) == c.runningEnvironment = "development" \/ c.redisType # "redis-mock"

\* Config.Validate; it does not ask the settings of the redirect store.
Valid(c) == SessionsValid(c) /\ LoginValid(c) /\ RevproxyValid(c) /\ RedisValid(c)
=============================================================================
