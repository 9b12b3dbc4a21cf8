------------------------------ MODULE MCStartup ------------------------------
EXTENDS Startup

\* The TTLs that the layerings below can lead to.
TTLs == [idle : 0 .. 2, max : {-1, 1, 2}]

Good == [cookieHashKey |-> 32]

\* A configuration that works, divided between the main and the secret file.
Main ==
    [authorizationVerifiers |-> TRUE, enableInternalGitlab |-> TRUE, loginBaseURL |-> TRUE,
     encryption |-> TRUE, proxyURLs |-> TRUE, redisType |-> "redis", addresses |-> TRUE,
     posthog |-> TRUE, renku |-> Good]
Secret == [secretKey |-> 32, cookieHashKey |-> 32, gitlab |-> Good]

\* One setting that the environment changes: of those that decide whether
\* testing settings are allowed and used, and of the others.
Testing ==
    {[unsafeNoCookieHandler |-> TRUE], [redisType |-> "redis-mock"],
     [runningEnvironment |-> "production"], [gitlab |-> [unsafeNoCookieHandler |-> TRUE]]}
Changes ==
    {[idleSessionTTLSeconds |-> i] : i \in {0, 2}}
    \cup {[maxSessionTTLSeconds |-> m] : m \in {-1, 1}}
    \cup {[secretKey |-> n] : n \in {0, 16}}
    \cup {[cookieHashKey |-> n] : n \in {0, 16}}
    \cup {[encryption |-> FALSE], [enableInternalGitlab |-> FALSE], [posthog |-> FALSE],
          [prometheus |-> TRUE], [redirects |-> TRUE], [addresses |-> FALSE],
          [loginBaseURL |-> FALSE], [proxyURLs |-> FALSE], [redisType |-> "dummy"],
          [authorizationVerifiers |-> FALSE], [gitlab |-> [cookieEncodingKey |-> 7]],
          [other |-> Good]}

\* The secret file may have an opinion on the environment too.
Nothing == [s \in {} |-> TRUE]
Staging == [runningEnvironment |-> "staging"]
Development == [runningEnvironment |-> "development", unsafeNoCookieHandler |-> TRUE]
EveryLayering ==
    [main : {Main}, env : Testing \cup Changes \cup {Nothing}, secret : {Secret}]
    \cup [main : {Main}, env : Testing \cup {Nothing},
          secret : {Over(r, Secret) : r \in {Staging, Development}}]
=============================================================================
