----------------------------- MODULE MCRevproxy -----------------------------
EXTENDS Revproxy
Claims(subject, issuer, audience, party, signer, left) ==
    [subject |-> subject, issuer |-> issuer, audience |-> audience,
     authorizedParty |-> party, signedBy |-> signer, left |-> left]
\* The authorized party "cli" is configured twice.
Verifiers ==
    <<[issuer |-> "keycloak", audience |-> "renku", authorizedParty |-> "renku"],
      [issuer |-> "keycloak", audience |-> "renku", authorizedParty |-> "cli"],
      [issuer |-> "other", audience |-> "renku", authorizedParty |-> "cli"]>>
\* Two good ones, and one for each thing that can be wrong with a token.
Tokens ==
    {Claims("bob", "keycloak", {"renku", "account"}, "renku", "keycloak", 2),
     Claims("bob", "other", {"renku"}, "cli", "other", 2),
     Claims("bob", "keycloak", {"renku"}, "cli", "keycloak", 2),
     Claims("bob", "keycloak", {"account"}, "renku", "keycloak", 2),
     Claims("bob", "keycloak", {"renku"}, "ui", "keycloak", 2),
     Claims("bob", "keycloak", {"renku"}, "renku", "other", 2),
     Claims("bob", "keycloak", {"renku"}, "renku", "keycloak", 1),
     Claims("", "keycloak", {"renku"}, "renku", "keycloak", 2)}
Paths ==
    {<<>>,
     <<"other">>,
     <<"api", "data", "x">>,
     <<"api", "data", "a%2Fb">>,
     <<"api", "data", "x", "">>,
     <<"api", "data", "a%2Fb", "">>,
     <<"api", "data", "user", "secret_key">>,
     <<"api", "gitlab-redirect">>,
     <<"api", "gitlab-redirect", "">>,
     <<"api", "gitlab-redirect", "a%2Fb">>,
     <<"api", "notebooks">>,
     <<"api", "notebooks", "a%2Fb">>,
     <<"api", "notebooks", "a%2Fb", "">>,
     <<"api", "kc", "x">>,
     <<"api", "kc">>,
     <<"ui-server", "ws">>,
     <<"ui-server", "auth", "login">>,
     <<"ui-server", "api", "allows-iframe", "x">>,
     <<"ui-server", "api", "projects">>,
     <<"ui-server", "api", "data", "a%2Fb">>,
     <<"ui-server", "api", "data", "a%2Fb", "">>,
     <<"ui-server", "api", "notebooks", "">>,
     <<"ui-server", "api", "notebooks", "x">>,
     <<"ui-server", "api", "notebooks", "a%2Fb">>}
Segments == UNION {Range(path) : path \in Paths} \cup {"a", "b"}
=============================================================================
