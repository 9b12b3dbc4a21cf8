---------------------------- MODULE Authenticator ----------------------------
(***************************************************************************)
(* The verification of access tokens that clients present themselves         *)
(* (internal/authentication).  A token is a record of its claims, of the     *)
(* issuer whose key signed it and of the seconds that it is still good for;  *)
(* one that cannot be parsed has the subject "".                             *)
(***************************************************************************)
EXTENDS Integers, Sequences

CONSTANT AuthorizationVerifiers   \* SessionConfig.AuthorizationVerifiers

ASSUME AuthenticatorAssumption ==
    AuthorizationVerifiers \in
        Seq([issuer : STRING, audience : STRING, authorizedParty : STRING])

\* The seconds before its expiry at which a token counts as expired.
verifierOffset == 1

\* WithConfig: the verifiers by their ID, the last one of several with the same.
Authenticators ==
    LET index(id) == {i \in DOMAIN AuthorizationVerifiers :
                        AuthorizationVerifiers[i].authorizedParty = id}
        last(id)  == CHOOSE i \in index(id) : \A j \in index(id) : j <= i
    IN  [id \in {AuthorizationVerifiers[i].authorizedParty :
                    i \in DOMAIN AuthorizationVerifiers} |->
           AuthorizationVerifiers[last(id)]]

\* Mutant of verifyAccessToken: the audience is not checked.
verifyAnyAudience(tv, token) ==
    /\ token.subject # ""
    /\ token.issuer = tv.issuer
    /\ token.authorizedParty = tv.authorizedParty
    /\ token.signedBy = tv.issuer
    /\ token.left > verifierOffset

\* tokenVerifier.verifyAccessToken; the key set is that of the issuer.
verifyAccessToken(tv, token) ==
    /\ token.subject # ""
    /\ token.issuer = tv.issuer
    /\ tv.audience \in token.audience
    /\ token.authorizedParty = tv.authorizedParty
    /\ token.signedBy = tv.issuer
    /\ token.left > verifierOffset

VerifyAccessToken(token) ==
    /\ token.authorizedParty \in DOMAIN Authenticators
    /\ verifyAccessToken(Authenticators[token.authorizedParty], token)
=============================================================================
