CONSTANTS
    AuthorizationVerifiers <- Verifiers
    EnableInternalGitlab = TRUE
    RedirectsEnabled = TRUE
    Segment <- Segments
    Requested <- Paths
    User = {"alice"}
    Presented <- Tokens
    FaultsAllowed = TRUE
SPECIFICATION Spec
CHECK_DEADLOCK FALSE
INVARIANTS TypeOK RefreshTokenOrAnonymous AnonymousIDReturns OneIdentity VerifiedCredentials DataServicePath EncodingKept
