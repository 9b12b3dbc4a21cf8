------------------------------- MODULE Revproxy -------------------------------
(***************************************************************************)
(* The way of one request through the reverse proxy (internal/revproxy):    *)
(* the rewriting of UI server paths, the choice of a route, and the chain   *)
(* of middlewares that put the user's tokens, or an anonymous ID, into the  *)
(* headers that a Renku service receives.  The user comes from the session   *)
(* of a cookie or, without one, from an access token in the request itself.  *)
(* Sessions and tokens may expire between two middlewares, and every look    *)
(* into Redis or at the keys of an issuer may fail.                          *)
(***************************************************************************)
EXTENDS Naturals, Sequences, SequencesExt, Authenticator

CONSTANTS
    EnableInternalGitlab,  \* RevproxyConfig
    RedirectsEnabled,      \* there is a redirect store
    Segment,               \* what paths are made of
    Requested,             \* the raw paths that clients ask for
    User,                  \* users with a session
    Presented,             \* the tokens that clients present
    FaultsAllowed          \* Redis commands, calls to an issuer and the
                           \* generator of session IDs may fail

ASSUME RevproxyAssumption ==
    /\ {EnableInternalGitlab, RedirectsEnabled, FaultsAllowed} \subseteq BOOLEAN
    /\ {"a", "b", "api", "data", "notebooks"} \subseteq Segment
    /\ Requested \subseteq Seq(Segment)
    /\ Presented \subseteq [subject : STRING, issuer : STRING, audience : SUBSET STRING,
                           authorizedParty : STRING, signedBy : STRING, left : Int]

----------------------------------------------------------------------------
(* Paths: sequences of segments.  The raw segment "a%2Fb" decodes to two, and *)
(* a path with a trailing slash ends with an empty one.                      *)

Empty == ""

Decode(raw) ==
    FlattenSeq([i \in DOMAIN raw |->
                  IF raw[i] = "a%2Fb" THEN <<"a", "b">> ELSE <<raw[i]>>])

\* url.Parse of an escaped path; RawPath is empty when Path says it all.
Parse(raw) == [Path |-> Decode(raw),
               RawPath |-> IF Decode(raw) = raw THEN <<>> ELSE raw]

\* URL.EscapedPath: RawPath counts only if it is an encoding of Path.
Escaped(url) == IF url.RawPath # <<>> /\ Decode(url.RawPath) = url.Path
                THEN url.RawPath ELSE url.Path

From(s, i) == SubSeq(s, i, Len(s))
TrimPrefix(s, prefix) == IF IsPrefix(prefix, s) THEN From(s, Len(prefix) + 1) ELSE s

WithoutTrailingSlash(path) ==
    IF path # <<>> /\ Last(path) = Empty THEN Front(path) ELSE path

\* echo's RemoveTrailingSlash: RawPath stays, and no longer fits the path.
RemoveTrailingSlash(u) == [u EXCEPT !.Path = WithoutTrailingSlash(@)]

StaysAtUiServer ==
    {<<"ui-server", "api", "allows-iframe">>, <<"ui-server", "api", "projects">>,
     <<"ui-server", "api", "renku", "cache.files_upload">>,
     <<"ui-server", "api", "last-projects">>,
     <<"ui-server", "api", "last-searches">>}

\* Mutant of Rewritten: the escaped form of the path is left out.
RewrittenPathOnly(url, path, old, new) == Parse(new \o TrimPrefix(path, old))

\* One rewrite: a new prefix for both forms of the path, and a fresh parse.
Rewritten(url, path, old, new) ==
    Parse(Escaped([Path |-> new \o TrimPrefix(path, old),
                   RawPath |-> new \o TrimPrefix(url.RawPath, old)]))

\* UiServerPathRewrite: the three conditions look at the path as it came, and
\* the third also holds when the second does.
UiServerPathRewrite(url) ==
    LET path == url.Path
        auth == IF IsPrefix(<<"ui-server", "auth">>, path)
                THEN Rewritten(url, path, <<"ui-server">>, <<"api">>)
                ELSE url
        notebooks == IF IsPrefix(<<"ui-server", "api", "notebooks">>, path)
                     THEN Rewritten(auth, path, <<"ui-server", "api", "notebooks">>,
                                    <<"api", "data", "notebooks">>)
                     ELSE auth
        api == IF IsPrefix(<<"ui-server", "api">>, path)
               THEN Rewritten(notebooks, path, <<"ui-server">>, <<>>)
               ELSE notebooks
    IN  IF \E prefix \in StaysAtUiServer : IsPrefix(prefix, path) THEN url ELSE api

\* Mutant of ReplacePrefix: the group captures the whole path.
ReplaceNothing(url, old, new) == Parse(new \o Escaped(url))

\* regexRewrite and stripPrefix replace the prefix of the request URI.
ReplacePrefix(url, old, new) ==
    LET raw == Escaped(url)
    IN  IF IsPrefix(old, raw) THEN Parse(new \o From(raw, Len(old) + 1)) ELSE url

----------------------------------------------------------------------------
(* RegisterHandlers: the middlewares of each group, the proxy last.          *)

\* Mutant of DataChain: the anonymous ID comes before the refresh token.
DataChainSwapped(gitlab, rewrite) ==
    <<"session", "renkuAccessToken">> \o gitlab \o
    <<"notebooksAnonymousID", "notebooksRenkuRefreshToken">> \o rewrite \o <<"data">>

DataChain(gitlab, rewrite) ==
    <<"session", "renkuAccessToken">> \o gitlab \o
    <<"notebooksRenkuRefreshToken", "notebooksAnonymousID">> \o rewrite \o <<"data">>

Gitlab == IF EnableInternalGitlab THEN <<"dataGitlabAccessToken">> ELSE <<>>

Groups ==
    {[prefix |-> <<"api", "data", "user", "secret_key">>,
      chain  |-> <<"session", "notFound">>],
     [prefix |-> <<"api", "notebooks">>,
      chain  |-> DataChain(Gitlab, <<"regexRewrite">>)],
     [prefix |-> <<"api", "data">>, chain |-> DataChain(Gitlab, <<>>)],
     [prefix |-> <<"api", "kc">>,
      chain  |-> <<"session", "stripPrefix", "renkuAccessToken", "keycloak">>],
     [prefix |-> <<"ui-server", "ws">>,
      chain  |-> <<"session", "ensureSession", "renkuAccessToken", "ui">>],
     [prefix |-> <<"ui-server", "api", "allows-iframe">>,
      chain  |-> <<"session", "ui">>]}
    \cup {g \in {[prefix |-> <<"api", "gitlab-redirect">>,
                  chain  |-> <<"session", "redirect">>]} : RedirectsEnabled}

\* The routes of the login server, of whose chain only the end matters here.
LoginRoutes == [prefix |-> <<"api", "auth">>, chain |-> <<"session", "login">>]

\* The group "/" has the routes "/" and "//*" only.
Fallback == [prefix |-> <<>>, chain |-> <<"session", "base">>]

\* A redirect needs a project path: one more segment, and RawPath goes first.
Route(url) ==
    LET path == IF url.RawPath = <<>> THEN url.Path ELSE url.RawPath
        fits == {g \in Groups \cup {LoginRoutes} :
                    /\ IsPrefix(g.prefix, path)
                    /\ g.prefix = <<"api", "gitlab-redirect">> => g.prefix # path}
    IN  IF fits # {}
        THEN (CHOOSE g \in fits :
                \A h \in fits : Len(h.prefix) <= Len(g.prefix)).chain
        ELSE IF path = <<>> THEN Fallback.chain ELSE <<"notFound">>

Services == {"data", "keycloak", "ui", "base"}
Ends     == Services \cup {"login", "redirect", "notFound"}
Middleware ==
    {"UiServerPathRewrite", "session", "ensureSession", "renkuAccessToken",
     "dataGitlabAccessToken", "notebooksRenkuRefreshToken", "notebooksAnonymousID",
     "regexRewrite", "stripPrefix"} \cup Ends

----------------------------------------------------------------------------
Kind == {"access", "refresh", "gitlab"}

NoID     == 0
CookieID == 1      \* the session that the cookie of the request names
NewID    == 2      \* the session that this request creates
Nobody   == ""
NoSession == [id |-> NoID, user |-> Nobody]

\* What an Authorization header holds: nothing, the access token of a session,
\* or a token that the client presents, as a bearer token, as the password of
\* basic credentials, or bare, as the session store puts it there.
Nothing == [form |-> "none"]
OfSession(user) == [form |-> "session", user |-> user]
OfClient(form, token) == [form |-> form, token |-> token]
Credentials == {Nothing} \cup {OfClient(form, token) : form \in {"bearer", "basic"},
                                                     token \in Presented}

VARIABLES
    asked, url,    \* the raw path as it came; the URL as it is now
    cookie,        \* whether the request has one that can be decoded
    credentials,   \* the Authorization header as it came
    stored,        \* Redis: the session of the cookie, NoSession if none
    valid,         \* token store: the kinds of token that it can return
    loaded, ctx,   \* the session of the request context
    chain,         \* the middlewares still to run
    header,        \* the headers of the request
    setCookie,     \* the session ID of the response's cookie
    served         \* where the request ended, "" before that

vars == <<asked, url, cookie, credentials, stored, valid, loaded, ctx, chain, header,
          setCookie, served>>
request  == <<asked, cookie, credentials>>
store    == <<stored, valid>>
response == <<setCookie, served>>

Subject == {token.subject : token \in Presented}
Someone == User \cup Subject \cup {Nobody}
Session == [id : {NoID, CookieID, NewID}, user : Someone]

TypeOK ==
    /\ asked \in Requested
    /\ url \in [Path : Seq(Segment), RawPath : Seq(Segment)]
    /\ cookie \in BOOLEAN /\ credentials \in Credentials
    /\ stored \in Session /\ valid \subseteq Kind
    /\ ctx \in Session /\ loaded = (ctx # NoSession)
    /\ chain \in Seq(Middleware)
    /\ header.auth \in Credentials \cup {OfSession(user) : user \in User}
                        \cup {OfClient("bare", token) : token \in Presented}
    /\ header.gitlab \in Someone /\ header.refresh \in Someone
    /\ header.anon \in {NoID, CookieID, NewID}
    /\ setCookie \in {NoID, NewID}
    /\ served \in Ends \cup {"", "error"}

Init ==
    /\ asked \in Requested
    /\ url = Parse(asked)
    /\ cookie \in BOOLEAN /\ credentials \in Credentials
    /\ stored \in {NoSession} \cup [id : {CookieID}, user : User \cup {Nobody}]
    /\ ~cookie => stored = NoSession
    /\ valid \in SUBSET Kind
    /\ loaded = FALSE /\ ctx = NoSession
    /\ chain = <<"UiServerPathRewrite">>
    /\ header = [auth |-> credentials, gitlab |-> Nobody, refresh |-> Nobody, anon |-> NoID]
    /\ setCookie = NoID
    /\ served = ""

Runs(name) == chain # <<>> /\ Head(chain) = name
Continue   == chain' = Tail(chain)

----------------------------------------------------------------------------
(* SessionStore.Get, as the middlewares see it                              *)

\* What a call leaves: the session and the header, whether it succeeded, and
\* whether the session is now in the context.
Result(ok, session, inContext, auth) ==
    [ok |-> ok, session |-> session, inContext |-> inContext, auth |-> auth]
NotFound == Result(FALSE, NoSession, FALSE, header.auth)

\* Mutant of FromCredentials: the header stays as it is.
FromCredentialsAsTheyCame(token) ==
    Result(TRUE, [id |-> NoID, user |-> token.subject], TRUE, header.auth)

\* getFromHeaders and, if that fails, getFromBasicAuth: a session that is not
\* stored, in the context at once, and the bare token in the header.
FromCredentials(token) ==
    Result(TRUE, [id |-> NoID, user |-> token.subject], TRUE, OfClient("bare", token))

Verified == /\ header.auth.form \notin {"none", "session"}
            /\ VerifyAccessToken(header.auth.token)

\* Nothing to find, or a failure of Redis or of an issuer.
NotFoundPossible ==
    \/ FaultsAllowed
    \/ cookie /\ stored = NoSession
    \/ ~cookie /\ ~Verified

Get ==
    IF loaded THEN {Result(TRUE, ctx, TRUE, header.auth)}
    ELSE (IF NotFoundPossible THEN {NotFound} ELSE {})
         \cup (CASE cookie /\ stored # NoSession -> {Result(TRUE, stored, FALSE, header.auth)}
                 [] ~cookie /\ Verified -> {FromCredentials(header.auth.token)}
                 [] OTHER -> {})

\* The context after a call, for a middleware that puts nothing there itself.
Keeps(r) ==
    /\ loaded' = (loaded \/ r.inContext)
    /\ ctx' = IF r.inContext THEN r.session ELSE ctx

----------------------------------------------------------------------------
\* What main.go registers before the router, which then chooses the route.
RewritePath ==
    /\ Runs("UiServerPathRewrite")
    /\ LET u == UiServerPathRewrite(RemoveTrailingSlash(url))
       IN  url' = u /\ chain' = Route(u)
    /\ UNCHANGED <<request, store, loaded, ctx, header, response>>

\* Mutant of LoadSession: an empty session is kept in the context.
LoadSessionAlways ==
    /\ Runs("session")
    /\ Continue
    /\ \E r \in Get :
          /\ loaded' = TRUE
          /\ ctx' = r.session
          /\ header' = [header EXCEPT !.auth = r.auth]
    /\ UNCHANGED <<request, url, store, response>>

LoadSession ==
    /\ Runs("session")
    /\ Continue
    /\ \E r \in Get :
          /\ loaded' = r.ok
          /\ ctx' = r.session
          /\ header' = [header EXCEPT !.auth = r.auth]
    /\ UNCHANGED <<request, url, store, response>>

\* GetAccessToken and GetRefreshToken: the session refers to a token of the
\* provider, and the token store returns one that is not expired.
Available(session, kind) == session.user # Nobody /\ kind \in valid

\* InjectBearerToken leaves a header that is there alone.
BearerToken(h, user) ==
    IF h.auth = Nothing THEN [h EXCEPT !.auth = OfSession(user)] ELSE h
RefreshToken(h, user) == [h EXCEPT !.refresh = user]
GitlabToken(h, user)  == [h EXCEPT !.gitlab = user]
Injected(h, kind, user) ==
    CASE kind = "access"  -> BearerToken(h, user)
      [] kind = "refresh" -> RefreshToken(h, user)
      [] kind = "gitlab"  -> GitlabToken(h, user)

\* Auth.Middleware: a token that is available is set by the injector; on any
\* error the chain goes on.
Inject(name, kind) ==
    /\ Runs(name)
    /\ Continue
    /\ \E r \in Get :
          LET before == [header EXCEPT !.auth = r.auth]
          IN  /\ \/ /\ r.ok /\ Available(r.session, kind)
                    /\ header' = Injected(before, kind, r.session.user)
                 \/ /\ ~(r.ok /\ Available(r.session, kind)) \/ FaultsAllowed
                    /\ header' = before
              /\ Keeps(r)
    /\ UNCHANGED <<request, url, store, response>>

RenkuAccessToken  == Inject("renkuAccessToken", "access")
RenkuRefreshToken == Inject("notebooksRenkuRefreshToken", "refresh")
GitlabAccessToken == Inject("dataGitlabAccessToken", "gitlab")

\* SessionStore.Create: a new anonymous session, its cookie in the response.
Create ==
    /\ loaded' = TRUE
    /\ ctx' = [id |-> NewID, user |-> Nobody]
    /\ setCookie' = NewID

AnonymousHeader(h, id) == [h EXCEPT !.anon = id]

\* The session that Get finds, or a new one if it has no ID, whose ID goes into
\* the header if that is to identify the user.
WithSession(identify) ==
    \E r \in Get :
       LET before    == [header EXCEPT !.auth = r.auth]
           after(id) == IF identify THEN AnonymousHeader(before, id) ELSE before
       IN  \/ /\ r.ok /\ r.session.id # NoID
              /\ header' = after(r.session.id)
              /\ Keeps(r)
              /\ UNCHANGED setCookie
           \/ /\ ~r.ok \/ r.session.id = NoID
              /\ Create
              /\ header' = after(NewID)

EnsureSession ==
    /\ Runs("ensureSession")
    /\ Continue
    /\ WithSession(FALSE)
    /\ UNCHANGED <<request, url, store, served>>

\* Mutant of AnonymousID: the ID of the cookie is used without a look at it.
AnonymousIDOfCookie ==
    /\ Runs("notebooksAnonymousID")
    /\ Continue
    /\ header' = IF header.refresh # Nobody THEN header
                 ELSE [header EXCEPT !.anon = IF cookie THEN CookieID ELSE NewID]
    /\ UNCHANGED <<request, url, store, loaded, ctx, response>>

\* The ID is set unless one of three headers is there; of these the proxy only
\* ever injects the refresh token.
AnonymousID ==
    /\ Runs("notebooksAnonymousID")
    /\ Continue
    /\ \/ header.refresh # Nobody /\ UNCHANGED <<loaded, ctx, header, setCookie>>
       \/ header.refresh = Nobody /\ WithSession(TRUE)
    /\ UNCHANGED <<request, url, store, served>>

\* The error of Create ends the request, in either middleware.
CreateFails ==
    /\ FaultsAllowed
    /\ Runs("ensureSession") \/ (Runs("notebooksAnonymousID") /\ header.refresh = Nobody)
    /\ \E r \in Get :
          /\ ~r.ok \/ r.session.id = NoID
          /\ header' = [header EXCEPT !.auth = r.auth]
          /\ Keeps(r)
    /\ chain' = <<>>
    /\ served' = "error"
    /\ UNCHANGED <<request, url, store, setCookie>>

RewriteNotebooks ==
    /\ Runs("regexRewrite")
    /\ Continue
    /\ url' = ReplacePrefix(url, <<"api", "notebooks">>, <<"api", "data", "notebooks">>)
    /\ UNCHANGED <<request, store, loaded, ctx, header, response>>

StripKc ==
    /\ Runs("stripPrefix")
    /\ Continue
    /\ url' = ReplacePrefix(url, <<"api", "kc">>, <<>>)
    /\ UNCHANGED <<request, store, loaded, ctx, header, response>>

\* The proxy to a service, the login server, the redirect store, or a 404.
Serve ==
    /\ chain # <<>> /\ Head(chain) \in Ends
    /\ served' = Head(chain)
    /\ chain' = <<>>
    /\ UNCHANGED <<request, url, store, loaded, ctx, header, setCookie>>

----------------------------------------------------------------------------
(* Meanwhile                                                                *)

\* The session expires, in Redis and as far as getFromContext is concerned.
SessionExpires ==
    /\ chain # <<>> /\ stored # NoSession
    /\ stored' = NoSession
    /\ loaded' = (loaded /\ ctx.id # CookieID)
    /\ ctx' = IF loaded' THEN ctx ELSE NoSession
    /\ UNCHANGED <<request, url, valid, chain, header, response>>

\* A token expires, and is not refreshed.
TokenExpires(kind) ==
    /\ chain # <<>> /\ kind \in valid
    /\ valid' = valid \ {kind}
    /\ UNCHANGED <<request, url, stored, loaded, ctx, chain, header, response>>

Next ==
    \/ RewritePath
    \/ LoadSession
    \/ RenkuAccessToken
    \/ RenkuRefreshToken
    \/ GitlabAccessToken
    \/ EnsureSession
    \/ AnonymousID
    \/ CreateFails
    \/ RewriteNotebooks
    \/ StripKc
    \/ Serve
    \/ SessionExpires
    \/ \E kind \in Kind : TokenExpires(kind)

Spec == Init /\ [][Next]_vars

----------------------------------------------------------------------------
(* Properties                                                               *)

\* The data service is told who is asking, and told one thing: a refresh token
\* or an anonymous ID, whatever expired between the middlewares.  "This should
\* always run in the middleware chain after all other token injection
\* middlewares have run" (middlewares.go:126-128).
RefreshTokenOrAnonymous ==
    served = "data" => (header.refresh # Nobody <=> header.anon = NoID)

\* The anonymous ID is the ID of a session that the browser can come back
\* with: its own cookie's, or the one that the response sets; it is not the ID
\* of a cookie that the response replaces (middlewares.go:137-147).
AnonymousIDReturns ==
    served = "data" /\ header.anon # NoID =>
        header.anon = (IF setCookie # NoID THEN setCookie
                       ELSE IF cookie THEN CookieID ELSE NoID)

\* One request speaks for one user.  If a service is given the tokens of a
\* user then those that come from the session are all his, and those that come
\* with his own credentials, where there is no cookie, are of the subject of
\* the token that he presents; the service gets that token bare, as the
\* session store puts it there, and never basic credentials that the gateway
\* has understood (session_store.go:226-271).
OneIdentity ==
    served \in Services =>
        /\ header.refresh # Nobody /\ header.gitlab # Nobody => header.refresh = header.gitlab
        /\ header.auth.form = "session" =>
              {header.refresh, header.gitlab} \subseteq {header.auth.user, Nobody}
        /\ ~cookie =>
              \A user \in {header.refresh, header.gitlab} \ {Nobody} :
                 header.auth.form = "bare" /\ header.auth.token.subject = user

\* A user that is known by his own credentials has a token that one of the
\* configured verifiers stands for in all its claims, that this verifier's
\* issuer signed and that is still good, whatever verifier the lookup by the
\* authorized party gave (authenticator.go:14-27).
VerifiedCredentials ==
    header.auth.form = "bare" =>
        \E i \in DOMAIN AuthorizationVerifiers :
           LET tv == AuthorizationVerifiers[i]
               token == header.auth.token
           IN  /\ <<tv.issuer, tv.issuer, tv.authorizedParty>>
                     = <<token.issuer, token.signedBy, token.authorizedParty>>
               /\ tv.audience \in token.audience
               /\ token.left > 0

\* Where a raw path is meant to arrive: without the UI server's prefix, and
\* the notebooks below the data service (middlewares.go:65-67, main.go:61).
Intended(path) ==
    LET api == CASE IsPrefix(<<"ui-server", "api">>, path) -> Tail(path)
                 [] IsPrefix(<<"ui-server", "auth">>, path) -> <<"api">> \o Tail(path)
                 [] OTHER -> path
    IN  IF IsPrefix(<<"api", "notebooks">>, api)
        THEN <<"api", "data">> \o Tail(api) ELSE api

\* The removal of a trailing slash, the rules for the UI server, the choice of
\* the route and the rewriting in the route together get a request to the path
\* that the service expects, although the third rule undoes what the second one
\* did and the router looks at the RawPath that the first step leaves behind.
DataServicePath ==
    served = "data" => url.Path = Intended(WithoutTrailingSlash(Decode(asked)))

\* The same for the escaped path: an encoded slash stays encoded, as it does in
\* the test of "/ui-server/api/data/repositories/https%3A%2F%2F..."
\* (main_test.go:475-478).  Not so if a trailing slash is removed, from Path
\* alone (main.go:70), and not so below /ui-server/api/notebooks, where the
\* third rule replaces Path but finds the RawPath of the second: either way the
\* two no longer fit together (middlewares.go:93-118).
EncodingKept ==
    /\ served = "data"
    /\ WithoutTrailingSlash(asked) = asked
    /\ ~IsPrefix(<<"ui-server", "api", "notebooks">>, asked)
    => Escaped(url) = Intended(asked)
=============================================================================
