------------------------------ MODULE Sessions ------------------------------
(***************************************************************************)
(* The session store (internal/sessions), its Redis repository             *)
(* (internal/db), and every handler that changes a session: the login      *)
(* server (internal/login) and the middlewares of the reverse proxy that   *)
(* create anonymous sessions.  One browser sends concurrent requests.  A   *)
(* request loads the session into its context, works on that copy, and     *)
(* writes the whole copy back when the handler is done.                     *)
(***************************************************************************)
EXTENDS Integers, Sequences, Expiry, RedisHash

CONSTANTS
    Request,        \* requests that may be in flight together
    IdleTTL, MaxTTL,\* SessionConfig; 0 is "no maximum" for MaxTTL
    Leeway,         \* tokenExpiresAtLeeway, also used for sessions
    LoginSequences, \* what getLoginSequence or the provider_id parameter gives
    Missing,        \* providers that not every replica has in its client store
    CancelAllowed,  \* the browser may give up on a request
    FaultsAllowed,  \* a replica may crash, a Redis command or SaveTokens fail
    MaxSessions, MaxStates, MaxTime   \* bounds of the model

Provider == {"renku", "gitlab"}
NoID     == 0                \* the empty session ID: ephemeral or deleted
ID       == 0 .. MaxSessions
State    == 0 .. MaxStates   \* login states; 0 is the empty string
Start    == 2

ASSUME SessionsAssumption ==
    /\ {IdleTTL, MaxTTL, Leeway} \subseteq Nat
    /\ IdleTTL > 0                           \* SessionConfig.Validate
    /\ MaxTTL > 0 => IdleTTL <= MaxTTL
    /\ {MaxSessions, MaxStates, MaxTime} \subseteq Nat
    /\ LoginSequences \subseteq Seq(Provider) \ {<<>>}
    /\ Missing \subseteq Provider
    /\ {CancelAllowed, FaultsAllowed} \subseteq BOOLEAN

Session == [id : ID, created : Nat, exp : Nat, user : {"", "alice"},
            toks : SUBSET Provider, seq : Seq(Provider), state : State]

\* &models.Session{}: what an absent key reads as and what Delete leaves in
\* the request context.
NoSession == [id |-> NoID, created |-> 0, exp |-> ZeroTime, user |-> "",
              toks |-> {}, seq |-> <<>>, state |-> 0]

VARIABLES
    now,
    db,        \* Redis: the hash of each session ID
    used,      \* number of session IDs given out
    nonce,     \* number of login states given out
    issuer,    \* the provider that a login state was made for
    spent,     \* provider: login states whose authorization code was redeemed
    jar,       \* browser: the session cookie, NoID if none
    known,     \* browser: the login states it was redirected with
    pending,   \* browser: the last of them, until it follows the redirect
    pc, kind,  \* of a request: where it is, which handler serves it
    cookie, bearer, cb,  \* what it carries: cookie, bearer token, state
    loaded, ctx,  \* the session in the request context, if any
    mem, alias,   \* the session of the callback; is it the one in the context
    out, final,   \* what is being saved; by the middleware or by the handler
    reply,     \* what the response will tell the browser
    flows, authed, loggedOut, \* history: IDs of logins that sent the browser to
                              \* a provider, of token callbacks, and deleted IDs
    cut        \* history: IDs whose last writer stopped after the HSET

vars == <<now, db, used, nonce, issuer, spent, jar, known, pending, pc, kind,
          cookie, bearer, cb, loaded, ctx, mem, alias, out, final, reply, flows,
          authed, loggedOut, cut>>
input   == <<kind, cookie, bearer, cb>>
work    == <<mem, alias>>
saving  == <<out, final>>
browser == <<jar, known, pending>>
history == <<flows, authed, loggedOut, cut>>
counters == <<used, nonce, issuer>>

Keep == -1   \* the response sets no cookie
NoReply == [cookie |-> Keep, state |-> 0]

TypeOK ==
    /\ now \in Nat
    /\ db \in [ID -> [val : Session, ttl : Nat]]
    /\ used \in ID /\ nonce \in State /\ spent \subseteq State
    /\ issuer \in [State -> Provider \cup {"none"}]
    /\ jar \in ID /\ known \subseteq State /\ pending \in State
    /\ pc \in [Request -> {"idle", "load", "handle", "exchange", "save",
                           "hset", "expire", "end"}]
    /\ kind \in [Request -> {"proxy", "ensure", "login", "callback", "logout"}]
    /\ cookie \in [Request -> ID] /\ bearer \in [Request -> BOOLEAN]
    /\ cb \in [Request -> State]
    /\ loaded \in [Request -> BOOLEAN] /\ ctx \in [Request -> Session]
    /\ mem \in [Request -> Session] /\ alias \in [Request -> BOOLEAN]
    /\ out \in [Request -> Session] /\ final \in [Request -> BOOLEAN]
    /\ reply \in [Request -> [cookie : ID \cup {Keep}, state : State]]
    /\ flows \subseteq ID /\ authed \subseteq ID /\ loggedOut \subseteq ID
    /\ cut \subseteq ID

Init ==
    /\ now = Start
    /\ db = [k \in ID |-> Absent(NoSession)]
    /\ used = 0 /\ nonce = 0 /\ spent = {}
    /\ issuer = [n \in State |-> "none"]
    /\ jar = NoID /\ known = {} /\ pending = 0
    /\ pc = [p \in Request |-> "idle"]
    /\ kind = [p \in Request |-> "proxy"]
    /\ cookie = [p \in Request |-> NoID] /\ bearer = [p \in Request |-> FALSE]
    /\ cb = [p \in Request |-> 0]
    /\ loaded = [p \in Request |-> FALSE] /\ ctx = [p \in Request |-> NoSession]
    /\ mem = [p \in Request |-> NoSession] /\ alias = [p \in Request |-> FALSE]
    /\ out = [p \in Request |-> NoSession] /\ final = [p \in Request |-> FALSE]
    /\ reply = [p \in Request |-> NoReply]
    /\ flows = {} /\ authed = {} /\ loggedOut = {} /\ cut = {}

Goto(p, label) == pc' = [pc EXCEPT ![p] = label]

----------------------------------------------------------------------------
(* SessionStore.Get                                                         *)

\* Mutant of Touch: the maximum lifetime is forgotten.
TouchUncapped(s) == [s EXCEPT !.exp = now + IdleTTL]

Touch(s) == [s EXCEPT !.exp = Touched(now, s.created, IdleTTL, MaxTTL)]

\* The session of a verified bearer or basic authorization header.
Ephemeral == [NoSession EXCEPT !.created = now, !.user = "alice",
                               !.toks = Provider]

\* getFromContext: the session of the context, unless it expired meanwhile.
InContext(p) == loaded[p] /\ ~Expired(now, ctx[p].exp)
ByHeader(p)  == cookie[p] = NoID /\ bearer[p]
InStore(p)   == /\ cookie[p] # NoID
                /\ db[cookie[p]].val # NoSession
                /\ ~Expired(now, db[cookie[p]].val.exp)

Found(p) == InContext(p) \/ ByHeader(p) \/ InStore(p)
Get(p) == CASE InContext(p)                   -> ctx[p]
            [] ~InContext(p) /\ ByHeader(p)   -> Ephemeral
            [] ~InContext(p) /\ ~ByHeader(p)  -> Touch(db[cookie[p]].val)

\* Only a lookup that reaches Redis can fail for another reason than "none".
AsksStore(p) == ~InContext(p) /\ cookie[p] # NoID

\* A request whose command to Redis fails under the request's own context.
ReadMayFail == FaultsAllowed \/ CancelAllowed

SetContext(p, s) == /\ loaded' = [loaded EXCEPT ![p] = TRUE]
                    /\ ctx' = [ctx EXCEPT ![p] = s]

----------------------------------------------------------------------------
(* The browser sends a request; the session middleware loads the session    *)

Send(p, k, b, s) ==
    /\ pc[p] = "idle"
    /\ k = "callback" <=> s # 0
    /\ k = "callback" => s \in known
    /\ pending' = IF s = pending THEN 0 ELSE pending
    /\ b => k \in {"proxy", "ensure"} /\ jar = NoID
    /\ Goto(p, "load")
    /\ kind' = [kind EXCEPT ![p] = k]
    /\ cookie' = [cookie EXCEPT ![p] = jar]
    /\ bearer' = [bearer EXCEPT ![p] = b]
    /\ cb' = [cb EXCEPT ![p] = s]
    /\ UNCHANGED <<now, db, counters, spent, jar, known, loaded, ctx, work,
                   saving, reply, history>>

\* Middleware, up to the call of the handler.
Load(p) ==
    /\ pc[p] = "load"
    /\ Goto(p, "handle")
    /\ \/ Found(p) /\ SetContext(p, Get(p))
       \/ ~Found(p) /\ UNCHANGED <<loaded, ctx>>
    /\ UNCHANGED <<now, db, counters, spent, browser, input, work, saving,
                   reply, history>>

\* Any other error than "not found" is logged and the request goes on.
LoadFails(p) ==
    /\ ReadMayFail /\ AsksStore(p)
    /\ pc[p] = "load"
    /\ Goto(p, "handle")
    /\ UNCHANGED <<now, db, counters, spent, browser, input, loaded, ctx, work,
                   saving, reply, history>>

----------------------------------------------------------------------------
(* Handlers                                                                 *)

\* Control goes to Save: a handler's own (nextAuthStep) or the middleware's.
StartSave(p, byMiddleware) ==
    /\ Goto(p, "save")
    /\ final' = [final EXCEPT ![p] = byMiddleware]
    /\ UNCHANGED out

\* SessionMakerImpl.NewSession, with a new random ID.
NewSession == [NoSession EXCEPT !.id = used + 1, !.created = now,
                                !.exp = FirstExpiry(now, IdleTTL, MaxTTL)]

\* SessionStore.Create, with what the caller adds to the new session at once.
Create(p, s) ==
    /\ used < MaxSessions
    /\ used' = used + 1
    /\ SetContext(p, s)

\* At the bounds the generators of IDs and of login states return the errors
\* that the code provides for.
NoMoreIDs    == used = MaxSessions
NoMoreStates == nonce = MaxStates

\* A handler that only reads the session: the proxied backends, the GitLab
\* token, health, profile and the OpenAPI pages.
Proxy(p) ==
    /\ pc[p] = "handle" /\ kind[p] = "proxy"
    /\ StartSave(p, TRUE)
    /\ UNCHANGED <<now, db, counters, spent, browser, input, loaded, ctx, work,
                   reply, history>>

\* Mutant of Ensure: a session without a user counts as none.
EnsureUser(p) ==
    /\ pc[p] = "handle" /\ kind[p] = "ensure"
    /\ StartSave(p, TRUE)
    /\ \/ /\ NoMoreIDs \/ (Found(p) /\ Get(p).user # "")
          /\ UNCHANGED <<counters, loaded, ctx, reply>>
       \/ /\ ~(Found(p) /\ Get(p).user # "")
          /\ Create(p, NewSession)
          /\ reply' = [reply EXCEPT ![p].cookie = used + 1]
          /\ UNCHANGED <<nonce, issuer>>
    /\ UNCHANGED <<now, db, spent, browser, input, work, history>>

\* ensureSession and notebooksAnonymousID: a session with an ID, or a new one.
Ensure(p) ==
    /\ pc[p] = "handle" /\ kind[p] = "ensure"
    /\ StartSave(p, TRUE)
    /\ \/ /\ Found(p) /\ Get(p).id # NoID
          /\ UNCHANGED <<counters, loaded, ctx, reply>>
       \/ /\ ~(Found(p) /\ Get(p).id # NoID) \/ (ReadMayFail /\ AsksStore(p))
          /\ Create(p, NewSession)
          /\ reply' = [reply EXCEPT ![p].cookie = used + 1]
          /\ UNCHANGED <<nonce, issuer>>
       \/ NoMoreIDs /\ UNCHANGED <<counters, loaded, ctx, reply>>
    /\ UNCHANGED <<now, db, spent, browser, input, work, history>>

\* GenerateLoginState, for the provider that comes first in seq.
NewState(seq) == /\ ~NoMoreStates
                 /\ nonce' = nonce + 1
                 /\ issuer' = [issuer EXCEPT ![nonce + 1] = Head(seq)]

\* The session of a login that is to visit the providers of seq.
Begun(seq, state) == [NewSession EXCEPT !.seq = seq, !.state = state]

\* GetLogin: always a new session, then nextAuthStep.
Login(p) ==
    /\ pc[p] = "handle" /\ kind[p] = "login"
    /\ \E seq \in LoginSequences : /\ NewState(seq)
                                  /\ Create(p, Begun(seq, nonce + 1))
    /\ reply' = [reply EXCEPT ![p] = [cookie |-> used + 1, state |-> nonce + 1]]
    /\ flows' = flows \cup {used + 1}
    /\ StartSave(p, FALSE)
    /\ UNCHANGED <<now, db, spent, browser, input, work, authed,
                   loggedOut, cut>>

\* Without a session nothing happens.  After Create an error of nextAuthStep,
\* no state or no client for the provider, leaves the new session in the
\* context, and the middleware saves it.
LoginFails(p) ==
    /\ pc[p] = "handle" /\ kind[p] = "login"
    /\ StartSave(p, TRUE)
    /\ \/ NoMoreIDs /\ UNCHANGED <<counters, loaded, ctx, reply>>
       \/ /\ \E seq \in LoginSequences :
                \/ /\ NoMoreStates /\ UNCHANGED <<nonce, issuer>>
                   /\ Create(p, Begun(seq, 0))
                \/ /\ Head(seq) \in Missing /\ NewState(seq)
                   /\ Create(p, Begun(seq, nonce + 1))
          /\ reply' = [reply EXCEPT ![p].cookie = used + 1]
    /\ UNCHANGED <<now, db, spent, browser, input, work, history>>

\* The state of the callback is that of the session, and a provider is due.
Accepted(p, s) == s.state = cb[p] /\ s.seq # <<>>

\* Mutant of Callback: Get hands out copies instead of the session itself.
CallbackOnCopy(p) ==
    /\ pc[p] = "handle" /\ kind[p] = "callback"
    /\ Found(p) /\ Accepted(p, Get(p))
    /\ mem' = [mem EXCEPT ![p] = Get(p)]
    /\ Goto(p, "exchange")
    /\ UNCHANGED <<now, db, counters, spent, browser, input, loaded, ctx,
                   alias, saving, reply, history>>

\* GetCallback up to the exchange of the code.  The session is the one in the
\* context, or, when the middleware could not load it or it expired since, a
\* copy that the later calls of Save do not see.
Callback(p) ==
    /\ pc[p] = "handle" /\ kind[p] = "callback"
    /\ Found(p) /\ Accepted(p, Get(p))
    /\ mem' = [mem EXCEPT ![p] = Get(p)]
    /\ alias' = [alias EXCEPT ![p] = InContext(p)]
    /\ Goto(p, "exchange")
    /\ UNCHANGED <<now, db, counters, spent, browser, input, loaded, ctx,
                   saving, reply, history>>

\* An error of GetCallback.  When CodeExchangeHandler does not find the
\* provider, the sequence of the session has already lost it.
CallbackRejected(p) ==
    /\ pc[p] = "handle" /\ kind[p] = "callback"
    /\ \/ /\ \/ ~Found(p)
             \/ Found(p) /\ ~Accepted(p, Get(p))
             \/ ReadMayFail /\ AsksStore(p)
          /\ UNCHANGED ctx
       \/ /\ Found(p) /\ Accepted(p, Get(p))
          /\ Head(Get(p).seq) \in Missing
          /\ ctx' = IF InContext(p) THEN [ctx EXCEPT ![p].seq = Tail(@)] ELSE ctx
    /\ StartSave(p, TRUE)
    /\ UNCHANGED <<now, db, counters, spent, browser, input, loaded, work,
                   reply, history>>

\* nextAuthStep of the callback with its session s: the flow is complete, or
\* the next provider gets a state of its own, for which the generator or the
\* client may be missing; then only the middleware saves.  The redirect does
\* not reach the browser once an error has been written to the response.
NextAuthStep(p, s, redirected) ==
    LET more    == s.seq # <<>>
        InPlace(next) == ctx' = IF alias[p] THEN [ctx EXCEPT ![p] = next] ELSE ctx
    IN  /\ \/ /\ ~more
              /\ InPlace(s) /\ StartSave(p, FALSE)
              /\ UNCHANGED <<nonce, issuer, reply>>
           \/ /\ more /\ NoMoreStates
              /\ InPlace(s) /\ StartSave(p, TRUE)
              /\ UNCHANGED <<nonce, issuer, reply>>
           \/ /\ more /\ NewState(s.seq)
              /\ InPlace([s EXCEPT !.state = nonce + 1])
              /\ \/ /\ StartSave(p, FALSE)
                    /\ reply' = IF redirected
                                THEN [reply EXCEPT ![p].state = nonce + 1] ELSE reply
                 \/ /\ Head(s.seq) \in Missing
                    /\ StartSave(p, TRUE) /\ UNCHANGED reply
        /\ mem' = [mem EXCEPT ![p] = NoSession]
        /\ alias' = [alias EXCEPT ![p] = FALSE]
        /\ UNCHANGED <<now, db, used, browser, input, loaded, flows, loggedOut,
                       cut>>

\* Mutant of LoggedIn: the two strings of the callback are swapped, and the
\* provider is stored for the user.
LoggedInAsProvider(s) ==
    [s EXCEPT !.state = 0, !.toks = @ \cup {Head(s.seq)}, !.user = Head(s.seq)]

\* What the token callback makes of the session: no state, the user that the
\* first provider names, and a reference to the tokens of the provider.
LoggedIn(s) ==
    [s EXCEPT !.state = 0, !.toks = @ \cup {Head(s.seq)},
              !.user = IF Head(s.seq) = "renku" THEN "alice" ELSE @]

\* The provider redeems a code of its own once; the token callback runs.
\* SaveTokens stores the tokens (stored) or fails, which ends the response
\* with an error but not the handler.
Exchange(p, stored) ==
    /\ pc[p] = "exchange"
    /\ cb[p] \notin spent /\ issuer[cb[p]] = Head(mem[p].seq)
    /\ stored \/ ReadMayFail
    /\ spent' = spent \cup {cb[p]}
    /\ authed' = authed \cup {mem[p].id}
    /\ NextAuthStep(p, [LoggedIn(mem[p]) EXCEPT !.seq = Tail(@)], stored)

\* Mutant of ExchangeFails: the 401 is not written, the redirect goes out.
ExchangeFailsRedirects(p) ==
    /\ pc[p] = "exchange"
    /\ UNCHANGED <<spent, authed>>
    /\ NextAuthStep(p, [mem[p] EXCEPT !.seq = Tail(@)], TRUE)

\* The exchange fails: the library answers 401 and the token callback does
\* not run, but echo.WrapHandler reports no error and nextAuthStep follows.
ExchangeFails(p) ==
    /\ pc[p] = "exchange"
    /\ UNCHANGED <<spent, authed>>
    /\ NextAuthStep(p, [mem[p] EXCEPT !.seq = Tail(@)], FALSE)

\* Mutant of Delete: the context keeps the session.
DeleteKeepsContext(p) ==
    /\ reply' = [reply EXCEPT ![p].cookie = NoID]
    /\ UNCHANGED <<loaded, ctx>>
    /\ \/ /\ cookie[p] # NoID
          /\ db' = [db EXCEPT ![cookie[p]] = Absent(NoSession)]
          /\ loggedOut' = loggedOut \cup {cookie[p]}
       \/ /\ cookie[p] = NoID \/ ReadMayFail
          /\ UNCHANGED <<db, loggedOut>>

\* SessionStore.Delete unsets the cookie and empties the context before it
\* deletes the key, which may fail.
Delete(p) ==
    /\ reply' = [reply EXCEPT ![p].cookie = NoID]
    /\ SetContext(p, NoSession)
    /\ \/ /\ cookie[p] # NoID
          /\ db' = [db EXCEPT ![cookie[p]] = Absent(NoSession)]
          /\ loggedOut' = loggedOut \cup {cookie[p]}
       \/ /\ cookie[p] = NoID \/ ReadMayFail
          /\ UNCHANGED <<db, loggedOut>>

\* GetLogout; the ID token hint for the logout page changes no session.
Logout(p) ==
    /\ pc[p] = "handle" /\ kind[p] = "logout"
    /\ StartSave(p, TRUE)
    /\ Delete(p)
    /\ UNCHANGED <<now, counters, spent, browser, input, work, flows, authed,
                   cut>>

----------------------------------------------------------------------------
(* SessionStore.Save, by nextAuthStep and by the middleware, which saves    *)
(* after every request; it cannot be cancelled                              *)

AfterSave(p) ==
    IF final[p] THEN Goto(p, "end") /\ UNCHANGED saving
                ELSE StartSave(p, TRUE)

\* Mutant of Save: without the test for an empty session ID.
SaveEphemeral(p) ==
    /\ pc[p] = "save"
    /\ \/ /\ Found(p)
          /\ out' = [out EXCEPT ![p] = Get(p)]
          /\ Goto(p, "hset")
          /\ UNCHANGED final
       \/ ~Found(p) /\ AfterSave(p)
    /\ UNCHANGED <<now, db, counters, spent, browser, input, loaded, ctx, work,
                   reply, history>>

\* Get once more; an ephemeral or deleted session is not saved.
Save(p) ==
    /\ pc[p] = "save"
    /\ \/ /\ Found(p) /\ Get(p).id # NoID
          /\ out' = [out EXCEPT ![p] = Get(p)]
          /\ Goto(p, "hset")
          /\ UNCHANGED final
       \/ /\ ~(Found(p) /\ Get(p).id # NoID) \/ (ReadMayFail /\ AsksStore(p))
          /\ AfterSave(p)
    /\ UNCHANGED <<now, db, counters, spent, browser, input, loaded, ctx, work,
                   reply, history>>

\* SetSession: HSET of the whole record.
WriteHash(p) ==
    /\ pc[p] = "hset"
    /\ db' = [db EXCEPT ![out[p].id] = HSet(@, out[p])]
    /\ Goto(p, "expire")
    /\ UNCHANGED <<now, counters, spent, browser, input, loaded, ctx, work,
                   saving, reply, history>>

\* Mutant of WriteTTL: only a new session gets its expiry, for a key that is
\* already there has one.
WriteTTLIfNew(p) ==
    /\ pc[p] = "expire"
    /\ db' = IF out[p].created < now THEN db
             ELSE [db EXCEPT ![out[p].id] =
                     ExpireAt(@, NoSession, out[p].exp + Leeway, now)]
    /\ cut' = cut \ {out[p].id}
    /\ AfterSave(p)
    /\ UNCHANGED <<now, counters, spent, browser, input, loaded, ctx, work,
                   reply, flows, authed, loggedOut>>

\* SetSession: EXPIREAT.
WriteTTL(p) ==
    /\ pc[p] = "expire"
    /\ db' = [db EXCEPT ![out[p].id] =
                ExpireAt(@, NoSession, out[p].exp + Leeway, now)]
    /\ cut' = cut \ {out[p].id}
    /\ AfterSave(p)
    /\ UNCHANGED <<now, counters, spent, browser, input, loaded, ctx, work,
                   reply, flows, authed, loggedOut>>

\* The session whose hash a request wrote without its expiry yet.
CutBy(p) == IF pc[p] = "expire" THEN {out[p].id} ELSE {}

SaveFails(p) ==
    /\ FaultsAllowed
    /\ pc[p] \in {"hset", "expire"}
    /\ cut' = cut \cup CutBy(p)
    /\ AfterSave(p)
    /\ UNCHANGED <<now, db, counters, spent, browser, input, loaded, ctx, work,
                   reply, flows, authed, loggedOut>>

----------------------------------------------------------------------------
(* The end of a request: the response, which net/http holds back until the  *)
(* middlewares have returned, reaches the browser, or does not              *)

Forget(p) ==
    /\ Goto(p, "idle")
    /\ kind' = [kind EXCEPT ![p] = "proxy"]
    /\ cookie' = [cookie EXCEPT ![p] = NoID]
    /\ bearer' = [bearer EXCEPT ![p] = FALSE]
    /\ cb' = [cb EXCEPT ![p] = 0]
    /\ loaded' = [loaded EXCEPT ![p] = FALSE]
    /\ ctx' = [ctx EXCEPT ![p] = NoSession]
    /\ mem' = [mem EXCEPT ![p] = NoSession]
    /\ alias' = [alias EXCEPT ![p] = FALSE]
    /\ out' = [out EXCEPT ![p] = NoSession]
    /\ final' = [final EXCEPT ![p] = FALSE]
    /\ reply' = [reply EXCEPT ![p] = NoReply]
    /\ UNCHANGED <<now, db, counters, spent, flows, authed, loggedOut>>

Respond(p) ==
    /\ pc[p] = "end"
    /\ jar' = IF reply[p].cookie = Keep THEN jar ELSE reply[p].cookie
    /\ \/ reply[p].state = 0 /\ UNCHANGED <<known, pending>>
       \/ /\ reply[p].state # 0
          /\ known' = known \cup {reply[p].state}
          /\ pending' = reply[p].state
    /\ UNCHANGED cut
    /\ Forget(p)

ResponseLost(p) ==
    /\ CancelAllowed \/ FaultsAllowed
    /\ pc[p] = "end"
    /\ UNCHANGED <<browser, cut>>
    /\ Forget(p)

Crash(p) ==
    /\ FaultsAllowed
    /\ pc[p] \notin {"idle", "end"}
    /\ cut' = cut \cup CutBy(p)
    /\ UNCHANGED browser
    /\ Forget(p)

Tick ==
    /\ now < MaxTime
    /\ now' = now + 1
    /\ db' = [k \in ID |-> Evict(db[k], NoSession, now + 1)]
    /\ UNCHANGED <<counters, spent, browser, pc, input, loaded, ctx, work,
                   saving, reply, history>>

----------------------------------------------------------------------------
Handle(p) ==
    \/ Proxy(p)
    \/ Ensure(p)
    \/ Login(p)
    \/ LoginFails(p)
    \/ Callback(p)
    \/ CallbackRejected(p)
    \/ Logout(p)
    \/ Exchange(p, TRUE)
    \/ ExchangeFails(p)

Saving(p) == Save(p) \/ WriteHash(p) \/ WriteTTL(p)

Step(p) == Load(p) \/ Handle(p) \/ Saving(p) \/ Respond(p)

Next ==
    \/ \E p \in Request :
          \/ \E k \in {"proxy", "ensure", "login", "logout"}, b \in BOOLEAN :
                Send(p, k, b, 0)
          \/ \E s \in State : Send(p, "callback", FALSE, s)
          \/ Step(p)
          \/ LoadFails(p)
          \/ Exchange(p, FALSE)
          \/ SaveFails(p)
          \/ ResponseLost(p)
          \/ Crash(p)
    \/ Tick

Spec == Init /\ [][Next]_vars

----------------------------------------------------------------------------
(* Properties                                                               *)

Valid(k) == k # NoID /\ db[k].val # NoSession /\ ~Expired(now, db[k].val.exp)

\* No request is served with a session past its maximum lifetime, and no copy
\* of a session claims to live longer, although requests keep touching it,
\* write stale copies back, and may crash between HSET and EXPIREAT, which
\* leaves the key in Redis for ever (models/session.go:36-51,
\* session_repo_redis.go:35-46).
Within(s) == s.id # NoID /\ MaxTTL > 0 =>
                s.exp # ZeroTime /\ s.exp <= s.created + MaxTTL
WithinMaxTTL ==
    /\ \A k \in ID : Within(db[k].val)
    /\ \A p \in Request : Within(ctx[p]) /\ Within(mem[p]) /\ Within(out[p])

\* A session in Redis names a user only if the token callback ran in that very
\* session: an ephemeral session never gets stored, and a request never writes
\* its copy under the key of another session (session_store.go:138-150).
StoredUserLoggedIn ==
    \A k \in ID : db[k].val.user # "" => k \in authed /\ db[k].val.id = k

\* With the default login sequences the GitLab tokens are never saved in a
\* session without a user: if the first exchange fails, the browser does not
\* learn the state of the second, and if the replica has no client for the
\* first provider, the state that stays is good for a code of that provider
\* only (login_server_routes.go:56-78, 82-88).
GitLabAfterRenku ==
    \A k \in ID : "gitlab" \in db[k].val.toks => db[k].val.user # ""

\* A session in Redis has an expiry on its key, except between the HSET and
\* the EXPIREAT of a writer (session_repo_redis.go:35-46), also when a logout
\* deletes the key in between and when stale copies are written concurrently.
\* Only a writer that stopped between the two leaves a key without one, and
\* only until the next write of that session is complete.
NoImmortalSession ==
    \A k \in ID :
        db[k].val # NoSession /\ db[k].ttl = NoTTL
        => k \in cut \/ \E p \in Request : pc[p] = "expire" /\ out[p].id = k

\* A request that comes with the cookie of a good session does not replace it
\* by a new one: "creating a new one if none is found" (middlewares.go:48).
GoodSessionKept ==
    [][\A p \in Request :
         /\ pc[p] = "handle" /\ kind[p] = "ensure"
         /\ Valid(cookie[p])
         => ~(pc'[p] = "save" /\ reply'[p].cookie # Keep)]_vars

\* "Delete removes the current session from storage" (session_store.go:152), and
\* it stays away: the save that the middleware does after a logout must not
\* bring it back, nor must that of another request.  It holds for one request
\* at a time and fails for two.
LogoutSticks == \A k \in loggedOut : db[k].val = NoSession

\* When a browser has been redirected to a provider and has not come back yet,
\* the stored session has the state of that redirect, so that the callback will
\* find it: "ensure we save the session before sending redirects"
\* (login_server_routes.go:237).  Of a browser that sends one request at a time;
\* a concurrent one may write an older copy over the new state.
PendingStateStored ==
    pending # 0 /\ jar \in flows /\ Valid(jar) => db[jar].val.state = pending
=============================================================================
