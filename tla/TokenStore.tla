----------------------------- MODULE TokenStore -----------------------------
(***************************************************************************)
(* The tokens of one token ID ("renku:<user>", "gitlab:<user>"): the       *)
(* access, refresh and ID token hashes that every gateway replica shares   *)
(* in Redis, the requests that read and refresh them                        *)
(* (internal/tokenstore), the login callback that overwrites them           *)
(* (SaveTokens in internal/sessions), and the identity provider.            *)
(*                                                                          *)
(* A token is the pair of its generation (which answer of the provider it   *)
(* came from) and its expiry.  Every Redis command and every call to the    *)
(* provider is a step of its own; the in-memory code between two of them    *)
(* belongs to the step before it.                                           *)
(***************************************************************************)
EXTENDS Naturals, Expiry, RedisHash

CONSTANTS
    Request,          \* requests, on any replica, that use this token ID
    Margin,           \* TokenStore.ExpiryMargin
    Leeway,           \* tokenExpiresAtLeeway of the token repository
    AccessLife,       \* lifetimes the provider gives; 0 is a token without
    RefreshLife,      \* a readable expiry (a refresh token that is a JWT
    IDLife,           \* without "exp", or no JWT at all)
    Rotates,          \* the provider's refresh tokens are single-use
    Reissues,         \* a refresh returns a new refresh token
    JWTOnRefresh,     \* the answers "is the refresh token it returns a JWT?"
    IDTokenOnRefresh, \* the answers "did the refresh return an ID token?"
    CancelAllowed,    \* clients may disconnect
    FaultsAllowed,    \* replicas may crash, Redis and provider calls fail
    MaxGen, MaxTime   \* bounds of the model: provider answers, clock

Start == 2   \* the clock starts after LongAgo

ASSUME TokenStoreAssumption ==
    /\ {Margin, Leeway, AccessLife, RefreshLife, IDLife} \subseteq Nat
    /\ Margin > 0
    /\ {MaxGen, MaxTime} \subseteq Nat
    /\ {IDTokenOnRefresh, JWTOnRefresh} \subseteq SUBSET BOOLEAN
    /\ FALSE \in JWTOnRefresh => RefreshLife = 0
    /\ {Rotates, Reissues, CancelAllowed, FaultsAllowed} \subseteq BOOLEAN
    /\ Rotates => Reissues

Kind  == {"access", "refresh", "id"}
Gen   == 0 .. MaxGen
Token == [gen : Gen, exp : Nat]
TokenSet == [Kind -> Token]

NoToken      == [gen |-> 0, exp |-> ZeroTime]
MissingToken == [gen |-> 0, exp |-> LongAgo]
NoTokens     == [k \in Kind |-> NoToken]

Ready   == {"idle", "returned", "expired", "failed"}
Working == {"read", "refresh", "exchange", "hset", "expire", "reload", "check"}

VARIABLES
    now,     \* the clock
    store,   \* Redis: the entry of each kind of token
    issued,  \* provider: the number of answers given, also the last generation
    succ,    \* provider: the generation that a spent refresh token was
             \* replaced by, 0 while the token is good
    pc, op,  \* of a request: where it is, and what it is ("access", "id": a
             \* token is wanted; "login": the callback saves tokens)
    at,      \* the kind that a writing request is writing
    tok, rt, fresh, \* its local variables token, refreshToken, freshTokens
    lost,    \* history: refresh tokens that were given and never stored
    cut      \* history: kinds whose last writer stopped after the HSET

vars == <<now, store, issued, succ, pc, op, at, tok, rt, fresh, lost, cut>>
local == <<op, tok, rt, fresh>>
provider == <<issued, succ>>
history == <<lost, cut>>

Entry == [val : Token, ttl : Nat]

TypeOK ==
    /\ now \in Nat
    /\ store \in [Kind -> Entry]
    /\ issued \in Gen
    /\ succ \in [1 .. MaxGen -> Gen]
    /\ pc \in [Request -> Ready \cup Working]
    /\ op \in [Request -> {"none", "access", "id", "login"}]
    /\ at \in [Request -> Kind]
    /\ tok \in [Request -> Token]
    /\ rt \in [Request -> Token]
    /\ fresh \in [Request -> TokenSet]
    /\ lost \subseteq 1 .. MaxGen
    /\ cut \subseteq Kind

Init ==
    /\ now = Start
    /\ store = [k \in Kind |-> Absent(NoToken)]
    /\ issued = 0
    /\ succ = [g \in 1 .. MaxGen |-> 0]
    /\ pc = [p \in Request |-> "idle"]
    /\ op = [p \in Request |-> "none"]
    /\ at = [p \in Request |-> "access"]
    /\ tok = [p \in Request |-> NoToken]
    /\ rt = [p \in Request |-> NoToken]
    /\ fresh = [p \in Request |-> NoTokens]
    /\ lost = {}
    /\ cut = {}

----------------------------------------------------------------------------
(* The refresh tokens that a request received and has not yet stored.      *)

Holds(p) == \/ pc[p] = "hset" /\ at[p] \in {"access", "refresh"}
            \/ pc[p] = "expire" /\ at[p] = "access"

\* With a rotating provider this is a token that no other place holds.
InHand == {fresh[p]["refresh"].gen : p \in {q \in Request : Holds(q)}}

DroppedBy(p) == IF Holds(p) /\ fresh[p]["refresh"].gen # 0
                THEN {fresh[p]["refresh"].gen} ELSE {}

\* The kind whose hash a request wrote without its expiry yet.
CutBy(p) == IF pc[p] = "expire" THEN {at[p]} ELSE {}

Goto(p, label) == pc' = [pc EXCEPT ![p] = label]

\* The end of a request: its local variables are gone.
Finish(p, outcome) ==
    /\ Goto(p, outcome)
    /\ op' = [op EXCEPT ![p] = "none"]
    /\ tok' = [tok EXCEPT ![p] = NoToken]
    /\ rt' = [rt EXCEPT ![p] = NoToken]
    /\ fresh' = [fresh EXCEPT ![p] = NoTokens]
    /\ at' = [at EXCEPT ![p] = "access"]

\* Which of the three hashes is written after kind k, and whether it is.
After(k) == IF k = "access" THEN "refresh" ELSE "id"

\* Mutant of WritesMore: a refresh stores the access token only.
WritesMoreAtLogin(p) == op[p] = "login" /\ at[p] # "id"

WritesMore(p) == \/ at[p] = "access"
                 \/ at[p] = "refresh" /\ fresh[p]["id"].gen # 0

\* The token a request of GetFreshAccessToken or GetFreshIDToken goes on
\* with after a complete refresh: an answer without ID token keeps the old.
Refreshed(p) == IF op[p] = "id" /\ fresh[p]["id"].gen = 0
                THEN tok[p] ELSE fresh[p][op[p]]

----------------------------------------------------------------------------
(* GetFreshAccessToken, GetFreshIDToken and refreshAccessToken              *)

Begin(p, k) ==
    /\ pc[p] \in Ready
    /\ Goto(p, "read")
    /\ op' = [op EXCEPT ![p] = k]
    /\ UNCHANGED <<now, store, provider, at, tok, rt, fresh, history>>

\* HGETALL of the wanted token; one that is missing counts as long expired.
ReadToken(p) ==
    LET found == store[op[p]].val
        token == IF found = NoToken THEN MissingToken ELSE found
    IN  /\ pc[p] = "read"
        /\ tok' = [tok EXCEPT ![p] = token]
        /\ Goto(p, IF ExpiresSoon(now, token.exp, Margin)
                   THEN "refresh" ELSE "check")
        /\ UNCHANGED <<now, store, provider, op, at, rt, fresh, history>>

\* HGETALL of the refresh token, which is used whatever its expiry.
GetRefreshToken(p) ==
    LET found == store["refresh"].val
    IN  /\ pc[p] = "refresh"
        /\ \/ /\ found = NoToken
              /\ Goto(p, "reload")
              /\ UNCHANGED rt
           \/ /\ found # NoToken
              /\ Goto(p, "exchange")
              /\ rt' = [rt EXCEPT ![p] = found]
        /\ UNCHANGED <<now, store, provider, op, at, tok, fresh, history>>

\* The provider accepts a refresh token that is not spent and not expired.
Accepts(t) == t.gen # 0 /\ succ[t.gen] = 0 /\ ~Expired(now, t.exp)

\* Mutant of ExpiresIn: the lifetime is taken off the clock.
ExpiresInReversed(life) == IF life = 0 THEN ZeroTime ELSE now - life

ExpiresIn(life) == IF life = 0 THEN ZeroTime ELSE now + life

\* Mutant of Answer: the refresh token that was sent is always kept.
AnswerKeepsOld(g, oldRefresh, withRefresh, withID) ==
    [access  |-> [gen |-> g, exp |-> ExpiresIn(AccessLife)],
     refresh |-> IF withRefresh /\ oldRefresh = NoToken
                 THEN [gen |-> g, exp |-> ExpiresIn(RefreshLife)]
                 ELSE oldRefresh,
     id      |-> IF withID THEN [gen |-> g, exp |-> ExpiresIn(IDLife)]
                 ELSE NoToken]

\* The provider's answer as the token set that oidc/client.go makes of it:
\* an answer without a refresh token keeps the one that was sent.
Answer(g, oldRefresh, withRefresh, withID) ==
    [access  |-> [gen |-> g, exp |-> ExpiresIn(AccessLife)],
     refresh |-> IF withRefresh
                 THEN [gen |-> g, exp |-> ExpiresIn(RefreshLife)]
                 ELSE oldRefresh,
     id      |-> IF withID THEN [gen |-> g, exp |-> ExpiresIn(IDLife)]
                 ELSE NoToken]

\* The provider's side of a refresh: a single-use token is spent.
Grant(p) ==
    /\ pc[p] = "exchange"
    /\ Accepts(rt[p])
    /\ issued < MaxGen
    /\ issued' = issued + 1
    /\ succ' = IF Rotates THEN [succ EXCEPT ![rt[p].gen] = issued + 1]
               ELSE succ

\* RefreshAccessToken succeeds: the new set is about to be written.  It can
\* only if the new refresh token, if there is one, is a JWT.
Exchange(p) ==
    /\ Grant(p)
    /\ Reissues => TRUE \in JWTOnRefresh
    /\ \E withID \in IDTokenOnRefresh :
          fresh' = [fresh EXCEPT ![p] =
                      Answer(issued + 1, rt[p], Reissues, withID)]
    /\ Goto(p, "hset")
    /\ at' = [at EXCEPT ![p] = "access"]
    /\ rt' = [rt EXCEPT ![p] = NoToken]
    /\ UNCHANGED <<now, store, op, tok, history>>

\* (A provider that has given all the answers of the bound gives errors.)
ExchangeRejected(p) ==
    /\ pc[p] = "exchange"
    /\ ~Accepts(rt[p]) \/ issued = MaxGen
    /\ Goto(p, "reload")
    /\ rt' = [rt EXCEPT ![p] = NoToken]
    /\ UNCHANGED <<now, store, provider, op, at, tok, fresh, history>>

\* The provider answered, and RefreshAccessToken reports an error:
\* refreshAccessToken drops what the answer has.
AnswerDropped(p) ==
    /\ Grant(p)
    /\ lost' = IF Rotates THEN lost \cup {issued + 1} ELSE lost
    /\ Goto(p, "reload")
    /\ rt' = [rt EXCEPT ![p] = NoToken]
    /\ UNCHANGED <<now, store, op, at, tok, fresh, cut>>

\* The error of ParseToken for a new refresh token that is no JWT is logged,
\* and is still in err when refreshAccessToken of the client returns it.
ExchangeUnreadable(p) ==
    /\ Reissues /\ FALSE \in JWTOnRefresh
    /\ AnswerDropped(p)

\* The answer is lost on the way, or its ID token does not verify.
ExchangeLost(p) == FaultsAllowed /\ AnswerDropped(p)

----------------------------------------------------------------------------
(* setAuthToken, two commands per token                                     *)

WriteHash(p) ==
    LET k == at[p]
    IN  /\ pc[p] = "hset"
        /\ store' = [store EXCEPT ![k] = HSet(@, fresh[p][k])]
        /\ Goto(p, "expire")
        /\ UNCHANGED <<now, provider, op, at, tok, rt, fresh, history>>

\* Mutant of WriteTTL: EXPIREAT only touches a key that has an expiry already.
WriteTTLOnlyIfSet(p) ==
    LET k == at[p]
    IN  /\ pc[p] = "expire"
        /\ store' = IF store[k].ttl = NoTTL THEN store
                    ELSE [store EXCEPT ![k] = ExpireAt(@, NoToken,
                                           fresh[p][k].exp + Leeway, now)]
        /\ \/ /\ WritesMore(p)
              /\ Goto(p, "hset")
              /\ at' = [at EXCEPT ![p] = After(k)]
              /\ UNCHANGED local
           \/ /\ ~WritesMore(p)
              /\ Finish(p, "returned")
        /\ cut' = cut \ {k}
        /\ UNCHANGED <<now, provider, lost>>

\* EXPIREAT, or PERSIST for a token without expiry; then the next token, or
\* back to the caller with the refreshed token, or the end of SaveTokens.
WriteTTL(p) ==
    LET k == at[p]
        t == fresh[p][k]
    IN  /\ pc[p] = "expire"
        /\ store' = [store EXCEPT ![k] =
               IF t.exp = ZeroTime THEN Persist(@)
               ELSE ExpireAt(@, NoToken, t.exp + Leeway, now)]
        /\ \/ /\ WritesMore(p)
              /\ Goto(p, "hset")
              /\ at' = [at EXCEPT ![p] = After(k)]
              /\ UNCHANGED local
           \/ /\ ~WritesMore(p) /\ op[p] # "login"
              /\ Goto(p, "check")
              /\ tok' = [tok EXCEPT ![p] = Refreshed(p)]
              /\ fresh' = [fresh EXCEPT ![p] = NoTokens]
              /\ at' = [at EXCEPT ![p] = "access"]
              /\ UNCHANGED <<op, rt>>
           \/ /\ ~WritesMore(p) /\ op[p] = "login"
              /\ Finish(p, "returned")
        /\ cut' = cut \ {k}
        /\ UNCHANGED <<now, provider, lost>>

\* Mutant of Reload: a token that still expires soon sends the request back.
ReloadUntilFresh(p) ==
    LET found == store[op[p]].val
    IN  /\ pc[p] = "reload"
        /\ tok' = IF found = NoToken THEN tok ELSE [tok EXCEPT ![p] = found]
        /\ Goto(p, IF ExpiresSoon(now, tok'[p].exp, Margin)
                   THEN "refresh" ELSE "check")
        /\ UNCHANGED <<now, store, provider, op, at, rt, fresh, history>>

\* After a failed refresh, another request may have stored a newer token.
Reload(p) ==
    LET found == store[op[p]].val
    IN  /\ pc[p] = "reload"
        /\ tok' = IF found = NoToken THEN tok ELSE [tok EXCEPT ![p] = found]
        /\ Goto(p, "check")
        /\ UNCHANGED <<now, store, provider, op, at, rt, fresh, history>>

\* The caller gets the token, or ErrTokenExpired.
Check(p) ==
    /\ pc[p] = "check"
    /\ Finish(p, IF Expired(now, tok[p].exp) THEN "expired" ELSE "returned")
    /\ UNCHANGED <<now, store, provider, history>>

----------------------------------------------------------------------------
(* The login callback: the provider answers the code exchange with a new    *)
(* grant, and SaveTokens writes its three tokens.                           *)

Login(p) ==
    /\ pc[p] \in Ready
    /\ issued < MaxGen
    /\ issued' = issued + 1
    /\ op' = [op EXCEPT ![p] = "login"]
    /\ fresh' = [fresh EXCEPT ![p] = Answer(issued + 1, NoToken, TRUE, TRUE)]
    /\ at' = [at EXCEPT ![p] = "access"]
    /\ Goto(p, "hset")
    /\ UNCHANGED <<now, store, succ, tok, rt, history>>

----------------------------------------------------------------------------
(* What goes wrong: a command that reports an error, a client that goes     *)
(* away, a replica that crashes.                                            *)

\* Mutant of Cancellable: the refresh runs under the request's context too.
CancellableThroughout(p) ==
    pc[p] \in {"read", "refresh", "reload", "hset", "expire"}

\* The commands that run under the context of the request: the reads, and
\* all of SaveTokens.  The exchange and the writes of a refresh do not.
Cancellable(p) == \/ pc[p] \in {"read", "refresh", "reload"}
                  \/ pc[p] \in {"hset", "expire"} /\ op[p] = "login"

MayFail(p) == \/ FaultsAllowed /\ pc[p] \in Working \ {"check"}
              \/ CancelAllowed /\ Cancellable(p)

\* A refresh falls back to the reload, a failed reload to the old token.
CommandFails(p) ==
    /\ MayFail(p)
    /\ lost' = lost \cup DroppedBy(p)
    /\ cut' = cut \cup CutBy(p)
    /\ \/ /\ pc[p] = "read" \/ op[p] = "login"
          /\ Finish(p, "failed")
       \/ /\ pc[p] # "read" /\ op[p] # "login"
          /\ Goto(p, IF pc[p] = "reload" THEN "check" ELSE "reload")
          /\ rt' = [rt EXCEPT ![p] = NoToken]
          /\ fresh' = [fresh EXCEPT ![p] = NoTokens]
          /\ at' = [at EXCEPT ![p] = "access"]
          /\ UNCHANGED <<op, tok>>
    /\ UNCHANGED <<now, store, provider>>

Crash(p) ==
    /\ FaultsAllowed
    /\ pc[p] \in Working
    /\ lost' = lost \cup DroppedBy(p)
    /\ cut' = cut \cup CutBy(p)
    /\ Finish(p, "idle")
    /\ UNCHANGED <<now, store, provider>>

Tick ==
    /\ now < MaxTime
    /\ now' = now + 1
    /\ store' = [k \in Kind |-> Evict(store[k], NoToken, now + 1)]
    /\ UNCHANGED <<provider, pc, op, at, tok, rt, fresh, history>>

----------------------------------------------------------------------------
\* What a request does once it has begun, when nothing goes wrong.
Step(p) ==
    \/ ReadToken(p)
    \/ GetRefreshToken(p)
    \/ Exchange(p)
    \/ ExchangeUnreadable(p)
    \/ ExchangeRejected(p)
    \/ WriteHash(p)
    \/ WriteTTL(p)
    \/ Reload(p)
    \/ Check(p)

Next ==
    \/ \E p \in Request :
          \/ \E k \in {"access", "id"} : Begin(p, k)
          \/ Login(p)
          \/ Step(p)
          \/ ExchangeLost(p)
          \/ CommandFails(p)
          \/ Crash(p)
    \/ Tick

Spec == Init /\ [][Next]_vars

\* A request that has begun is run to its end by its goroutine.
FairSpec == Spec /\ \A p \in Request : WF_vars(Step(p))

----------------------------------------------------------------------------
(* Properties                                                               *)

\* The stored refresh token was spent by some request.
StoredIsSpent ==
    LET g == store["refresh"].val.gen IN g # 0 /\ succ[g] # 0

Replacement == succ[store["refresh"].val.gen]

\* A user is stranded (the stored refresh token is useless) only while some
\* request still holds its replacement, or because a replica lost the
\* replacement between the provider's answer and SetRefreshToken
\* (refreshAccessToken, token_store.go:119-156): by a failure, or because it
\* was no JWT, for which client.go:130 leaves an error behind.  So it is lost
\* by its own request, and never by another one that stores an older token
\* over it.
StrandedOnlyByLoss ==
    StoredIsSpent => Replacement \in InHand \cup lost

\* Nothing fails, and the client can read every refresh token.
Reliable == ~FaultsAllowed /\ FALSE \notin JWTOnRefresh

\* Clients that go away never strand a user, neither in the middle of a
\* refresh (which is what context.WithoutCancel is for, token_store.go:125)
\* nor in the middle of SaveTokens: with no crash and no failed call, and with
\* refresh tokens that are JWTs, the replacement of a spent stored token is
\* always in the hands of a request that is going to store it.
CancelNeverStrands ==
    Reliable /\ StoredIsSpent => Replacement \in InHand

Exclusive(p) ==
    LET h == fresh[p]["refresh"].gen
    IN  /\ h \in 1 .. issued
        /\ succ[h] = 0
        /\ h # store["refresh"].val.gen
        /\ \A q \in Request : pc[q] = "exchange" => rt[q].gen # h
        /\ \A q \in Request \ {p} : Holds(q) => fresh[q]["refresh"].gen # h

\* A single-use refresh token that a request received and has not stored yet
\* is good, and nowhere else: not in Redis, not read by a request that is
\* about to spend it, not in the hands of another request.  So nobody can
\* spend it before SetRefreshToken has published it.
HandIsExclusive == Rotates => \A p \in Request : Holds(p) => Exclusive(p)

\* Whatever is in Redis, in a request or in the provider's table was issued.
OnlyIssued ==
    /\ store["refresh"].val.gen <= issued
    /\ \A g \in 1 .. MaxGen : succ[g] <= issued /\ (g > issued => succ[g] = 0)
    /\ \A p \in Request : pc[p] = "exchange" => rt[p].gen <= issued
    /\ \A p \in Request : Holds(p) => fresh[p]["refresh"].gen <= issued
    /\ \A g \in lost : g <= issued

\* The provider spends refresh tokens only if they are single-use.
SpentOnlyIfRotating == ~Rotates => \A g \in 1 .. MaxGen : succ[g] = 0

\* If nothing fails the tokens that get lost are those of a login that was
\* cut short, and these replace no other token.
LostReplacesNothing ==
    Reliable =>
      \A g \in 1 .. MaxGen : succ[g] # 0 =>
        /\ succ[g] \notin lost
        /\ \A p \in Request :
              Holds(p) /\ op[p] = "login" => fresh[p]["refresh"].gen # succ[g]

\* The inductive invariant: the four facts above make StrandedOnlyByLoss
\* inductive, and imply CancelNeverStrands.
CustodyInv ==
    /\ HandIsExclusive
    /\ OnlyIssued
    /\ SpentOnlyIfRotating
    /\ LostReplacesNothing
    /\ StrandedOnlyByLoss

\* A token that got lost is gone: it is not in Redis, and no request holds it
\* or is about to spend it.
LostIsGone ==
    Rotates =>
        /\ store["refresh"].val.gen \notin lost
        /\ \A p \in Request : /\ pc[p] = "exchange" => rt[p].gen \notin lost
                              /\ Holds(p) => fresh[p]["refresh"].gen \notin lost

\* The refinement: the custody of single-use refresh tokens, seen in the state
\* of the store, the requests and the provider.
Custody == INSTANCE RefreshCustody
             WITH Token <- 1 .. MaxGen, None <- 0, issued <- 1 .. issued,
                  hand <- InHand, stored <- store["refresh"].val.gen,
                  lost <- lost, succ <- succ

\* With single-use refresh tokens the Redis commands, the calls of the
\* provider and the failures of all requests together come to what
\* RefreshCustody allows: refreshAccessToken and SaveTokens
\* (token_store.go:81-156) take each token through its life in order, and no
\* token is spent twice or before it was stored.
LifeOfRefreshTokens == Custody!Spec

\* A stored token with an expiry date has an expiry on its key too, except
\* between the HSET and the EXPIREAT of a writer: HSET and EXPIREAT are two
\* commands (token_repo_redis.go:128-140) and the writers of one key
\* interleave.  Such a token stays in Redis for ever only if a writer stopped
\* between the two, and until the next one completes its write.
NoImmortalToken ==
    \A k \in Kind :
        LET e == store[k]
        IN  e.val # NoToken /\ e.val.exp # ZeroTime /\ e.ttl = NoTTL
            => k \in cut \/ \E p \in Request : pc[p] = "expire" /\ at[p] = k

\* Every request comes to an end: neither a refresh that fails nor one that
\* another request overtakes makes GetFresh... start over.
EveryRequestEnds ==
    \A p \in Request : pc[p] \in Working ~> pc[p] \in Ready

\* A spent refresh token does not stay in the store: without failures, and with
\* refresh tokens that are JWTs, the request that spent it stores a good one,
\* whoever goes away meanwhile.
StrandedUserRecovers == StoredIsSpent ~> ~StoredIsSpent
=============================================================================
