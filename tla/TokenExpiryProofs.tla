-------------------------- MODULE TokenExpiryProofs --------------------------
(***************************************************************************)
(* No token of TokenStore stays in Redis for ever, although each is written *)
(* by two commands and the writers of one key interleave, unless a writer   *)
(* stops between its two commands.                                          *)
(***************************************************************************)
EXTENDS TokenStoreProofs

Life(k) == CASE k = "access"  -> AccessLife
             [] k = "refresh" -> RefreshLife
             [] OTHER         -> IDLife

\* The tokens of one kind have an expiry all or none.
Dated(t, k) == t = NoToken \/ (t.exp = ZeroTime <=> Life(k) = 0)

\* The tokens that a request writes are there.
ToWrite(p) == /\ fresh[p]["access"] # NoToken
              /\ fresh[p]["refresh"] # NoToken
              /\ at[p] = "id" => fresh[p]["id"] # NoToken

\* What NoImmortalToken needs to be inductive: PERSIST, which a writer of a
\* token without expiry calls, must not hit the token with an expiry that
\* another writer has put under the same key.
DatesInv ==
    /\ \A k \in Kind : Dated(store[k].val, k)
    /\ \A p \in Request, k \in Kind : Dated(fresh[p][k], k)
    /\ \A p \in Request : Dated(rt[p], "refresh")
    /\ \A p \in Request : pc[p] \in {"hset", "expire"} => ToWrite(p)
    /\ \A p \in Request : pc[p] = "exchange" => rt[p] # NoToken

\* The tokens of an answer have the expiry of their kind.
LEMMA AnswerDated ==
    ASSUME TypeInv, NEW g \in Nat, g # 0, NEW t \in Token,
           Dated(t, "refresh"), t # NoToken,
           NEW b \in BOOLEAN, NEW c \in BOOLEAN
    PROVE  /\ \A k \in Kind : Dated(Answer(g, t, b, c)[k], k)
           /\ Answer(g, t, b, c)["access"] # NoToken
           /\ Answer(g, t, b, c)["refresh"] # NoToken
PROOF
  <1>1. \A life \in Nat : ExpiresIn(life) = ZeroTime <=> life = 0
    BY DEF ExpiresIn, ZeroTime, TypeInv, TypeOK
  <1>2. \A k \in Kind : Life(k) \in Nat
    BY TokenStoreAssumption DEF Life, Kind
  <1>3. \A k \in Kind : [gen |-> g, exp |-> ExpiresIn(Life(k))] # NoToken
    BY DEF NoToken
  <1>4. \A k \in Kind : Dated([gen |-> g, exp |-> ExpiresIn(Life(k))], k)
    BY <1>1, <1>2 DEF Dated
  <1>5. \A k \in Kind : Dated(NoToken, k)
    BY DEF Dated
  <1> QED
    BY <1>3, <1>4, <1>5 DEF Answer, Kind, Life

\* The same of the answer to a login, to which no refresh token was sent.
LEMMA LoginDated ==
    ASSUME TypeInv, NEW g \in Nat, g # 0
    PROVE  /\ \A k \in Kind : Dated(Answer(g, NoToken, TRUE, TRUE)[k], k)
           /\ Answer(g, NoToken, TRUE, TRUE)["access"] # NoToken
           /\ Answer(g, NoToken, TRUE, TRUE)["refresh"] # NoToken
PROOF
  <1>1. \A life \in Nat : ExpiresIn(life) = ZeroTime <=> life = 0
    BY DEF ExpiresIn, ZeroTime, TypeInv, TypeOK
  <1>2. \A k \in Kind : Life(k) \in Nat
    BY TokenStoreAssumption DEF Life, Kind
  <1>3. \A k \in Kind : [gen |-> g, exp |-> ExpiresIn(Life(k))] # NoToken
    BY DEF NoToken
  <1>4. \A k \in Kind : Dated([gen |-> g, exp |-> ExpiresIn(Life(k))], k)
    BY <1>1, <1>2 DEF Dated
  <1> QED
    BY <1>3, <1>4 DEF Answer, Kind, Life

\* A step in which each token is the one that was there, in Redis or in a
\* request, or none, and in which nobody starts to write or to refresh.
LEMMA SameDates ==
    ASSUME DatesInv,
           \A k \in Kind : store'[k].val \in {store[k].val, NoToken},
           \A q \in Request :
              /\ fresh'[q] \in {fresh[q], NoTokens}
              /\ rt'[q] \in {rt[q], NoToken}
              /\ pc'[q] \in {"hset", "expire"} =>
                    /\ pc[q] \in {"hset", "expire"} /\ fresh'[q] = fresh[q]
                    /\ at'[q] = "id" => at[q] = "id" \/ fresh[q]["id"] # NoToken
              /\ pc'[q] = "exchange" => pc[q] = "exchange" /\ rt'[q] = rt[q]
    PROVE  DatesInv'
PROOF
  <1>1. \A k \in Kind : Dated(NoToken, k) /\ NoTokens[k] = NoToken
    BY DEF Dated, NoTokens
  <1>2. \A k \in Kind : Dated(store'[k].val, k)
    BY <1>1 DEF DatesInv
  <1>3. \A q \in Request, k \in Kind : Dated(fresh'[q][k], k)
    BY <1>1 DEF DatesInv
  <1>4. \A q \in Request : Dated(rt'[q], "refresh")
    BY <1>1 DEF DatesInv, Kind
  <1>5. \A q \in Request : pc'[q] \in {"hset", "expire"} => ToWrite(q)'
    BY DEF DatesInv, ToWrite
  <1>6. \A q \in Request : pc'[q] = "exchange" => rt'[q] # NoToken
    BY DEF DatesInv
  <1> QED
    BY <1>2, <1>3, <1>4, <1>5, <1>6 DEF DatesInv, Dated, Life
\* What the Redis commands leave in an entry.
LEMMA EntryEffects ==
    ASSUME NEW e \in Entry, NEW t \in Token, NEW x \in Nat, NEW n \in Nat
    PROVE  /\ HSet(e, t).val = t
           /\ Persist(e).val = e.val
           /\ ExpireAt(e, NoToken, x, n).val \in {e.val, NoToken}
           /\ Evict(e, NoToken, n) \in {e, Absent(NoToken)}
           /\ \/ ExpireAt(e, NoToken, x, n).val = NoToken
              \/ ExpireAt(e, NoToken, x, n).ttl # NoTTL
PROOF
  <1>1. HSet(e, t).val = t /\ Persist(e).val = e.val
    BY DEF HSet, Persist, Entry
  <1>2. /\ ExpireAt(e, NoToken, x, n).val \in {e.val, NoToken}
        /\ \/ ExpireAt(e, NoToken, x, n).val = NoToken
           \/ ExpireAt(e, NoToken, x, n).ttl # NoTTL
    <2>1. CASE e.val = NoToken
      BY <2>1 DEF ExpireAt
    <2>2. CASE e.val # NoToken /\ x <= n
      BY <2>2 DEF ExpireAt, Absent
    <2>3. CASE e.val # NoToken /\ ~(x <= n)
      <3>1. x # NoTTL
        BY <2>3 DEF NoTTL
      <3>2. ExpireAt(e, NoToken, x, n) = [e EXCEPT !.ttl = x]
        BY <2>3 DEF ExpireAt
      <3> QED
        BY <3>1, <3>2 DEF Entry
    <2> QED
      BY <2>1, <2>2, <2>3
  <1>3. Evict(e, NoToken, n) \in {e, Absent(NoToken)}
    BY DEF Evict
  <1> QED
    BY <1>1, <1>2, <1>3

\* Every step of a request in which nothing goes wrong keeps the dates.
LEMMA StepDates ==
    ASSUME TypeInv, DatesInv, NEW p \in Request, Step(p)
    PROVE  DatesInv'
PROOF
  <1>1. CASE ReadToken(p) \/ Reload(p)
    BY <1>1, SameDates
    DEF ReadToken, Reload, Goto, provider, history, TypeInv, TypeOK
  <1>2. CASE GetRefreshToken(p)
    <2>1. /\ UNCHANGED <<store, fresh, at>>
          /\ \A q \in Request \ {p} : pc'[q] = pc[q] /\ rt'[q] = rt[q]
          /\ \/ pc'[p] = "reload" /\ rt'[p] = rt[p]
             \/ /\ pc'[p] = "exchange" /\ rt'[p] = store["refresh"].val
                /\ store["refresh"].val # NoToken
      BY <1>2 DEF GetRefreshToken, Goto, TypeInv, TypeOK
    <2>2. \A q \in Request : Dated(rt'[q], "refresh")
      BY <2>1 DEF DatesInv, Kind
    <2> QED
      BY <2>1, <2>2 DEF DatesInv, Dated, Life, ToWrite
  <1>3. CASE Exchange(p)
    <2>1. /\ UNCHANGED <<store>>
          /\ pc'[p] = "hset" /\ at'[p] = "access" /\ rt'[p] = NoToken
          /\ rt[p] # NoToken /\ rt[p] \in Token
          /\ issued + 1 \in Nat /\ issued + 1 # 0
          /\ \A q \in Request \ {p} : /\ pc'[q] = pc[q] /\ at'[q] = at[q]
                                   /\ rt'[q] = rt[q] /\ fresh'[q] = fresh[q]
      BY <1>3 DEF Exchange, Grant, Goto, TypeInv, TypeOK, DatesInv, Gen
    <2>2. PICK withID \in IDTokenOnRefresh :
             fresh'[p] = Answer(issued + 1, rt[p], Reissues, withID)
      BY <1>3 DEF Exchange, TypeInv, TypeOK
    <2>3. withID \in BOOLEAN /\ Reissues \in BOOLEAN
      BY TokenStoreAssumption
    <2>4. /\ \A k \in Kind : Dated(fresh'[p][k], k)
          /\ fresh'[p]["access"] # NoToken /\ fresh'[p]["refresh"] # NoToken
      BY <2>1, <2>2, <2>3, AnswerDated DEF DatesInv
    <2>5. \A q \in Request, k \in Kind : Dated(fresh'[q][k], k)
      BY <2>1, <2>4 DEF DatesInv
    <2>6. \A q \in Request : pc'[q] \in {"hset", "expire"} => ToWrite(q)'
      BY <2>1, <2>4 DEF DatesInv, ToWrite
    <2>7. \A q \in Request : /\ Dated(rt'[q], "refresh")
                           /\ pc'[q] = "exchange" => rt'[q] # NoToken
      BY <2>1 DEF DatesInv, Dated
    <2> QED
      BY <2>1, <2>5, <2>6, <2>7 DEF DatesInv, Dated, Life
  <1>4. CASE ExchangeRejected(p)
    BY <1>4, SameDates DEF ExchangeRejected, Goto, TypeInv, TypeOK
  <1>5. CASE WriteHash(p)
    <2>1. /\ UNCHANGED <<fresh, rt, at>>
          /\ pc[p] = "hset" /\ pc'[p] = "expire"
          /\ \A q \in Request \ {p} : pc'[q] = pc[q]
      BY <1>5 DEF WriteHash, Goto, TypeInv, TypeOK
    <2>2. \A k \in Kind : store'[k].val \in {store[k].val, fresh[p][k]}
      BY <1>5 DEF WriteHash, HSet, Entry, TypeInv, TypeOK
    <2>3. \A k \in Kind : Dated(store'[k].val, k)
      BY <2>2 DEF DatesInv
    <2> QED
      BY <2>1, <2>3 DEF DatesInv, Dated, Life, ToWrite
  <1>6. CASE WriteTTL(p)
    <2>1. \A k \in Kind : store'[k].val \in {store[k].val, NoToken}
      <3>1. /\ at[p] \in Kind /\ \A k \in Kind : store[k] \in Entry
            /\ fresh[p][at[p]].exp + Leeway \in Nat /\ now \in Nat
            /\ fresh[p][at[p]] \in Token
        BY TokenStoreAssumption DEF TypeInv, TypeOK, TokenSet, Token
      <3>2. \A k \in Kind : k # at[p] => store'[k] = store[k]
        BY <1>6 DEF WriteTTL, TypeInv, TypeOK
      <3>3. store'[at[p]].val \in {store[at[p]].val, NoToken}
        BY <1>6, <3>1, EntryEffects DEF WriteTTL, TypeInv, TypeOK
      <3> QED
        BY <3>2, <3>3
    <2>2. \A q \in Request \ {p} : /\ pc'[q] = pc[q] /\ at'[q] = at[q]
                                 /\ rt'[q] = rt[q] /\ fresh'[q] = fresh[q]
      BY <1>6 DEF WriteTTL, Finish, Goto, local, TypeInv, TypeOK
    <2>3. CASE WritesMore(p)
      <3>1. /\ pc[p] = "expire" /\ pc'[p] = "hset" /\ at'[p] = After(at[p])
            /\ fresh'[p] = fresh[p] /\ rt'[p] = rt[p]
        BY <1>6, <2>3 DEF WriteTTL, Goto, local, TypeInv, TypeOK
      <3>2. at'[p] = "id" => at[p] = "id" \/ fresh[p]["id"] # NoToken
        BY <2>3, <3>1 DEF WritesMore, After, NoToken
      <3> QED
        BY <2>1, <2>2, <3>1, <3>2, SameDates
    <2>4. CASE ~WritesMore(p)
      <3>1. /\ pc'[p] \in {"check", "returned"}
            /\ fresh'[p] = NoTokens /\ rt'[p] \in {rt[p], NoToken}
        BY <1>6, <2>4 DEF WriteTTL, Finish, Goto, TypeInv, TypeOK
      <3> QED
        BY <2>1, <2>2, <3>1, SameDates
    <2> QED
      BY <2>3, <2>4
  <1>7. CASE Check(p)
    BY <1>7, SameDates DEF Check, Finish, Goto, TypeInv, TypeOK
  <1>8. CASE ExchangeUnreadable(p)
    BY <1>8, SameDates DEF ExchangeUnreadable, AnswerDropped, Goto, TypeInv, TypeOK
  <1> QED
    BY <1>1, <1>2, <1>3, <1>4, <1>5, <1>6, <1>7, <1>8 DEF Step

\* So does every other step.
LEMMA NextDates == TypeInv /\ DatesInv /\ [Next]_vars => DatesInv'
PROOF
  <1> SUFFICES ASSUME TypeInv, DatesInv, [Next]_vars PROVE DatesInv'
    OBVIOUS
  <1>1. ASSUME NEW p \in Request, NEW k \in {"access", "id"}, Begin(p, k)
        PROVE  DatesInv'
    BY <1>1, SameDates DEF Begin, Goto, TypeInv, TypeOK
  <1>2. ASSUME NEW p \in Request, Login(p)
        PROVE  DatesInv'
    <2>1. /\ UNCHANGED <<store, rt>>
          /\ pc'[p] = "hset" /\ at'[p] = "access"
          /\ fresh'[p] = Answer(issued + 1, NoToken, TRUE, TRUE)
          /\ issued + 1 \in Nat /\ issued + 1 # 0
          /\ \A q \in Request \ {p} : /\ pc'[q] = pc[q] /\ at'[q] = at[q]
                                   /\ fresh'[q] = fresh[q]
      BY <1>2 DEF Login, Goto, TypeInv, TypeOK, Gen
    <2>2. /\ \A k \in Kind : Dated(fresh'[p][k], k)
          /\ fresh'[p]["access"] # NoToken /\ fresh'[p]["refresh"] # NoToken
      BY <2>1, LoginDated
    <2>3. \A q \in Request, k \in Kind : Dated(fresh'[q][k], k)
      BY <2>1, <2>2 DEF DatesInv
    <2>4. \A q \in Request : pc'[q] \in {"hset", "expire"} => ToWrite(q)'
      BY <2>1, <2>2 DEF DatesInv, ToWrite
    <2> QED
      BY <2>1, <2>3, <2>4 DEF DatesInv, Dated, Life
  <1>3. ASSUME NEW p \in Request, Step(p)
        PROVE  DatesInv'
    BY <1>3, StepDates
  <1>4. ASSUME NEW p \in Request, ExchangeLost(p)
        PROVE  DatesInv'
    BY <1>4, SameDates DEF ExchangeLost, AnswerDropped, Goto, TypeInv, TypeOK
  <1>5. ASSUME NEW p \in Request, CommandFails(p)
        PROVE  DatesInv'
    <2>1. /\ UNCHANGED store
          /\ pc'[p] \in {"failed", "check", "reload"}
          /\ fresh'[p] = NoTokens /\ rt'[p] = NoToken
          /\ \A q \in Request \ {p} : /\ pc'[q] = pc[q] /\ at'[q] = at[q]
                                   /\ rt'[q] = rt[q] /\ fresh'[q] = fresh[q]
      BY <1>5 DEF CommandFails, Finish, Goto, TypeInv, TypeOK
    <2> QED
      BY <2>1, SameDates
  <1>6. ASSUME NEW p \in Request, Crash(p)
        PROVE  DatesInv'
    BY <1>6, SameDates DEF Crash, Finish, Goto, TypeInv, TypeOK
  <1>7. CASE Tick
    <2>1. \A k \in Kind : store'[k].val \in {store[k].val, NoToken}
      BY <1>7 DEF Tick, Evict, Absent
    <2> QED
      BY <1>7, <2>1, SameDates DEF Tick
  <1>8. CASE UNCHANGED vars
    BY <1>8, SameDates DEF vars
  <1> QED
    BY <1>1, <1>2, <1>3, <1>4, <1>5, <1>6, <1>7, <1>8 DEF Next

----------------------------------------------------------------------------
\* A step that gives no key a new value, and after which every writer between
\* its two commands is still there, or counted in cut, leaves no token behind.
LEMMA QuietKeeps ==
    ASSUME NoImmortalToken,
           \A k \in Kind : store'[k] = store[k] \/ store'[k].val = NoToken,
           cut \subseteq cut',
           \A q \in Request : pc[q] = "expire" =>
              (pc'[q] = "expire" /\ at'[q] = at[q]) \/ at[q] \in cut'
    PROVE  NoImmortalToken'
  BY DEF NoImmortalToken

\* HSET: the writer is between its two commands now.
LEMMA WriteHashKeeps ==
    ASSUME TypeInv, NoImmortalToken, NEW p \in Request, WriteHash(p)
    PROVE  NoImmortalToken'
PROOF
  <1>1. /\ pc'[p] = "expire" /\ at' = at /\ cut' = cut
        /\ \A q \in Request : pc[q] = "expire" => pc'[q] = "expire"
        /\ \A k \in Kind : k # at[p] => store'[k] = store[k]
    BY DEF WriteHash, Goto, history, TypeInv, TypeOK
  <1> SUFFICES ASSUME NEW k \in Kind, store'[k].val # NoToken,
                      store'[k].val.exp # ZeroTime, store'[k].ttl = NoTTL
               PROVE  k \in cut' \/ \E q \in Request : pc'[q] = "expire" /\ at'[q] = k
    BY DEF NoImmortalToken
  <1>2. CASE k = at[p]
    BY <1>1, <1>2
  <1>3. CASE k # at[p]
    BY <1>1, <1>3 DEF NoImmortalToken
  <1> QED
    BY <1>2, <1>3

\* EXPIREAT or PERSIST: the key has an expiry, or a token that needs none.
LEMMA WriteTTLKeeps ==
    ASSUME TypeInv, DatesInv, NoImmortalToken, NEW p \in Request, WriteTTL(p)
    PROVE  NoImmortalToken'
PROOF
  <1> DEFINE j == at[p]
             t == fresh[p][j]
  <1>1. /\ pc[p] = "expire"
        /\ \A q \in Request \ {p} : pc'[q] = pc[q] /\ at'[q] = at[q]
        /\ \A k \in Kind : k # j => store'[k] = store[k]
        /\ cut' = cut \ {j}
    BY DEF WriteTTL, Finish, Goto, local, TypeInv, TypeOK
  <1>2. /\ j \in Kind /\ t \in Token /\ store[j] \in Entry
        /\ t.exp + Leeway \in Nat /\ now \in Nat
    BY TokenStoreAssumption DEF TypeInv, TypeOK, TokenSet, Token
  <1>3. t # NoToken
    BY <1>1, <1>2 DEF DatesInv, ToWrite, Kind
  <1>4. \/ store'[j].val = NoToken
        \/ store'[j].val.exp = ZeroTime
        \/ store'[j].ttl # NoTTL
    <2>1. CASE t.exp = ZeroTime
      <3>1. store'[j] = Persist(store[j])
        BY <1>2, <2>1 DEF WriteTTL, TypeInv, TypeOK
      <3>2. Life(j) = 0
        BY <1>2, <1>3, <2>1 DEF DatesInv, Dated
      <3>3. store[j].val = NoToken \/ store[j].val.exp = ZeroTime
        BY <1>2, <3>2 DEF DatesInv, Dated
      <3>4. Persist(store[j]).val = store[j].val
        BY <1>2 DEF Persist, Entry
      <3> QED
        BY <3>1, <3>3, <3>4
    <2>2. CASE t.exp # ZeroTime
      <3>1. store'[j] = ExpireAt(store[j], NoToken, t.exp + Leeway, now)
        BY <1>2, <2>2 DEF WriteTTL, TypeInv, TypeOK
      <3> QED
        BY <1>2, <3>1, EntryEffects
    <2> QED
      BY <2>1, <2>2
  <1> SUFFICES ASSUME NEW k \in Kind, store'[k].val # NoToken,
                      store'[k].val.exp # ZeroTime, store'[k].ttl = NoTTL
               PROVE  k \in cut' \/ \E q \in Request : pc'[q] = "expire" /\ at'[q] = k
    BY DEF NoImmortalToken
  <1>5. k # j
    BY <1>4
  <1>6. k \in cut \/ \E q \in Request : pc[q] = "expire" /\ at[q] = k
    BY <1>1, <1>5 DEF NoImmortalToken
  <1> QED
    BY <1>1, <1>5, <1>6

\* Every step keeps it.
LEMMA NextImmortal ==
    TypeInv /\ DatesInv /\ NoImmortalToken /\ [Next]_vars => NoImmortalToken'
PROOF
  <1> SUFFICES ASSUME TypeInv, DatesInv, NoImmortalToken, [Next]_vars
               PROVE  NoImmortalToken'
    OBVIOUS
  <1>1. ASSUME NEW p \in Request, NEW k \in {"access", "id"}, Begin(p, k)
        PROVE  NoImmortalToken'
    BY <1>1, QuietKeeps DEF Begin, Ready, Goto, history, TypeInv, TypeOK
  <1>2. ASSUME NEW p \in Request, Login(p)
        PROVE  NoImmortalToken'
    BY <1>2, QuietKeeps DEF Login, Ready, Goto, history, TypeInv, TypeOK
  <1>3. ASSUME NEW p \in Request,
               ReadToken(p) \/ GetRefreshToken(p) \/ ExchangeRejected(p) \/ Reload(p)
        PROVE  NoImmortalToken'
    BY <1>3, QuietKeeps
    DEF ReadToken, GetRefreshToken, ExchangeRejected, Reload, Goto, history,
        TypeInv, TypeOK
  <1>4. ASSUME NEW p \in Request, Exchange(p)
        PROVE  NoImmortalToken'
    BY <1>4, QuietKeeps DEF Exchange, Grant, Goto, history, TypeInv, TypeOK
  <1>5. ASSUME NEW p \in Request, ExchangeUnreadable(p) \/ ExchangeLost(p)
        PROVE  NoImmortalToken'
    BY <1>5, QuietKeeps
    DEF ExchangeUnreadable, ExchangeLost, AnswerDropped, Grant, Goto, TypeInv, TypeOK
  <1>6. ASSUME NEW p \in Request, WriteHash(p)
        PROVE  NoImmortalToken'
    BY <1>6, WriteHashKeeps
  <1>7. ASSUME NEW p \in Request, WriteTTL(p)
        PROVE  NoImmortalToken'
    BY <1>7, WriteTTLKeeps
  <1>8. ASSUME NEW p \in Request, Check(p)
        PROVE  NoImmortalToken'
    BY <1>8, QuietKeeps DEF Check, Finish, Goto, history, TypeInv, TypeOK
  <1>9. ASSUME NEW p \in Request, CommandFails(p) \/ Crash(p)
        PROVE  NoImmortalToken'
    <2>1. /\ UNCHANGED store /\ cut' = cut \cup CutBy(p)
          /\ \A q \in Request \ {p} : pc'[q] = pc[q] /\ at'[q] = at[q]
      BY <1>9 DEF CommandFails, Crash, Finish, Goto, TypeInv, TypeOK
    <2>2. pc[p] = "expire" => at[p] \in cut'
      BY <2>1 DEF CutBy
    <2> QED
      BY <2>1, <2>2, QuietKeeps
  <1>10. CASE Tick
    <2>1. \A k \in Kind : store'[k] = store[k] \/ store'[k].val = NoToken
      BY <1>10 DEF Tick, Evict, Absent
    <2> QED
      BY <1>10, <2>1, QuietKeeps DEF Tick, history
  <1>11. CASE UNCHANGED vars
    BY <1>11, QuietKeeps DEF vars
  <1> QED
    BY <1>1, <1>2, <1>3, <1>4, <1>5, <1>6, <1>7, <1>8, <1>9, <1>10, <1>11
    DEF Next, Step

\* Nothing has been written when the gateway starts.
LEMMA InitExpiry == Init => DatesInv /\ NoImmortalToken
  BY DEF Init, DatesInv, Dated, NoImmortalToken, Absent, NoTokens, ToWrite, Kind

(* Whoever writes the tokens of a user at the same time: a token with an      *)
(* expiry stays in Redis for ever only if its last writer stopped between     *)
(* HSET and EXPIREAT (token_repo_redis.go:128-140).                           *)
THEOREM NoImmortalTokenAlways == Spec => []NoImmortalToken
PROOF
  <1>1. Init => TypeInv /\ DatesInv /\ NoImmortalToken
    BY InitType, InitExpiry
  <1>2. TypeInv /\ DatesInv /\ NoImmortalToken /\ [Next]_vars
           => (TypeInv /\ DatesInv /\ NoImmortalToken)'
    BY NextType, NextDates, NextImmortal
  <1> QED
    BY <1>1, <1>2, PTL DEF Spec
=============================================================================
