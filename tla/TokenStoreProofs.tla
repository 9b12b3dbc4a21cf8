-------------------------- MODULE TokenStoreProofs --------------------------
(***************************************************************************)
(* Type correctness of TokenStore, and its main safety property: the       *)
(* replacement of a spent refresh token is never out of sight.  With        *)
(* single-use refresh tokens it implements RefreshCustody.                   *)
(***************************************************************************)
EXTENDS TokenStore, TLAPS

\* Only requests for an access or ID token take the steps of GetFresh...
OpInv ==
    \A p \in Request :
        /\ pc[p] \in {"read", "refresh", "exchange", "reload", "check"}
              => op[p] \in {"access", "id"}
        /\ pc[p] \in {"hset", "expire"} => op[p] \in {"access", "id", "login"}

TypeInv == TypeOK /\ OpInv

\* The constants that stand for absent tokens and entries have their types.
LEMMA TokenConstants ==
    /\ NoToken \in Token /\ MissingToken \in Token /\ NoTokens \in TokenSet
    /\ Absent(NoToken) \in Entry
PROOF
  <1>1. MaxGen \in Nat
    BY TokenStoreAssumption
  <1> QED
    BY <1>1 DEF NoToken, MissingToken, NoTokens, Token, Gen, TokenSet, Entry,
                Absent, ZeroTime, LongAgo, NoTTL

\* The Redis commands keep an entry an entry.
LEMMA EntryOps ==
    ASSUME NEW e \in Entry, NEW t \in Token, NEW x \in Nat, NEW n \in Nat
    PROVE  /\ HSet(e, t) \in Entry
           /\ ExpireAt(e, NoToken, x, n) \in Entry
           /\ Persist(e) \in Entry
           /\ Evict(e, NoToken, n) \in Entry
PROOF
  <1>1. Absent(NoToken) \in Entry
    BY TokenConstants
  <1>2. HSet(e, t) \in Entry /\ Persist(e) \in Entry
    BY DEF HSet, Persist, Entry, NoTTL
  <1>3. ExpireAt(e, NoToken, x, n) \in Entry
    BY <1>1 DEF ExpireAt, Entry
  <1>4. Evict(e, NoToken, n) \in Entry
    BY <1>1 DEF Evict
  <1> QED
    BY <1>2, <1>3, <1>4

\* The generations that the variables hold are numbers.
LEMMA Generations ==
    ASSUME TypeOK
    PROVE  /\ store["refresh"].val.gen \in Nat
           /\ \A q \in Request : fresh[q]["refresh"].gen \in Nat /\ rt[q].gen \in Nat
           /\ issued \in Nat
PROOF
  <1>1. MaxGen \in Nat
    BY TokenStoreAssumption
  <1>2. \A t \in Token : t.gen \in Nat
    BY <1>1 DEF Token, Gen
  <1>3. store["refresh"] \in Entry
    BY DEF TypeOK, Kind
  <1>4. store["refresh"].val \in Token
    BY <1>3 DEF Entry
  <1>5. \A q \in Request : fresh[q]["refresh"] \in Token /\ rt[q] \in Token
    BY DEF TypeOK, TokenSet, Kind
  <1> QED
    BY <1>1, <1>2, <1>4, <1>5 DEF TypeOK, Gen

\* What oidc/client.go makes of an answer of the provider is a token set.
LEMMA AnswerType ==
    ASSUME now \in Nat, NEW g \in Gen, NEW t \in Token,
           NEW b \in BOOLEAN, NEW c \in BOOLEAN
    PROVE  Answer(g, t, b, c) \in TokenSet
PROOF
  <1>1. \A life \in {AccessLife, RefreshLife, IDLife} : ExpiresIn(life) \in Nat
    BY TokenStoreAssumption DEF ExpiresIn, ZeroTime
  <1>2. NoToken \in Token
    BY TokenConstants
  <1>3. \A life \in {AccessLife, RefreshLife, IDLife} :
           [gen |-> g, exp |-> ExpiresIn(life)] \in Token
    BY <1>1 DEF Token
  <1> QED
    BY <1>2, <1>3 DEF Answer, TokenSet, Kind

\* The end of a request keeps the types of its local variables.
LEMMA FinishType ==
    ASSUME TypeInv, NEW p \in Request, NEW o \in Ready, Finish(p, o)
    PROVE  /\ pc' \in [Request -> Ready \cup Working]
           /\ op' \in [Request -> {"none", "access", "id", "login"}]
           /\ at' \in [Request -> Kind]
           /\ tok' \in [Request -> Token]
           /\ rt' \in [Request -> Token]
           /\ fresh' \in [Request -> TokenSet]
           /\ OpInv'
PROOF
  <1>1. NoToken \in Token /\ NoTokens \in TokenSet
    BY TokenConstants
  <1>2. /\ pc' \in [Request -> Ready \cup Working]
        /\ op' \in [Request -> {"none", "access", "id", "login"}]
        /\ at' \in [Request -> Kind]
    BY DEF Finish, Goto, TypeInv, TypeOK, Kind
  <1>3. /\ tok' \in [Request -> Token]
        /\ rt' \in [Request -> Token]
        /\ fresh' \in [Request -> TokenSet]
    BY <1>1 DEF Finish, TypeInv, TypeOK
  <1>4. OpInv'
    BY DEF Finish, Goto, TypeInv, TypeOK, OpInv, Ready, Working
  <1> QED
    BY <1>2, <1>3, <1>4

\* The gateway starts in a state of the right type.
LEMMA InitType == Init => TypeInv
PROOF
  <1>1. NoToken \in Token /\ NoTokens \in TokenSet /\ Absent(NoToken) \in Entry
    BY TokenConstants
  <1>2. MaxGen \in Nat
    BY TokenStoreAssumption
  <1> QED
    BY <1>1, <1>2 DEF Init, TypeInv, TypeOK, OpInv, Start, Gen, Kind, Ready, Working

\* An answer that the client drops leaves the types as they are.
LEMMA DroppedType ==
    ASSUME TypeInv, NEW p \in Request, AnswerDropped(p)
    PROVE  TypeInv'
PROOF
  <1>1. NoToken \in Token /\ MaxGen \in Nat
    BY TokenConstants, TokenStoreAssumption
  <1>2. issued + 1 \in Gen /\ issued + 1 \in 1 .. MaxGen
    BY <1>1 DEF AnswerDropped, Grant, TypeInv, TypeOK, Gen
  <1>3. succ' \in [1 .. MaxGen -> Gen] /\ issued' \in Gen
    BY <1>2 DEF AnswerDropped, Grant, TypeInv, TypeOK
  <1>4. lost' \subseteq 1 .. MaxGen
    BY <1>2 DEF AnswerDropped, TypeInv, TypeOK
  <1> QED
    BY <1>1, <1>3, <1>4 DEF AnswerDropped, Grant, Goto, TypeInv, TypeOK, OpInv, Working

\* Every step of a request in which nothing goes wrong keeps the types.
LEMMA StepType ==
    ASSUME TypeInv, NEW p \in Request, Step(p)
    PROVE  TypeInv'
PROOF
  <1>1. NoToken \in Token /\ MissingToken \in Token /\ NoTokens \in TokenSet
    BY TokenConstants
  <1>a. MaxGen \in Nat
    BY TokenStoreAssumption
  <1>2. CASE ReadToken(p)
    <2>1. op[p] \in Kind /\ store[op[p]].val \in Token
      BY <1>2 DEF ReadToken, TypeInv, TypeOK, OpInv, Kind, Entry
    <2> QED
      BY <1>1, <1>2, <2>1 DEF ReadToken, Goto, history, provider, TypeInv, TypeOK, OpInv, Working
  <1>3. CASE GetRefreshToken(p)
    <2>1. store["refresh"].val \in Token
      BY DEF TypeInv, TypeOK, Kind, Entry
    <2> QED
      BY <1>3, <2>1 DEF GetRefreshToken, Goto, history, provider, TypeInv, TypeOK, OpInv, Working
  <1>4. CASE Exchange(p)
    <2>1. issued + 1 \in Gen
      BY <1>4, <1>a DEF Exchange, Grant, TypeInv, TypeOK, Gen
    <2>0. IDTokenOnRefresh \subseteq BOOLEAN /\ Reissues \in BOOLEAN
      BY TokenStoreAssumption
    <2>2. \A b \in IDTokenOnRefresh :
             Answer(issued + 1, rt[p], Reissues, b) \in TokenSet
      BY <2>0, <2>1, AnswerType DEF TypeInv, TypeOK
    <2>3. fresh' \in [Request -> TokenSet]
      BY <1>4, <2>2 DEF Exchange, TypeInv, TypeOK
    <2>4. succ' \in [1 .. MaxGen -> Gen] /\ issued' \in Gen
      BY <1>4, <2>1 DEF Exchange, Grant, TypeInv, TypeOK
    <2> QED
      BY <1>1, <1>4, <2>3, <2>4
      DEF Exchange, Grant, Goto, history, TypeInv, TypeOK, OpInv, Working, Kind
  <1>5. CASE ExchangeRejected(p)
    BY <1>1, <1>5 DEF ExchangeRejected, Goto, history, provider, TypeInv, TypeOK, OpInv, Working
  <1>6. CASE WriteHash(p)
    <2>1. at[p] \in Kind /\ fresh[p][at[p]] \in Token
      BY DEF TypeInv, TypeOK, TokenSet
    <2>2. HSet(store[at[p]], fresh[p][at[p]]) \in Entry
      BY <2>1, EntryOps DEF TypeInv, TypeOK
    <2>3. store' \in [Kind -> Entry]
      BY <1>6, <2>1, <2>2 DEF WriteHash, TypeInv, TypeOK
    <2> QED
      BY <1>6, <2>3 DEF WriteHash, Goto, history, provider, TypeInv, TypeOK, OpInv, Working
  <1>7. CASE WriteTTL(p)
    <2> DEFINE k == at[p]
               t == fresh[p][k]
    <2>1. k \in Kind /\ t \in Token /\ t.exp + Leeway \in Nat
      BY TokenStoreAssumption DEF TypeInv, TypeOK, TokenSet, Token
    <2>2. /\ Persist(store[k]) \in Entry
          /\ ExpireAt(store[k], NoToken, t.exp + Leeway, now) \in Entry
      BY <2>1, EntryOps DEF TypeInv, TypeOK
    <2>3. store' \in [Kind -> Entry]
      BY <1>7, <2>1, <2>2 DEF WriteTTL, TypeInv, TypeOK
    <2>4. CASE WritesMore(p)
      BY <1>7, <2>3, <2>4
      DEF WriteTTL, Goto, After, Kind, history, provider, local, TypeInv, TypeOK, OpInv, Working
    <2>5. CASE ~WritesMore(p) /\ op[p] # "login"
      <3>1. op[p] \in {"access", "id"}
        BY <1>7, <2>5 DEF WriteTTL, TypeInv, OpInv
      <3>2. Refreshed(p) \in Token
        BY <3>1 DEF Refreshed, TypeInv, TypeOK, TokenSet, Kind
      <3>3. tok' \in [Request -> Token] /\ fresh' \in [Request -> TokenSet]
        BY <1>1, <1>7, <2>5, <3>2 DEF WriteTTL, TypeInv, TypeOK
      <3> QED
        BY <1>7, <2>3, <2>5, <3>1, <3>3
        DEF WriteTTL, Goto, history, provider, TypeInv, TypeOK, OpInv, Working, Kind
    <2>6. CASE ~WritesMore(p) /\ op[p] = "login"
      BY <1>7, <2>3, <2>6, FinishType DEF WriteTTL, history, provider, TypeInv, TypeOK, Ready
    <2> QED
      BY <2>4, <2>5, <2>6
  <1>8. CASE Reload(p)
    <2>1. store[op[p]].val \in Token
      BY <1>8 DEF Reload, TypeInv, TypeOK, OpInv, Kind, Entry
    <2> QED
      BY <1>8, <2>1 DEF Reload, Goto, history, provider, TypeInv, TypeOK, OpInv, Working
  <1>9. CASE Check(p)
    BY <1>9, FinishType DEF Check, history, provider, TypeInv, TypeOK, Ready
  <1>10. CASE ExchangeUnreadable(p)
    BY <1>10, DroppedType DEF ExchangeUnreadable
  <1> QED
    BY <1>2, <1>3, <1>4, <1>5, <1>6, <1>7, <1>8, <1>9, <1>10 DEF Step

\* So does every other step: a failure, a crash, a login, the clock.
LEMMA NextType == TypeInv /\ [Next]_vars => TypeInv'
PROOF
  <1> SUFFICES ASSUME TypeInv, [Next]_vars PROVE TypeInv'
    OBVIOUS
  <1>1. NoToken \in Token /\ NoTokens \in TokenSet
    BY TokenConstants
  <1>a. MaxGen \in Nat
    BY TokenStoreAssumption
  <1>2. ASSUME NEW p \in Request, NEW k \in {"access", "id"}, Begin(p, k)
        PROVE  TypeInv'
    BY <1>2 DEF Begin, Goto, history, provider, TypeInv, TypeOK, OpInv, Working
  <1>3. ASSUME NEW p \in Request, Login(p)
        PROVE  TypeInv'
    <2>1. issued + 1 \in Gen
      BY <1>3, <1>a DEF Login, TypeInv, TypeOK, Gen
    <2>2. Answer(issued + 1, NoToken, TRUE, TRUE) \in TokenSet
      BY <1>1, <2>1, AnswerType DEF TypeInv, TypeOK
    <2> QED
      BY <1>3, <2>1, <2>2 DEF Login, Goto, history, TypeInv, TypeOK, OpInv, Working, Kind
  <1>4. ASSUME NEW p \in Request, Step(p)
        PROVE  TypeInv'
    BY <1>4, StepType
  <1>5. ASSUME NEW p \in Request, ExchangeLost(p)
        PROVE  TypeInv'
    BY <1>5, DroppedType DEF ExchangeLost
  <1>6. ASSUME NEW p \in Request
        PROVE  lost \cup DroppedBy(p) \subseteq 1 .. MaxGen
    <2>1. fresh[p]["refresh"].gen \in 0 .. MaxGen
      BY DEF TypeInv, TypeOK, TokenSet, Token, Gen, Kind
    <2>2. DroppedBy(p) \subseteq 1 .. MaxGen
      BY <1>a, <2>1 DEF DroppedBy
    <2> QED
      BY <2>2 DEF TypeInv, TypeOK
  <1>b. ASSUME NEW p \in Request
        PROVE  cut \cup CutBy(p) \subseteq Kind
    BY DEF CutBy, TypeInv, TypeOK
  <1>7. ASSUME NEW p \in Request, CommandFails(p)
        PROVE  TypeInv'
    <2>1. CASE Finish(p, "failed")
      BY <1>6, <1>b, <1>7, <2>1, FinishType DEF CommandFails, history, provider, TypeInv, TypeOK, Ready
    <2>2. CASE ~Finish(p, "failed")
      <3>1. pc[p] # "read" /\ op[p] # "login" /\ pc[p] \in Working
        BY <1>7, <2>2 DEF CommandFails, MayFail, Cancellable, Working
      <3>2. op[p] \in {"access", "id"}
        BY <3>1 DEF TypeInv, OpInv, Working
      <3> QED
        BY <1>1, <1>6, <1>b, <1>7, <2>2, <3>1, <3>2
        DEF CommandFails, Goto, history, provider, TypeInv, TypeOK, OpInv, Working, Kind
    <2> QED
      BY <2>1, <2>2
  <1>8. ASSUME NEW p \in Request, Crash(p)
        PROVE  TypeInv'
    BY <1>6, <1>b, <1>8, FinishType DEF Crash, history, provider, TypeInv, TypeOK, Ready
  <1>9. CASE Tick
    <2>1. \A k \in Kind : Evict(store[k], NoToken, now + 1) \in Entry
      <3>1. now + 1 \in Nat
        BY DEF TypeInv, TypeOK
      <3>2. \A k \in Kind : store[k] \in Entry
        BY DEF TypeInv, TypeOK
      <3> QED
        BY <1>1, <3>1, <3>2, EntryOps
    <2>2. store' \in [Kind -> Entry] /\ now' \in Nat
      BY <1>9, <2>1 DEF Tick, TypeInv, TypeOK
    <2> QED
      BY <1>9, <2>2 DEF Tick, history, provider, TypeInv, TypeOK, OpInv
  <1>10. CASE UNCHANGED vars
    BY <1>10 DEF vars, TypeInv, TypeOK, OpInv
  <1> QED
    BY <1>2, <1>3, <1>4, <1>5, <1>7, <1>8, <1>9, <1>10 DEF Next

(* Every variable keeps its type, for any requests, lifetimes and bounds.  *)
THEOREM TypeCorrect == Spec => []TypeOK
PROOF
  <1>1. Init => TypeInv
    BY InitType
  <1>2. TypeInv /\ [Next]_vars => TypeInv'
    BY NextType
  <1>3. TypeInv => TypeOK
    BY DEF TypeInv
  <1> QED
    BY <1>1, <1>2, <1>3, PTL DEF Spec

----------------------------------------------------------------------------
(* Custody of the refresh token                                             *)

IInv == TypeInv /\ CustodyInv

\* The actions that touch neither the refresh hash, nor the provider, nor a
\* request between the provider's answer and SetRefreshToken.
Unrelated ==
    /\ UNCHANGED <<succ, issued, lost>>
    /\ store'["refresh"].val \in {store["refresh"].val, NoToken}
    /\ \A p \in Request :
          /\ Holds(p)' = Holds(p)
          /\ Holds(p) => fresh'[p] = fresh[p] /\ op'[p] = op[p]
          /\ pc'[p] = "exchange" => pc[p] = "exchange" /\ rt'[p] = rt[p]

\* A step of p leaves the other requests as they are.
Others(p) ==
    \A q \in Request \ {p} : /\ pc'[q] = pc[q] /\ at'[q] = at[q]
                             /\ op'[q] = op[q] /\ rt'[q] = rt[q]
                             /\ fresh'[q] = fresh[q]

\* A request that ends, for whatever reason, drops at most what it held.
Drops(p) ==
    /\ UNCHANGED <<succ, issued, store>>
    /\ lost' = lost \cup DroppedBy(p)
    /\ ~FaultsAllowed => ~Holds(p) \/ op[p] = "login"
    /\ ~Holds(p)' /\ pc'[p] # "exchange"
    /\ Others(p)

\* The refresh token g, which p has read and the provider finds to be good,
\* is spent.
Spends(p, g) ==
    /\ pc[p] = "exchange" /\ g = rt[p].gen /\ g \in 1 .. MaxGen /\ succ[g] = 0
    /\ succ' = [succ EXCEPT ![g] = issued + 1]

\* The provider gives a new answer to the request p, for a login or for the
\* refresh token that it spends; p has it now, or it is lost.
Receives(p) ==
    /\ issued < MaxGen /\ issued' = issued + 1
    /\ store' = store
    /\ ~Holds(p) /\ pc'[p] # "exchange"
    /\ \/ /\ Holds(p)' /\ lost' = lost
          /\ fresh'[p]["refresh"].gen \in 0 .. (issued + 1)
          /\ Rotates => fresh'[p]["refresh"].gen = issued + 1
       \/ /\ ~Holds(p)' /\ ~Reliable
          /\ lost' = IF Rotates THEN lost \cup {issued + 1} ELSE lost
    /\ \/ succ' = succ /\ (Rotates => Holds(p)')
       \/ Rotates /\ op'[p] # "login" /\ \E g \in 1 .. MaxGen : Spends(p, g)
    /\ Others(p)

\* SetRefreshToken writes its hash.
Publishes(p) == WriteHash(p) /\ at[p] = "refresh"

\* What a step may do to the refresh tokens.
Classified ==
    \/ Unrelated
    \/ \E p \in Request :
          Drops(p) \/ Receives(p) \/ GetRefreshToken(p) \/ Publishes(p)

\* A step that moves no refresh token keeps the custody invariant.
LEMMA UnrelatedKeeps ==
    ASSUME IInv, Unrelated
    PROVE  CustodyInv'
PROOF
  <1>1. InHand' = InHand
    BY DEF Unrelated, InHand
  <1>2. HandIsExclusive'
    BY DEF Unrelated, IInv, CustodyInv, HandIsExclusive, Exclusive, NoToken
  <1>3. OnlyIssued'
    <2>1. NoToken.gen <= issued
      BY TokenStoreAssumption DEF NoToken, IInv, TypeInv, TypeOK, Gen
    <2> QED
      BY <2>1 DEF Unrelated, IInv, CustodyInv, OnlyIssued
  <1>4. SpentOnlyIfRotating'
    BY DEF Unrelated, IInv, CustodyInv, SpentOnlyIfRotating
  <1>5. LostReplacesNothing'
    BY DEF Unrelated, IInv, CustodyInv, LostReplacesNothing
  <1>6. StrandedOnlyByLoss'
    BY <1>1 DEF Unrelated, IInv, CustodyInv, StrandedOnlyByLoss, StoredIsSpent,
                Replacement, NoToken
  <1> QED
    BY <1>2, <1>3, <1>4, <1>5, <1>6 DEF CustodyInv

\* A request that drops what it held keeps the invariant.
LEMMA DropKeeps ==
    ASSUME IInv, NEW p \in Request, Drops(p)
    PROVE  CustodyInv'
PROOF
  <1> USE DEF Drops, Others
  <1>1. \A q \in Request \ {p} : Holds(q)' = Holds(q)
    BY DEF Holds
  <1>2. InHand \ {0} \subseteq InHand' \cup DroppedBy(p)
    BY <1>1 DEF InHand, DroppedBy
  <1>3. HandIsExclusive'
    BY <1>1 DEF IInv, CustodyInv, HandIsExclusive, Exclusive
  <1>4. OnlyIssued'
    <2>1. \A g \in DroppedBy(p) : g <= issued
      BY DEF DroppedBy, IInv, CustodyInv, OnlyIssued
    <2> QED
      BY <1>1, <2>1 DEF IInv, CustodyInv, OnlyIssued
  <1>5. SpentOnlyIfRotating'
    BY DEF IInv, CustodyInv, SpentOnlyIfRotating
  <1>6. LostReplacesNothing'
    BY <1>1 DEF IInv, CustodyInv, LostReplacesNothing, Reliable, DroppedBy
  <1>7. StrandedOnlyByLoss'
    BY <1>2 DEF IInv, CustodyInv, StrandedOnlyByLoss, StoredIsSpent, Replacement
  <1> QED
    BY <1>3, <1>4, <1>5, <1>6, <1>7 DEF CustodyInv

\* No token has been issued yet when the gateway starts.
LEMMA InitCustody == Init => CustodyInv
  BY TokenStoreAssumption
  DEF Init, CustodyInv, HandIsExclusive, OnlyIssued, SpentOnlyIfRotating,
      LostReplacesNothing, StrandedOnlyByLoss, StoredIsSpent, Holds, Kind,
      Absent, NoToken

\* A new answer of the provider keeps the invariant.
LEMMA ReceiveKeeps ==
    ASSUME IInv, NEW p \in Request, Receives(p)
    PROVE  CustodyInv'
PROOF
  <1> USE DEF Receives, Others, Spends
  <1>c. \A g \in 1 .. MaxGen : Spends(p, g) =>
           /\ g <= issued
           /\ Rotates => \A q \in Request : Holds(q) => fresh[q]["refresh"].gen # g
    BY DEF IInv, CustodyInv, OnlyIssued, HandIsExclusive, Exclusive
  <1>a. issued \in Nat /\ MaxGen \in Nat /\ succ \in [1 .. MaxGen -> Gen]
    BY TokenStoreAssumption DEF IInv, TypeInv, TypeOK, Gen
  <1>1. \A q \in Request \ {p} : Holds(q)' = Holds(q)
    BY DEF Holds
  <1>b. /\ store["refresh"].val.gen \in Nat
        /\ \A q \in Request : fresh[q]["refresh"].gen \in Nat /\ rt[q].gen \in Nat
    BY Generations DEF IInv, TypeInv
  <1>2. HandIsExclusive'
    <2> SUFFICES ASSUME Rotates, NEW r \in Request, Holds(r)'
                 PROVE  Exclusive(r)'
      BY DEF HandIsExclusive
    <2>1. CASE r = p
      <3>1. \A g \in 1 .. MaxGen : g <= issued => g # issued + 1
        BY <1>a
      <3>2. succ[issued + 1] = 0
        \* the next generation has not been spent: nobody has it
        BY <1>a DEF IInv, CustodyInv, OnlyIssued
      <3> QED
        BY <1>1, <1>a, <1>b, <2>1, <3>1, <3>2 DEF IInv, CustodyInv, OnlyIssued, Exclusive
    <2>2. CASE r # p
      <3>1. Holds(r) /\ fresh'[r] = fresh[r]
        BY <1>1, <2>2
      <3>2. fresh[r]["refresh"].gen \in 1 .. issued /\ succ[fresh[r]["refresh"].gen] = 0
        BY <3>1 DEF IInv, CustodyInv, HandIsExclusive, Exclusive
      <3>3. succ'[fresh[r]["refresh"].gen] = 0
        BY <1>a, <1>c, <3>1, <3>2
      <3> QED
        <4> DEFINE h == fresh[r]["refresh"].gen
        <4>1. Exclusive(r)
          BY <3>1 DEF IInv, CustodyInv, HandIsExclusive
        <4>2. h \in 1 .. issued' /\ succ'[h] = 0
          BY <1>a, <3>2, <3>3
        <4>3. h # store'["refresh"].val.gen
          BY <4>1 DEF Exclusive
        <4>4. \A q \in Request : pc'[q] = "exchange" => rt'[q].gen # h
          BY <4>1 DEF Exclusive
        <4>5. Holds(p)' => fresh'[p]["refresh"].gen # h
          BY <1>a, <3>2
        <4>6. \A q \in Request \ {r} : Holds(q)' => fresh'[q]["refresh"].gen # h
          BY <1>1, <4>1, <4>5 DEF Exclusive
        <4> QED
          BY <3>1, <4>2, <4>3, <4>4, <4>6 DEF Exclusive
    <2> QED
      BY <2>1, <2>2
  <1>3. OnlyIssued'
    <2>1. store'["refresh"].val.gen <= issued'
      BY <1>a, <1>b DEF IInv, CustodyInv, OnlyIssued
    <2>2. \A h \in 1 .. MaxGen :
             succ'[h] <= issued' /\ (h > issued' => succ'[h] = 0)
      <3> SUFFICES ASSUME NEW h \in 1 .. MaxGen
                   PROVE  succ'[h] <= issued' /\ (h > issued' => succ'[h] = 0)
        OBVIOUS
      <3>1. succ[h] \in Nat /\ succ[h] <= issued /\ (h > issued => succ[h] = 0)
        BY <1>a DEF IInv, CustodyInv, OnlyIssued, Gen
      <3>2. \/ succ'[h] = succ[h]
            \/ h <= issued /\ succ'[h] = issued + 1
        BY <1>a, <1>c
      <3> QED
        BY <1>a, <3>1, <3>2
    <2>3. \A q \in Request : pc'[q] = "exchange" => rt'[q].gen <= issued'
      BY <1>a, <1>b DEF IInv, CustodyInv, OnlyIssued
    <2>4. \A q \in Request : Holds(q)' => fresh'[q]["refresh"].gen <= issued'
      BY <1>1, <1>a, <1>b DEF IInv, CustodyInv, OnlyIssued
    <2>5. \A g \in lost' : g <= issued'
      <3>1. \A g \in lost : g <= issued /\ g \in Nat
        BY <1>a DEF IInv, CustodyInv, OnlyIssued, TypeInv, TypeOK
      <3>2. lost' \subseteq lost \cup {issued + 1}
        OBVIOUS
      <3> QED
        BY <1>a, <3>1, <3>2
    <2> QED
      BY <2>1, <2>2, <2>3, <2>4, <2>5 DEF OnlyIssued
  <1>4. SpentOnlyIfRotating'
    BY DEF IInv, CustodyInv, SpentOnlyIfRotating
  <1>5. LostReplacesNothing'
    <2> SUFFICES ASSUME Reliable, NEW g \in 1 .. MaxGen, succ'[g] # 0
                 PROVE  /\ succ'[g] \notin lost'
                        /\ \A q \in Request : Holds(q)' /\ op'[q] = "login"
                              => fresh'[q]["refresh"].gen # succ'[g]
      BY DEF LostReplacesNothing
    <2>1. CASE succ'[g] = succ[g]
      <3>1. succ[g] <= issued /\ succ[g] \in Nat /\ succ[g] # 0
        BY <1>a, <2>1 DEF IInv, CustodyInv, OnlyIssued, Gen
      <3>2. Rotates
        BY <3>1 DEF IInv, CustodyInv, SpentOnlyIfRotating
      <3> QED
        BY <1>1, <1>a, <2>1, <3>1, <3>2 DEF IInv, CustodyInv, LostReplacesNothing
    <2>2. CASE succ'[g] # succ[g]
      <3>1. succ'[g] = issued + 1 /\ op'[p] # "login"
        BY <1>a, <2>2
      <3>2. issued + 1 \notin lost
        BY <1>a DEF IInv, CustodyInv, OnlyIssued
      <3>3. \A q \in Request \ {p} :
               Holds(q)' => fresh'[q]["refresh"].gen # issued + 1
        BY <1>1, <1>a, <1>b DEF IInv, CustodyInv, OnlyIssued
      <3> QED
        BY <3>1, <3>2, <3>3
    <2> QED
      BY <2>1, <2>2
  <1>6. StrandedOnlyByLoss'
    <2>1. InHand \subseteq InHand'
      <3> SUFFICES ASSUME NEW q \in Request, Holds(q)
                   PROVE  fresh[q]["refresh"].gen \in InHand'
        BY DEF InHand
      <3>1. q # p
        OBVIOUS
      <3>2. Holds(q)' /\ fresh'[q] = fresh[q]
        BY <1>1, <3>1
      <3> QED
        BY <3>2 DEF InHand
    <2>2. Rotates => issued + 1 \in InHand' \cup lost'
      <3>1. Rotates => \/ fresh'[p]["refresh"].gen = issued + 1 /\ Holds(p)'
                       \/ issued + 1 \in lost'
        OBVIOUS
      <3> QED
        BY <3>1 DEF InHand
    <2> SUFFICES ASSUME StoredIsSpent'
                 PROVE  Replacement' \in InHand' \cup lost'
      BY DEF StrandedOnlyByLoss
    <2> DEFINE s == store["refresh"].val.gen
    <2>3. s # 0 /\ succ'[s] # 0 /\ Replacement' = succ'[s]
      BY DEF StoredIsSpent, Replacement
    <2>4. CASE succ'[s] = succ[s]
      BY <2>1, <2>3, <2>4 DEF IInv, CustodyInv, StrandedOnlyByLoss, StoredIsSpent, Replacement
    <2>5. CASE succ'[s] # succ[s]
      <3>1. s \in 1 .. MaxGen
        <4>1. s <= issued
          BY DEF IInv, CustodyInv, OnlyIssued
        <4>2. issued <= MaxGen
          BY <1>a DEF IInv, TypeInv, TypeOK, Gen
        <4> QED
          BY <1>a, <1>b, <2>3, <4>1, <4>2
      <3>2. Rotates /\ succ'[s] = issued + 1
        BY <1>a, <2>5, <3>1
      <3> QED
        BY <2>2, <2>3, <3>2
    <2> QED
      BY <2>4, <2>5
  <1> QED
    BY <1>2, <1>3, <1>4, <1>5, <1>6 DEF CustodyInv

\* A request reads the refresh token it is going to spend: no request that
\* holds a token has published it.
LEMMA GetRefreshTokenKeeps ==
    ASSUME IInv, NEW p \in Request, GetRefreshToken(p)
    PROVE  CustodyInv'
PROOF
  <1>1. /\ UNCHANGED <<store, succ, issued, lost, fresh, at, op>>
        /\ pc'[p] \in {"reload", "exchange"}
        /\ \A q \in Request \ {p} : pc'[q] = pc[q] /\ rt'[q] = rt[q]
        /\ pc'[p] = "exchange" => rt'[p] = store["refresh"].val
    BY DEF GetRefreshToken, Goto, history, provider, IInv, TypeInv, TypeOK
  <1>2. \A q \in Request : Holds(q)' = Holds(q)
    BY <1>1 DEF GetRefreshToken, Holds
  <1>3. HandIsExclusive'
    <2> SUFFICES ASSUME Rotates, NEW r \in Request, Holds(r)'
                 PROVE  Exclusive(r)'
      BY DEF HandIsExclusive
    <2>1. Exclusive(r)
      BY <1>2 DEF IInv, CustodyInv, HandIsExclusive
    <2> QED
      BY <1>1, <1>2, <2>1 DEF Exclusive
  <1>4. OnlyIssued'
    BY <1>1, <1>2 DEF IInv, CustodyInv, OnlyIssued
  <1>5. SpentOnlyIfRotating' /\ LostReplacesNothing'
    BY <1>1, <1>2 DEF IInv, CustodyInv, SpentOnlyIfRotating, LostReplacesNothing
  <1>6. StrandedOnlyByLoss'
    BY <1>1, <1>2 DEF IInv, CustodyInv, StrandedOnlyByLoss, StoredIsSpent, Replacement, InHand
  <1> QED
    BY <1>3, <1>4, <1>5, <1>6 DEF CustodyInv

\* SetRefreshToken publishes a token that is good.
LEMMA PublishKeeps ==
    ASSUME IInv, NEW p \in Request, Publishes(p)
    PROVE  CustodyInv'
PROOF
  <1> USE DEF Publishes
  <1> DEFINE h == fresh[p]["refresh"].gen
  <1>1. /\ UNCHANGED <<succ, issued, lost, fresh, rt, op, at>>
        /\ Holds(p) /\ ~Holds(p)'
        /\ \A q \in Request \ {p} : Holds(q)' = Holds(q)
        /\ \A q \in Request : pc'[q] = "exchange" => pc[q] = "exchange"
    BY DEF WriteHash, Goto, history, provider, Holds, IInv, TypeInv, TypeOK
  <1>2. store'["refresh"].val.gen = h
    <2>1. store["refresh"] \in Entry /\ "refresh" \in DOMAIN store
      BY DEF IInv, TypeInv, TypeOK, Kind
    <2>2. store'["refresh"] = HSet(store["refresh"], fresh[p]["refresh"])
      BY <2>1 DEF WriteHash
    <2> QED
      BY <2>1, <2>2 DEF HSet, Entry
  <1>3. HandIsExclusive'
    <2> SUFFICES ASSUME Rotates, NEW r \in Request, Holds(r)'
                 PROVE  Exclusive(r)'
      BY DEF HandIsExclusive
    <2>1. r # p /\ Holds(r)
      BY <1>1
    <2>2. Exclusive(r) /\ h # fresh[r]["refresh"].gen
      BY <1>1, <2>1 DEF IInv, CustodyInv, HandIsExclusive, Exclusive
    <2> QED
      BY <1>1, <1>2, <2>1, <2>2 DEF Exclusive
  <1>4. OnlyIssued'
    BY <1>1, <1>2 DEF IInv, CustodyInv, OnlyIssued
  <1>5. SpentOnlyIfRotating' /\ LostReplacesNothing'
    BY <1>1 DEF IInv, CustodyInv, SpentOnlyIfRotating, LostReplacesNothing
  <1>6. StrandedOnlyByLoss'
    <2>1. h # 0 => succ[h] = 0
      <3>1. CASE Rotates
        BY <1>1, <3>1 DEF IInv, CustodyInv, HandIsExclusive, Exclusive
      <3>2. CASE ~Rotates
        <4>1. h \in Nat /\ h <= issued /\ issued <= MaxGen
          <5>1. h \in Nat
            BY Generations DEF IInv, TypeInv
          <5>2. h <= issued
            BY <1>1 DEF IInv, CustodyInv, OnlyIssued
          <5>3. issued <= MaxGen
            BY TokenStoreAssumption DEF IInv, TypeInv, TypeOK, Gen
          <5> QED
            BY <5>1, <5>2, <5>3
        <4>2. h # 0 => h \in 1 .. MaxGen
          <5>1. MaxGen \in Nat /\ issued \in Nat
            BY Generations, TokenStoreAssumption DEF IInv, TypeInv
          <5> QED
            BY <4>1, <5>1
        <4> QED
          BY <3>2, <4>2 DEF IInv, CustodyInv, SpentOnlyIfRotating
      <3> QED
        BY <3>1, <3>2
    <2> QED
      BY <1>1, <1>2, <2>1 DEF StrandedOnlyByLoss, StoredIsSpent
  <1> QED
    BY <1>3, <1>4, <1>5, <1>6 DEF CustodyInv

\* An answer that the client drops is one that nobody received.
LEMMA DroppedClassified ==
    ASSUME TypeInv, CustodyInv, NEW p \in Request, AnswerDropped(p), ~Reliable
    PROVE  Classified
PROOF
  <1>1. /\ issued < MaxGen /\ issued' = issued + 1
        /\ ~Holds(p) /\ ~Holds(p)' /\ store' = store
        /\ lost' = IF Rotates THEN lost \cup {issued + 1} ELSE lost
        /\ pc'[p] = "reload" /\ op'[p] # "login"
        /\ \A q \in Request \ {p} : /\ pc'[q] = pc[q] /\ at'[q] = at[q]
                                 /\ op'[q] = op[q] /\ rt'[q] = rt[q]
                                 /\ fresh'[q] = fresh[q]
    BY DEF AnswerDropped, Grant, Goto, Holds, TypeInv, TypeOK, OpInv
  <1>2. rt[p].gen <= issued /\ rt[p].gen \in Nat /\ rt[p].gen # 0
    BY Generations DEF AnswerDropped, Grant, Accepts, CustodyInv, OnlyIssued, TypeInv
  <1>3. rt[p].gen \in 1 .. MaxGen
    BY <1>1, <1>2, Generations, TokenStoreAssumption DEF TypeInv
  <1>4. \/ succ' = succ /\ ~Rotates
        \/ Rotates /\ \E g \in 1 .. MaxGen : Spends(p, g)
    BY <1>3 DEF AnswerDropped, Grant, Accepts, Spends
  <1>5. Receives(p)
    BY <1>1, <1>4 DEF Receives, Others
  <1> QED
    BY <1>5 DEF Classified

\* Every step of a request in which nothing goes wrong is one of these.
LEMMA StepClassified ==
    ASSUME IInv, NEW p \in Request, Step(p)
    PROVE  Classified
PROOF
  <1> USE DEF IInv, Classified
  <1>1. CASE ReadToken(p)
    BY <1>1
    DEF ReadToken, Goto, history, provider, Unrelated, Holds, TypeInv, TypeOK
  <1>2. CASE GetRefreshToken(p)
    BY <1>2
  <1>3. CASE Exchange(p)
    <2>1. /\ issued < MaxGen /\ issued' = issued + 1
          /\ ~Holds(p) /\ Holds(p)' /\ lost' = lost /\ store' = store
          /\ pc'[p] = "hset" /\ op'[p] # "login"
          /\ \A q \in Request \ {p} : /\ pc'[q] = pc[q] /\ at'[q] = at[q]
                                   /\ op'[q] = op[q] /\ rt'[q] = rt[q]
                                   /\ fresh'[q] = fresh[q]
      BY <1>3 DEF Exchange, Grant, Goto, history, Holds, TypeInv, TypeOK, OpInv
    <2>2. fresh'[p]["refresh"].gen = IF Reissues THEN issued + 1 ELSE rt[p].gen
      BY <1>3 DEF Exchange, Answer, TypeInv, TypeOK
    <2>3. rt[p].gen <= issued /\ rt[p].gen \in Nat /\ rt[p].gen # 0
      BY <1>3, Generations
      DEF Exchange, Grant, Accepts, CustodyInv, OnlyIssued, TypeInv
    <2>4. issued \in Nat /\ MaxGen \in Nat
      BY Generations, TokenStoreAssumption DEF TypeInv
    <2>5. rt[p].gen \in 1 .. MaxGen
      BY <2>1, <2>3, <2>4
    <2>6. fresh'[p]["refresh"].gen \in 0 .. (issued + 1)
      BY <2>2, <2>3, <2>4
    <2>7. \/ succ' = succ /\ ~Rotates
          \/ Rotates /\ \E g \in 1 .. MaxGen : Spends(p, g)
      BY <1>3, <2>5 DEF Exchange, Grant, Accepts, Spends
    <2>8. Rotates => Reissues
      BY TokenStoreAssumption
    <2>9. Receives(p)
      BY <2>1, <2>2, <2>6, <2>7, <2>8 DEF Receives, Others
    <2> QED
      BY <2>9
  <1>4. CASE ExchangeRejected(p)
    BY <1>4
    DEF ExchangeRejected, Goto, history, provider, Unrelated, Holds, TypeInv, TypeOK
  <1>5. CASE WriteHash(p)
    <2>1. CASE at[p] = "refresh"
      BY <1>5, <2>1 DEF Publishes
    <2>2. CASE at[p] # "refresh"
      BY <1>5, <2>2
      DEF WriteHash, Goto, history, provider, Unrelated, Holds, TypeInv, TypeOK, Kind
    <2> QED
      BY <2>1, <2>2
  <1>6. CASE WriteTTL(p)
    <2>1. store'["refresh"].val \in {store["refresh"].val, NoToken}
      <3>1. store["refresh"] \in Entry /\ "refresh" \in Kind
        BY DEF TypeInv, TypeOK, Kind
      <3>2. \/ store'["refresh"] = store["refresh"]
            \/ store'["refresh"] = Persist(store["refresh"])
            \/ \E x : store'["refresh"] = ExpireAt(store["refresh"], NoToken, x, now)
        BY <1>6, <3>1 DEF WriteTTL, TypeInv, TypeOK
      <3> QED
        <4>1. CASE store'["refresh"] = Persist(store["refresh"])
          BY <3>1, <4>1 DEF Persist, Entry
        <4>2. ASSUME NEW x, store'["refresh"] = ExpireAt(store["refresh"], NoToken, x, now)
              PROVE  store'["refresh"].val \in {store["refresh"].val, NoToken}
          BY <3>1, <4>2 DEF ExpireAt, Absent, Entry
        <4> QED
          BY <3>2, <4>1, <4>2
    <2>2. /\ UNCHANGED <<succ, issued, lost>>
          /\ \A q \in Request \ {p} : /\ pc'[q] = pc[q] /\ at'[q] = at[q]
                                   /\ op'[q] = op[q] /\ rt'[q] = rt[q]
                                   /\ fresh'[q] = fresh[q]
      BY <1>6 DEF WriteTTL, Finish, Goto, history, provider, local, TypeInv, TypeOK
    <2>3. pc'[p] # "exchange"
      BY <1>6 DEF WriteTTL, Finish, Goto, TypeInv, TypeOK
    <2>4. \A q \in Request \ {p} : Holds(q)' = Holds(q)
      BY <2>2 DEF Holds
    <2>5. CASE at[p] = "access"
      <3>1. /\ pc'[p] = "hset" /\ at'[p] = "refresh"
            /\ fresh'[p] = fresh[p] /\ op'[p] = op[p]
        BY <1>6, <2>5 DEF WriteTTL, WritesMore, After, Goto, local, TypeInv, TypeOK, Kind
      <3>2. Holds(p) /\ Holds(p)'
        BY <1>6, <2>5, <3>1 DEF WriteTTL, Holds
      <3> QED
        <4>1. \A q \in Request :
                /\ Holds(q)' = Holds(q)
                /\ Holds(q) => fresh'[q] = fresh[q] /\ op'[q] = op[q]
                /\ pc'[q] = "exchange" => pc[q] = "exchange" /\ rt'[q] = rt[q]
          <5> SUFFICES ASSUME NEW q \in Request
                       PROVE  /\ Holds(q)' = Holds(q)
                              /\ Holds(q) => fresh'[q] = fresh[q] /\ op'[q] = op[q]
                              /\ pc'[q] = "exchange"
                                   => pc[q] = "exchange" /\ rt'[q] = rt[q]
            OBVIOUS
          <5>1. CASE q = p
            BY <2>3, <3>1, <3>2, <5>1
          <5>2. CASE q # p
            BY <2>2, <2>4, <5>2
          <5> QED
            BY <5>1, <5>2
        <4> QED
          BY <2>1, <2>2, <4>1 DEF Unrelated
    <2>6. CASE at[p] # "access"
      <3>1. ~Holds(p)
        BY <1>6, <2>6 DEF WriteTTL, Holds
      <3>2. ~Holds(p)'
        BY <1>6, <2>6 DEF WriteTTL, Holds, After, Finish, Goto, TypeInv, TypeOK
      <3> QED
        <4>1. \A q \in Request :
                /\ Holds(q)' = Holds(q)
                /\ Holds(q) => fresh'[q] = fresh[q] /\ op'[q] = op[q]
                /\ pc'[q] = "exchange" => pc[q] = "exchange" /\ rt'[q] = rt[q]
          <5> SUFFICES ASSUME NEW q \in Request
                       PROVE  /\ Holds(q)' = Holds(q)
                              /\ Holds(q) => fresh'[q] = fresh[q] /\ op'[q] = op[q]
                              /\ pc'[q] = "exchange"
                                   => pc[q] = "exchange" /\ rt'[q] = rt[q]
            OBVIOUS
          <5>1. CASE q = p
            BY <2>3, <3>1, <3>2, <5>1 DEF Holds
          <5>2. CASE q # p
            BY <2>2, <2>4, <5>2
          <5> QED
            BY <5>1, <5>2
        <4> QED
          BY <2>1, <2>2, <4>1 DEF Unrelated
    <2> QED
      BY <2>5, <2>6
  <1>7. CASE Reload(p)
    BY <1>7
    DEF Reload, Goto, history, provider, Unrelated, Holds, TypeInv, TypeOK
  <1>8. CASE Check(p)
    BY <1>8
    DEF Check, Finish, Goto, history, provider, Unrelated, Holds, TypeInv, TypeOK
  <1>9. CASE ExchangeUnreadable(p)
    BY <1>9, DroppedClassified DEF ExchangeUnreadable, Reliable
  <1> QED
    BY <1>1, <1>2, <1>3, <1>4, <1>5, <1>6, <1>7, <1>8, <1>9 DEF Step

\* Every step is one of these.
LEMMA NextClassified == IInv /\ [Next]_vars => Classified
PROOF
  <1> SUFFICES ASSUME IInv, [Next]_vars PROVE Classified
    OBVIOUS
  <1> USE DEF IInv, Classified
  <1>1. ASSUME NEW p \in Request, NEW k \in {"access", "id"}, Begin(p, k)
        PROVE  Classified
    BY <1>1
    DEF Begin, Goto, Ready, history, provider, Unrelated, Holds, TypeInv, TypeOK
  <1>2. ASSUME NEW p \in Request, Login(p)
        PROVE  Classified
    <2>1. /\ issued < MaxGen /\ issued' = issued + 1 /\ succ' = succ
          /\ ~Holds(p) /\ Holds(p)' /\ lost' = lost /\ store' = store
          /\ pc'[p] = "hset"
          /\ \A q \in Request \ {p} : /\ pc'[q] = pc[q] /\ at'[q] = at[q]
                                   /\ op'[q] = op[q] /\ rt'[q] = rt[q]
                                   /\ fresh'[q] = fresh[q]
      BY <1>2 DEF Login, Goto, history, Ready, Holds, TypeInv, TypeOK
    <2>2. fresh'[p]["refresh"].gen = issued + 1
      BY <1>2 DEF Login, Answer, TypeInv, TypeOK
    <2>3. issued \in Nat
      BY Generations DEF TypeInv
    <2> QED
      BY <2>1, <2>2, <2>3 DEF Receives, Spends, Others
  <1>3. ASSUME NEW p \in Request, Step(p)
        PROVE  Classified
    BY <1>3, StepClassified
  <1>4. ASSUME NEW p \in Request, ExchangeLost(p)
        PROVE  Classified
    BY <1>4, DroppedClassified DEF ExchangeLost, Reliable
  <1>5. ASSUME NEW p \in Request, CommandFails(p)
        PROVE  Classified
    <2>1. /\ UNCHANGED <<succ, issued, store>>
          /\ lost' = lost \cup DroppedBy(p)
          /\ pc'[p] \in {"failed", "check", "reload"}
          /\ \A q \in Request \ {p} : /\ pc'[q] = pc[q] /\ at'[q] = at[q]
                                   /\ op'[q] = op[q] /\ rt'[q] = rt[q]
                                   /\ fresh'[q] = fresh[q]
      BY <1>5 DEF CommandFails, Finish, Goto, history, provider, TypeInv, TypeOK
    <2>2. ~FaultsAllowed => ~Holds(p) \/ op[p] = "login"
      BY <1>5 DEF CommandFails, MayFail, Cancellable, Holds
    <2>3. ~Holds(p)'
      BY <2>1 DEF Holds
    <2> QED
      BY <2>1, <2>2, <2>3 DEF Drops, Others
  <1>6. ASSUME NEW p \in Request, Crash(p)
        PROVE  Classified
    <2>1. /\ UNCHANGED <<succ, issued, store>>
          /\ lost' = lost \cup DroppedBy(p) /\ FaultsAllowed
          /\ pc'[p] = "idle"
          /\ \A q \in Request \ {p} : /\ pc'[q] = pc[q] /\ at'[q] = at[q]
                                   /\ op'[q] = op[q] /\ rt'[q] = rt[q]
                                   /\ fresh'[q] = fresh[q]
      BY <1>6 DEF Crash, Finish, Goto, history, provider, TypeInv, TypeOK
    <2>2. ~Holds(p)'
      BY <2>1 DEF Holds
    <2> QED
      BY <2>1, <2>2 DEF Drops, Others
  <1>7. CASE Tick
    <2>1. store'["refresh"].val \in {store["refresh"].val, NoToken}
      BY <1>7 DEF Tick, Evict, Absent, Kind
    <2> QED
      BY <1>7, <2>1 DEF Tick, history, provider, Unrelated, Holds
  <1>8. CASE UNCHANGED vars
    BY <1>8 DEF vars, Unrelated, Holds
  <1> QED
    BY <1>1, <1>2, <1>3, <1>4, <1>5, <1>6, <1>7, <1>8 DEF Next

\* Every step keeps the custody invariant.
LEMMA NextCustody == IInv /\ [Next]_vars => CustodyInv'
  BY NextClassified, UnrelatedKeeps, DropKeeps, ReceiveKeeps,
     GetRefreshTokenKeeps, PublishKeeps DEF Classified

\* The types and the custody of refresh tokens are an inductive invariant.
LEMMA Invariance == Spec => []IInv
PROOF
  <1>1. Init => IInv
    BY InitType, InitCustody DEF IInv
  <1>2. IInv /\ [Next]_vars => IInv'
    BY NextType, NextCustody DEF IInv
  <1> QED
    BY <1>1, <1>2, PTL DEF Spec

(* Whatever the requests, the provider and the failures do, the replacement *)
(* of a spent stored refresh token is in the hands of a request, or was     *)
(* dropped by one (refreshAccessToken, token_store.go:119-156), because of  *)
(* a failure or because it was no JWT (client.go:130,170).                  *)
THEOREM StrandedOnlyByLossAlways == Spec => []StrandedOnlyByLoss
PROOF
  <1>1. IInv => StrandedOnlyByLoss
    BY DEF IInv, CustodyInv
  <1> QED
    BY <1>1, Invariance, PTL

(* A refresh token that a request has received and not yet stored is good   *)
(* and is nowhere else.                                                     *)
THEOREM HandIsExclusiveAlways == Spec => []HandIsExclusive
PROOF
  <1>1. IInv => HandIsExclusive
    BY DEF IInv, CustodyInv
  <1> QED
    BY <1>1, Invariance, PTL

(* Without crashes and failed calls, and with refresh tokens that are JWTs, *)
(* nobody is stranded for good, however many clients go away:               *)
(* context.WithoutCancel (token_store.go:125) is enough, and SaveTokens     *)
(* does not need it for this.                                               *)
THEOREM CancelNeverStrandsAlways == Spec => []CancelNeverStrands
PROOF
  <1>1. IInv => CancelNeverStrands
    <2> SUFFICES ASSUME IInv, Reliable, StoredIsSpent
                 PROVE  Replacement \in InHand
      BY DEF CancelNeverStrands
    <2> DEFINE s == store["refresh"].val.gen
    <2>1. s \in 1 .. MaxGen
      <3>1. s \in Nat /\ issued \in 0 .. MaxGen
        BY Generations DEF IInv, TypeInv, TypeOK, Gen
      <3>2. s <= issued
        BY DEF IInv, CustodyInv, OnlyIssued
      <3> QED
        BY <3>1, <3>2, TokenStoreAssumption DEF StoredIsSpent
    <2>2. Replacement \notin lost
      BY <2>1 DEF IInv, CustodyInv, LostReplacesNothing, StoredIsSpent, Replacement
    <2> QED
      BY <2>2 DEF IInv, CustodyInv, StrandedOnlyByLoss
  <1> QED
    BY <1>1, Invariance, PTL


----------------------------------------------------------------------------
(* TokenStore implements RefreshCustody: with single-use refresh tokens     *)
(* every step of the store, of a request or of the provider is a step in    *)
(* the life of one refresh token, or none.                                   *)

LostInv == IInv /\ LostIsGone

\* A step that moves no token leaves every token in hand where it is.
LEMMA UnrelatedHands ==
    ASSUME Unrelated
    PROVE  InHand' = InHand
  BY DEF Unrelated, InHand

\* A lost token stays away from the store and from all requests.
LEMMA LostKeeps ==
    ASSUME LostInv, TypeInv', [Next]_vars
    PROVE  LostIsGone'
PROOF
  <1> SUFFICES ASSUME Rotates PROVE LostIsGone'
    BY DEF LostIsGone
  <1> USE DEF LostInv
  <1>1. /\ issued \in Nat /\ \A g \in lost : g \in Nat /\ g <= issued
        /\ 0 \notin lost
    BY Generations DEF IInv, TypeInv, TypeOK, CustodyInv, OnlyIssued
  <1>2. CASE Unrelated
    BY <1>1, <1>2 DEF Unrelated, LostIsGone, NoToken
  <1>3. ASSUME NEW p \in Request, Drops(p)
        PROVE  LostIsGone'
    <2>1. \A q \in Request \ {p} : Holds(q)' = Holds(q)
      BY <1>3 DEF Drops, Others, Holds
    <2>2. CASE ~Holds(p)
      BY <1>3, <2>1, <2>2 DEF Drops, Others, DroppedBy, LostIsGone
    <2>3. CASE Holds(p)
      <3>1. DroppedBy(p) \subseteq {fresh[p]["refresh"].gen}
        BY DEF DroppedBy
      <3>2. Exclusive(p)
        BY <2>3 DEF IInv, CustodyInv, HandIsExclusive
      <3> QED
        BY <1>3, <2>1, <3>1, <3>2 DEF Drops, Others, LostIsGone, Exclusive
    <2> QED
      BY <2>2, <2>3
  <1>4. ASSUME NEW p \in Request, Receives(p)
        PROVE  LostIsGone'
    <2>1. \A q \in Request \ {p} : Holds(q)' = Holds(q)
      BY <1>4 DEF Receives, Others, Holds
    <2>2. /\ store["refresh"].val.gen # issued + 1
          /\ \A q \in Request : pc[q] = "exchange" => rt[q].gen # issued + 1
          /\ \A q \in Request : Holds(q) => fresh[q]["refresh"].gen # issued + 1
          /\ issued + 1 \notin lost
      BY <1>1, Generations DEF IInv, TypeInv, CustodyInv, OnlyIssued
    <2>3. lost' \subseteq lost \cup {issued + 1}
      BY <1>4 DEF Receives
    <2>4. /\ store'["refresh"].val.gen \notin lost'
          /\ \A q \in Request : pc'[q] = "exchange" => rt'[q].gen \notin lost'
          /\ \A q \in Request \ {p} :
                Holds(q)' => fresh'[q]["refresh"].gen \notin lost'
      BY <1>4, <2>1, <2>2, <2>3 DEF Receives, Others, LostIsGone
    <2>5. Holds(p)' => fresh'[p]["refresh"].gen \notin lost'
      BY <1>4, <2>2 DEF Receives
    <2> QED
      BY <2>4, <2>5 DEF LostIsGone
  <1>5. ASSUME NEW p \in Request, GetRefreshToken(p)
        PROVE  LostIsGone'
    <2>1. \A q \in Request : Holds(q)' = Holds(q)
      BY <1>5 DEF GetRefreshToken, Goto, Holds, IInv, TypeInv, TypeOK
    <2> QED
      BY <1>5, <2>1 DEF GetRefreshToken, Goto, history, provider, LostIsGone,
                        IInv, TypeInv, TypeOK
  <1>6. ASSUME NEW p \in Request, Publishes(p)
        PROVE  LostIsGone'
    <2>1. /\ UNCHANGED <<lost, fresh, rt, at>> /\ Holds(p) /\ ~Holds(p)'
          /\ \A q \in Request \ {p} : Holds(q)' = Holds(q)
          /\ \A q \in Request : pc'[q] = "exchange" => pc[q] = "exchange"
      BY <1>6 DEF Publishes, WriteHash, Goto, history, Holds, IInv, TypeInv, TypeOK
    <2>2. store'["refresh"].val.gen = fresh[p]["refresh"].gen
      BY <1>6 DEF Publishes, WriteHash, HSet, IInv, TypeInv, TypeOK, Kind, Entry
    <2> QED
      BY <2>1, <2>2 DEF LostIsGone
  <1> QED
    BY <1>2, <1>3, <1>4, <1>5, <1>6, NextClassified DEF Classified

\* The inductive invariant of the refinement.
LEMMA LostInvariance == Spec => []LostInv
PROOF
  <1>1. Init => LostInv
    BY InitType, InitCustody, TokenStoreAssumption
    DEF LostInv, IInv, LostIsGone, Init, Holds
  <1>2. LostInv /\ [Next]_vars => LostInv'
    BY NextType, NextCustody, LostKeeps DEF LostInv, IInv
  <1> QED
    BY <1>1, <1>2, PTL DEF Spec

----------------------------------------------------------------------------
(* Every kind of step is a step of RefreshCustody, or none.                 *)

\* At the beginning the provider has given no token.
LEMMA InitRefines == Init => Custody!Init
PROOF
  <1> SUFFICES ASSUME Init PROVE Custody!Init
    OBVIOUS
  <1>1. 1 .. issued = {}
    BY DEF Init
  <1>2. InHand = {}
    BY DEF Init, InHand, Holds
  <1>3. store["refresh"].val.gen = 0
    BY DEF Init, Kind, Absent, NoToken
  <1> QED
    BY <1>1, <1>2, <1>3 DEF Init, Custody!Init

\* A step that moves no token is none, or the expiry of the stored one.
LEMMA UnrelatedRefines ==
    ASSUME LostInv, Unrelated
    PROVE  [Custody!Next]_Custody!vars
PROOF
  <1>1. InHand' = InHand
    BY UnrelatedHands
  <1>2. store'["refresh"].val.gen \in {store["refresh"].val.gen, 0}
    BY DEF Unrelated, NoToken
  <1>3. CASE store'["refresh"].val.gen = store["refresh"].val.gen
    BY <1>1, <1>3 DEF Unrelated, Custody!vars
  <1>4. CASE store'["refresh"].val.gen = 0
    BY <1>1, <1>4 DEF Unrelated, Custody!Next, Custody!Evict
  <1> QED
    BY <1>2, <1>3, <1>4

\* A request that drops the token it holds loses it.
LEMMA DropRefines ==
    ASSUME LostInv, Rotates, NEW p \in Request, Drops(p)
    PROVE  [Custody!Next]_Custody!vars
PROOF
  <1> DEFINE h == fresh[p]["refresh"].gen
  <1>1. \A q \in Request \ {p} : Holds(q)' = Holds(q) /\ fresh'[q] = fresh[q]
    BY DEF Drops, Others, Holds
  <1>2. CASE ~Holds(p)
    <2>1. InHand' = InHand
      BY <1>1, <1>2 DEF InHand, Drops
    <2>2. lost' = lost
      BY <1>2 DEF Drops, DroppedBy
    <2> QED
      BY <2>1, <2>2 DEF Drops, Custody!vars
  <1>3. CASE Holds(p)
    <2>1. Exclusive(p)
      BY <1>3 DEF LostInv, IInv, CustodyInv, HandIsExclusive
    <2>2. h \in InHand /\ h # 0
      BY <1>3, <2>1 DEF InHand, Exclusive
    <2>3. InHand' = InHand \ {h}
      BY <1>1, <1>3, <2>1 DEF InHand, Drops, Exclusive
    <2>4. lost' = lost \cup {h}
      BY <1>3, <2>2 DEF Drops, DroppedBy
    <2>5. Custody!Lose(h)
      BY <2>2, <2>3, <2>4 DEF Custody!Lose, Drops
    <2> QED
      BY <2>2, <2>5 DEF Custody!Next
  <1> QED
    BY <1>2, <1>3

\* An answer of the provider is a new token, of a login or for a spent one.
LEMMA ReceiveRefines ==
    ASSUME LostInv, Rotates, NEW p \in Request, Receives(p)
    PROVE  [Custody!Next]_Custody!vars
PROOF
  <1> DEFINE t == issued + 1
  <1>1. issued \in Nat /\ MaxGen \in Nat /\ issued < MaxGen
    BY TokenStoreAssumption DEF LostInv, IInv, TypeInv, TypeOK, Gen, Receives
  <1>2. t \in (1 .. MaxGen) \ (1 .. issued)
    BY <1>1
  <1>3. 1 .. issued' = (1 .. issued) \cup {t}
    BY <1>1 DEF Receives
  <1>4. \A q \in Request \ {p} : Holds(q)' = Holds(q) /\ fresh'[q] = fresh[q]
    BY DEF Receives, Others, Holds
  <1>5. Holds(p)' => InHand' = InHand \cup {t} /\ lost' = lost
    BY <1>4 DEF InHand, Receives
  <1>6. ~Holds(p)' => InHand' = InHand /\ lost' = lost \cup {t}
    BY <1>4 DEF InHand, Receives
  <1>7. CASE succ' = succ
    <2>1. \A g \in 1 .. MaxGen : ~Spends(p, g)
      BY <1>1, <1>7 DEF Spends, LostInv, IInv, TypeInv, TypeOK
    <2>2. Holds(p)'
      BY <2>1 DEF Receives
    <2>3. Custody!Issue(t)
      BY <1>3, <1>5, <1>7, <2>2 DEF Receives, Custody!Issue
    <2> QED
      BY <1>2, <2>3 DEF Custody!Next
  <1>8. ASSUME NEW g \in 1 .. MaxGen, Spends(p, g)
        PROVE  [Custody!Next]_Custody!vars
    <2>1. g \in (1 .. issued) \ (InHand \cup lost)
      <3>1. g <= issued /\ g \notin lost
        BY <1>8 DEF Spends, LostInv, LostIsGone, IInv, CustodyInv, OnlyIssued
      <3>2. \A q \in Request : Holds(q) => fresh[q]["refresh"].gen # g
        BY <1>8 DEF Spends, LostInv, IInv, CustodyInv, HandIsExclusive, Exclusive
      <3> QED
        BY <1>1, <3>1, <3>2 DEF InHand
    <2>2. Custody!Receive(t)
      BY <1>5, <1>6 DEF Custody!Receive
    <2>3. Custody!Exchange(g, t)
      BY <1>3, <1>8, <2>1, <2>2 DEF Receives, Spends, Custody!Exchange
    <2> QED
      BY <1>2, <1>8, <2>3 DEF Custody!Next
  <1> QED
    BY <1>7, <1>8 DEF Receives

\* Reading the refresh token moves no token.
LEMMA ReadRefines ==
    ASSUME LostInv, NEW p \in Request, GetRefreshToken(p)
    PROVE  [Custody!Next]_Custody!vars
PROOF
  <1>1. \A q \in Request : Holds(q)' = Holds(q)
    BY DEF GetRefreshToken, Goto, Holds, LostInv, IInv, TypeInv, TypeOK
  <1>2. InHand' = InHand
    BY <1>1 DEF GetRefreshToken, InHand
  <1> QED
    BY <1>2 DEF GetRefreshToken, provider, history, Custody!vars

\* SetRefreshToken stores the token that the request holds.
LEMMA PublishRefines ==
    ASSUME LostInv, Rotates, NEW p \in Request, Publishes(p)
    PROVE  [Custody!Next]_Custody!vars
PROOF
  <1> DEFINE h == fresh[p]["refresh"].gen
  <1>1. /\ UNCHANGED <<succ, issued, lost, fresh, at>> /\ Holds(p) /\ ~Holds(p)'
        /\ \A q \in Request \ {p} : Holds(q)' = Holds(q)
    BY DEF Publishes, WriteHash, Goto, provider, history, Holds, LostInv, IInv,
           TypeInv, TypeOK
  <1>2. store'["refresh"].val.gen = h
    BY DEF Publishes, WriteHash, HSet, LostInv, IInv, TypeInv, TypeOK, Kind, Entry
  <1>3. Exclusive(p)
    BY <1>1 DEF LostInv, IInv, CustodyInv, HandIsExclusive
  <1>4. h \in InHand /\ InHand' = InHand \ {h}
    BY <1>1, <1>3 DEF InHand, Exclusive
  <1>5. Custody!Store(h)
    BY <1>1, <1>2, <1>4 DEF Custody!Store
  <1> QED
    BY <1>4, <1>5 DEF Custody!Next

\* Every step of TokenStore maps to a step of RefreshCustody, or to none.
LEMMA StepRefines ==
    LostInv /\ Rotates /\ [Next]_vars => [Custody!Next]_Custody!vars
  BY NextClassified, UnrelatedRefines, DropRefines, ReceiveRefines, ReadRefines,
     PublishRefines DEF Classified, LostInv

(* With single-use refresh tokens the token store implements RefreshCustody: *)
(* every refresh token is stored by the one request that received it, or is *)
(* lost, is spent at most once and never before it was stored               *)
(* (refreshAccessToken, token_store.go:119-156, and SaveTokens).            *)
THEOREM LifeOfRefreshTokensAlways == Rotates /\ Spec => LifeOfRefreshTokens
PROOF
  <1> SUFFICES ASSUME Rotates PROVE Spec => LifeOfRefreshTokens
    OBVIOUS
  <1>1. LostInv /\ [Next]_vars => [Custody!Next]_Custody!vars
    BY StepRefines
  <1> QED
    BY <1>1, InitRefines, LostInvariance, PTL DEF Spec, LifeOfRefreshTokens, Custody!Spec
=============================================================================
