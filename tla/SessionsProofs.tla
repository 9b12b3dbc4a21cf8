---------------------------- MODULE SessionsProofs ----------------------------
(***************************************************************************)
(* What holds of the sessions for any number of concurrent requests, of     *)
(* sessions and of login states, and for any lifetimes: the types, that no  *)
(* session outlives its maximum, that none is left without an expiry, and    *)
(* whom the stored ones may name.                                            *)
(***************************************************************************)
EXTENDS Sessions, TLAPS

----------------------------------------------------------------------------
(* The inductive invariants                                                 *)

\* A provider is due when a code is exchanged.
ProviderDue == \A p \in Request : pc[p] = "exchange" => mem[p].seq # <<>>

TypeInv == TypeOK /\ ProviderDue

\* The copies of sessions that there are, in Redis and in the requests.
Copies == {db[k].val : k \in ID}
            \cup UNION {{ctx[p], mem[p], out[p]} : p \in Request}

\* A session is stored under its own ID, and one without an ID is not saved.
StoredUnderID ==
    /\ \A k \in ID : db[k].val # NoSession => k # NoID /\ db[k].val.id = k
    /\ \A p \in Request : pc[p] \in {"hset", "expire"} => out[p].id # NoID

\* A copy that names a user is the one of the header of this request, or the
\* token callback ran in its session.
CopyLoggedIn(s) == s.id # NoID /\ s.user # "" => s.id \in authed

LoggedInInv == StoredUnderID /\ \A s \in Copies : CopyLoggedIn(s)

\* The login states that the browser has or is about to have.
Told == (known \cup {reply[p].state : p \in Request}) \ {0}

\* A session without a user has no GitLab tokens, and if the browser knows its
\* state, that state was not made for GitLab, which redeems no code with it.
Unreachable(s) ==
    s.user = "" => /\ "gitlab" \notin s.toks
                   /\ s.state \in Told => issuer[s.state] # "gitlab"

\* Login states are given out once, in the order of their numbers.
StatesInv ==
    /\ \A s \in Copies : s.state <= nonce
    /\ \A n \in Told : n <= nonce

\* A callback brings a state that the browser has, and it is that of the session.
Callbacks ==
    \A p \in Request :
        /\ kind[p] = "callback" => cb[p] \in known \ {0}
        /\ pc[p] = "exchange" => kind[p] = "callback" /\ mem[p].state = cb[p]

GitLabInv == StatesInv /\ Callbacks /\ \A s \in Copies : Unreachable(s)

\* The session in the context of a handler is that of the cookie; until the
\* handler is done nothing is in the response, and nothing has been saved.
Early(p) ==
    /\ pc[p] \in {"idle", "load", "handle", "exchange"} =>
          reply[p] = NoReply /\ out[p] = NoSession
    /\ pc[p] # "exchange" => mem[p] = NoSession
    /\ pc[p] \in {"idle", "load"} => ~loaded[p] /\ ctx[p] = NoSession
    /\ pc[p] = "handle" /\ loaded[p] /\ cookie[p] # NoID => ctx[p].id = cookie[p]

EarlyInv == \A p \in Request : Early(p)

\* The browser and the requests have IDs that were given out.
IDsGiven ==
    /\ jar <= used
    /\ \A p \in Request : cookie[p] <= used /\ reply[p].cookie <= used

\* With one request at a time no copy of a deleted session is left.
DeletedInv == /\ IDsGiven /\ loggedOut \subseteq 1 .. used
              /\ \A s \in Copies : s.id \notin loggedOut

----------------------------------------------------------------------------
(* Types                                                                    *)

\* The constants as the provers need them one by one.
LEMMA Constants ==
    /\ IdleTTL \in Nat /\ IdleTTL > 0 /\ MaxTTL \in Nat /\ Leeway \in Nat
    /\ MaxTTL > 0 => IdleTTL <= MaxTTL
    /\ MaxSessions \in Nat /\ MaxStates \in Nat
    /\ \A seq \in LoginSequences : seq \in Seq(Provider) /\ seq # <<>>
BY SessionsAssumption

\* The fields of a session, whose record type the provers need not open again.
LEMMA SessionFields ==
    ASSUME NEW s \in Session
    PROVE  /\ s.id \in ID /\ s.created \in Nat /\ s.exp \in Nat
           /\ s.user \in {"", "alice"} /\ s.toks \subseteq Provider
           /\ s.seq \in Seq(Provider) /\ s.state \in State
BY DEF Session

\* The sessions that the code makes out of nothing.
LEMMA MadeSessions ==
    ASSUME now \in Nat, used \in Nat, used < MaxSessions, NEW n \in State, NEW seq \in Seq(Provider)
    PROVE  /\ NewSession \in Session
           /\ [NewSession EXCEPT !.seq = seq, !.state = n] \in Session
<1>1. used + 1 \in ID /\ 0 \in State
  BY Constants DEF ID, State
<1>2. FirstExpiry(now, IdleTTL, MaxTTL) \in Nat
  BY Constants DEF FirstExpiry
<1>3. <<>> \in Seq(Provider)
  OBVIOUS
<1>4. QED
  BY <1>1, <1>2, <1>3 DEF NewSession, NoSession, Session

\* The two that have no ID.
LEMMA SessionsWithoutID ==
    /\ NoSession \in Session
    /\ now \in Nat => Ephemeral \in Session
<1>1. NoID \in ID /\ 0 \in State /\ ZeroTime \in Nat
  BY Constants DEF ID, State, NoID, ZeroTime
<1>2. <<>> \in Seq(Provider)
  OBVIOUS
<1>3. QED
  BY <1>1, <1>2 DEF NoSession, Ephemeral, Session

\* Touch moves the expiry of a session and changes nothing else of it.
LEMMA TouchType ==
    ASSUME now \in Nat, NEW s \in Session
    PROVE  /\ Touch(s) \in Session
           /\ Touch(s).id = s.id /\ Touch(s).created = s.created /\ Touch(s).user = s.user
           /\ Touch(s).toks = s.toks /\ Touch(s).seq = s.seq /\ Touch(s).state = s.state
           /\ Touch(s).exp = Touched(now, s.created, IdleTTL, MaxTTL)
<1>1. s.created \in Nat
  BY SessionFields
<1>2. IdleTTL \in Nat \ {0} /\ MaxTTL \in Nat
  BY Constants
<1>3. Touched(now, s.created, IdleTTL, MaxTTL) \in Nat
  BY <1>1, <1>2 DEF Touched
<1>4. QED
  BY <1>3 DEF Touch, Session

\* What a lookup returns is the session in the context, one read from Redis and
\* touched, or the one of the header.
LEMMA GetCases ==
    ASSUME NEW p, Found(p)
    PROVE  \/ InContext(p) /\ Get(p) = ctx[p]
           \/ ~InContext(p) /\ ByHeader(p) /\ Get(p) = Ephemeral
           \/ ~InContext(p) /\ ~ByHeader(p) /\ InStore(p) /\ Get(p) = Touch(db[cookie[p]].val)
BY DEF Found, Get

LEMMA GetType ==
    ASSUME TypeOK, NEW p \in Request, Found(p)
    PROVE  Get(p) \in Session
<1>1. ctx[p] \in Session /\ db[cookie[p]].val \in Session /\ now \in Nat
  BY DEF TypeOK
<1>2. QED
  BY <1>1, GetCases, TouchType, SessionsWithoutID

\* The session after an exchange: the rest of the sequence, and what the token
\* callback adds if it runs.
LEMMA ExchangedType ==
    ASSUME NEW s \in Session, s.seq # <<>>
    PROVE  /\ [s EXCEPT !.seq = Tail(@)] \in Session
           /\ [LoggedIn(s) EXCEPT !.seq = Tail(@)] \in Session
<1>1. s.seq \in Seq(Provider)
  BY SessionFields
<1>2. 0 \in State
  BY Constants DEF State
<1>3. Head(s.seq) \in Provider /\ Tail(s.seq) \in Seq(Provider)
  BY <1>1
<1>4. [s EXCEPT !.seq = Tail(@)] \in Session
  BY <1>3 DEF Session
<1>5. LoggedIn(s) \in Session /\ LoggedIn(s).seq = s.seq
  BY <1>2, <1>3 DEF Session, LoggedIn
<1>6. [LoggedIn(s) EXCEPT !.seq = Tail(@)] \in Session
  BY <1>3, <1>5 DEF Session
<1>7. QED
  BY <1>4, <1>6

\* The Redis commands keep an entry an entry.
LEMMA EntryTypes ==
    ASSUME NEW e \in [val : Session, ttl : Nat], NEW s \in Session, NEW at \in Nat, NEW t \in Nat
    PROVE  /\ Absent(NoSession) \in [val : Session, ttl : Nat]
           /\ HSet(e, s) \in [val : Session, ttl : Nat]
           /\ ExpireAt(e, NoSession, at, t) \in [val : Session, ttl : Nat]
           /\ Evict(e, NoSession, t) \in [val : Session, ttl : Nat]
<1>1. Absent(NoSession) \in [val : Session, ttl : Nat]
  BY SessionsWithoutID DEF Absent, NoTTL
<1>2. QED
  BY <1>1 DEF HSet, ExpireAt, Evict

\* The gateway starts with the right types.
LEMMA InitTypes == Init => TypeInv
<1>1. SUFFICES ASSUME Init PROVE TypeInv
  OBVIOUS
<1>2. /\ 0 \in ID /\ 0 \in State /\ NoSession \in Session
      /\ Absent(NoSession) \in [val : Session, ttl : Nat]
  BY Constants, SessionsWithoutID DEF ID, State, Absent, NoTTL
<1>3. NoReply \in [cookie : ID \cup {Keep}, state : State]
  BY <1>2 DEF NoReply
<1>4. TypeOK
  BY <1>1, <1>2, <1>3 DEF Init, TypeOK, Start, NoID
<1>5. ProviderDue
  BY <1>1 DEF Init, ProviderDue
<1>6. QED
  BY <1>4, <1>5 DEF TypeInv

\* The context of a request holds a session.
LEMMA SetContextType ==
    ASSUME TypeOK, NEW p \in Request, NEW s \in Session, SetContext(p, s)
    PROVE  loaded' \in [Request -> BOOLEAN] /\ ctx' \in [Request -> Session]
<1>1. loaded' \in [Request -> BOOLEAN]
  BY DEF SetContext, TypeOK
<1>2. ctx' \in [Request -> Session]
  BY DEF SetContext, TypeOK
<1>3. QED
  BY <1>1, <1>2

\* Every step keeps the types of the variables.
LEMMA LoadTypes ==
    ASSUME TypeInv, NEW p \in Request,
           \/ \E k \in {"proxy", "ensure", "login", "logout"}, b \in BOOLEAN : Send(p, k, b, 0)
           \/ \E s \in State : Send(p, "callback", FALSE, s)
           \/ Load(p) \/ LoadFails(p)
    PROVE  TypeInv'
<1>1. CASE \E k \in {"proxy", "ensure", "login", "logout", "callback"}, b \in BOOLEAN, s \in State :
              Send(p, k, b, s)
  <2>1. PICK k \in {"proxy", "ensure", "login", "logout", "callback"}, b \in BOOLEAN, s \in State :
           Send(p, k, b, s)
    BY <1>1
  <2>2. 0 \in State
    BY Constants DEF State
  <2>3. TypeOK'
    BY <2>1, <2>2 DEF Send, Goto, TypeInv, TypeOK, counters, work, saving, history
  <2>4. ProviderDue'
    BY <2>1 DEF Send, Goto, TypeInv, TypeOK, ProviderDue, work
  <2>5. QED
    BY <2>3, <2>4 DEF TypeInv
<1>2. CASE Load(p) \/ LoadFails(p)
  <2>1. Found(p) => Get(p) \in Session
    BY GetType DEF TypeInv
  <2>2. loaded' \in [Request -> BOOLEAN] /\ ctx' \in [Request -> Session]
    <3>1. CASE Found(p) /\ SetContext(p, Get(p))
      BY <2>1, <3>1, SetContextType DEF TypeInv
    <3>2. CASE UNCHANGED <<loaded, ctx>>
      BY <3>2 DEF TypeInv, TypeOK
    <3>3. QED
      BY <1>2, <3>1, <3>2 DEF Load, LoadFails
  <2>a. TypeOK'
    BY <1>2, <2>2 DEF Load, LoadFails, Goto, TypeInv, TypeOK, counters, browser,
                      input, work, saving, history
  <2>3. ProviderDue'
    BY <1>2 DEF Load, LoadFails, Goto, TypeInv, TypeOK, ProviderDue, work
  <2>4. QED
    BY <2>a, <2>3 DEF TypeInv
<1>3. 0 \in State
  BY Constants DEF State
<1>4. QED
  BY <1>1, <1>2, <1>3

\* Control goes to a save, or on from one, and nothing is taken into an exchange.
LEMMA StartSaveTypes ==
    ASSUME TypeInv, NEW p \in Request, NEW b \in BOOLEAN, StartSave(p, b)
    PROVE  /\ final' \in [Request -> BOOLEAN] /\ out' = out
           /\ pc' = [pc EXCEPT ![p] = "save"]
           /\ pc' \in [Request -> {"idle", "load", "handle", "exchange", "save",
                                   "hset", "expire", "end"}]
<1>1. final' \in [Request -> BOOLEAN]
  BY DEF StartSave, TypeInv, TypeOK
<1>2. QED
  BY <1>1 DEF StartSave, Goto, TypeInv, TypeOK

\* A request that is at its save is in no exchange, and takes no other into one.
LEMMA LeavesExchange ==
    ASSUME TypeInv, NEW p \in Request, NEW label, label # "exchange",
           pc' = [pc EXCEPT ![p] = label], \A q \in Request \ {p} : mem'[q] = mem[q]
    PROVE  ProviderDue'
BY DEF TypeInv, TypeOK, ProviderDue

\* The session without the provider that was due.
Rest(s) == [s EXCEPT !.seq = Tail(@)]

\* A callback that is rejected leaves the context, or shortens the sequence of
\* the session in it.
LEMMA RejectedContext ==
    ASSUME TypeOK, NEW p \in Request, CallbackRejected(p)
    PROVE  ctx' = ctx \/ (ctx[p].seq # <<>> /\ ctx' = [ctx EXCEPT ![p] = Rest(ctx[p])])
<1>1. CASE UNCHANGED ctx
  BY <1>1
<1>2. CASE /\ Found(p) /\ Accepted(p, Get(p)) /\ InContext(p)
           /\ ctx' = [ctx EXCEPT ![p].seq = Tail(@)]
  <2>1. Get(p) = ctx[p]
    BY <1>2 DEF Get
  <2>2. ctx[p].seq # <<>>
    BY <1>2, <2>1 DEF Accepted
  <2>3. QED
    BY <1>2, <2>2 DEF Rest
<1>3. QED
  BY <1>1, <1>2 DEF CallbackRejected

\* The handlers that neither begin nor continue a login.
LEMMA HandlerTypes ==
    ASSUME TypeInv, NEW p \in Request,
           Proxy(p) \/ Ensure(p) \/ CallbackRejected(p) \/ Logout(p)
    PROVE  TypeInv'
<1>1. PICK b \in BOOLEAN : StartSave(p, b)
  BY DEF Proxy, Ensure, CallbackRejected, Logout
<1>2. UNCHANGED <<now, nonce, issuer, spent, browser, input, work, flows, authed, cut>>
  BY DEF Proxy, Ensure, CallbackRejected, Logout, counters, history
<1>3. ProviderDue'
  BY <1>1, <1>2, StartSaveTypes, LeavesExchange DEF work
<1>4. /\ used' \in ID /\ loaded' \in [Request -> BOOLEAN] /\ ctx' \in [Request -> Session]
      /\ reply' \in [Request -> [cookie : ID \cup {Keep}, state : State]]
  <2>1. CASE UNCHANGED <<used, loaded, ctx, reply>>
    BY <2>1 DEF TypeInv, TypeOK
  <2>2. CASE Create(p, NewSession) /\ reply' = [reply EXCEPT ![p].cookie = used + 1]
    <3>1. now \in Nat /\ used \in Nat /\ used + 1 \in ID
      BY <2>2, Constants DEF Create, TypeInv, TypeOK, ID
    <3>2. 0 \in State /\ <<>> \in Seq(Provider)
      BY Constants DEF State
    <3>3. NewSession \in Session
      BY <2>2, <3>1, <3>2, MadeSessions DEF Create
    <3>4. loaded' \in [Request -> BOOLEAN] /\ ctx' \in [Request -> Session]
      BY <2>2, <3>3, SetContextType DEF Create, TypeInv
    <3>5. QED
      BY <2>2, <3>1, <3>4 DEF Create, TypeInv, TypeOK
  <2>3. CASE UNCHANGED used /\ Delete(p)
    <3>1. NoID \in ID
      BY Constants DEF ID, NoID
    <3>2. loaded' \in [Request -> BOOLEAN] /\ ctx' \in [Request -> Session]
      BY <2>3, SessionsWithoutID, SetContextType DEF Delete, TypeInv
    <3>3. QED
      BY <2>3, <3>1, <3>2 DEF Delete, TypeInv, TypeOK
  <2>4. CASE /\ ctx[p].seq # <<>> /\ ctx' = [ctx EXCEPT ![p] = Rest(ctx[p])]
             /\ UNCHANGED <<used, loaded, reply>>
    <3>1. ctx[p] \in Session /\ Rest(ctx[p]) \in Session
      BY <2>4, ExchangedType DEF TypeInv, TypeOK, Rest
    <3>2. QED
      BY <2>4, <3>1 DEF TypeInv, TypeOK
  <2>5. CASE CallbackRejected(p)
    BY <2>1, <2>4, <2>5, RejectedContext DEF CallbackRejected, TypeInv, counters
  <2>6. QED
    BY <2>1, <2>2, <2>3, <2>5 DEF Proxy, Ensure, Logout, counters
<1>5. db' \in [ID -> [val : Session, ttl : Nat]] /\ loggedOut' \subseteq ID
  <2>1. CASE UNCHANGED <<db, loggedOut>>
    BY <2>1 DEF TypeInv, TypeOK
  <2>2. CASE /\ db' = [db EXCEPT ![cookie[p]] = Absent(NoSession)]
             /\ loggedOut' = loggedOut \cup {cookie[p]}
    <3>1. Absent(NoSession) \in [val : Session, ttl : Nat]
      BY SessionsWithoutID DEF Absent, NoTTL
    <3>2. QED
      BY <2>2, <3>1 DEF TypeInv, TypeOK
  <2>3. QED
    BY <2>1, <2>2 DEF Proxy, Ensure, CallbackRejected, Logout, Delete, history
<1>6. TypeOK'
  <2>1. /\ final' \in [Request -> BOOLEAN] /\ out' = out
        /\ pc' \in [Request -> {"idle", "load", "handle", "exchange", "save",
                                "hset", "expire", "end"}]
    BY <1>1, StartSaveTypes
  <2>2. QED
    BY <1>2, <1>4, <1>5, <2>1 DEF TypeInv, TypeOK, browser, input, work
<1>7. QED
  BY <1>3, <1>6 DEF TypeInv

\* A new login state has a number of its own and a provider that made it.
LEMMA NewStateType ==
    ASSUME TypeOK, NEW seq \in Seq(Provider), seq # <<>>, NewState(seq)
    PROVE  /\ nonce' = nonce + 1 /\ nonce + 1 \in State
           /\ issuer' = [issuer EXCEPT ![nonce + 1] = Head(seq)]
           /\ issuer' \in [State -> Provider \cup {"none"}]
<1>1. Head(seq) \in Provider
  OBVIOUS
<1>2. nonce \in Nat /\ MaxStates \in Nat /\ nonce <= MaxStates /\ nonce # MaxStates
  BY Constants DEF NewState, NoMoreStates, TypeOK, State
<1>3. nonce + 1 \in State
  BY <1>2 DEF State
<1>4. nonce' = nonce + 1 /\ issuer' = [issuer EXCEPT ![nonce + 1] = Head(seq)]
  BY DEF NewState
<1>5. issuer' \in [State -> Provider \cup {"none"}]
  BY <1>1, <1>4 DEF TypeOK
<1>6. QED
  BY <1>3, <1>4, <1>5

\* A login makes a session and, unless the states are used up, a state.
LEMMA LoginMade ==
    ASSUME TypeOK, NEW p \in Request, Login(p) \/ (LoginFails(p) /\ ~UNCHANGED counters)
    PROVE  \E seq \in LoginSequences, n \in State :
              /\ Create(p, Begun(seq, n))
              /\ \/ n = 0 /\ UNCHANGED <<nonce, issuer>>
                 \/ n = nonce + 1 /\ NewState(seq)
<1>1. 0 \in State
  BY Constants DEF State
<1>2. ASSUME NEW seq \in LoginSequences, NewState(seq)
      PROVE  nonce + 1 \in State
  BY <1>2, NewStateType, Constants
<1>3. QED
  BY <1>1, <1>2 DEF Login, LoginFails

\* The login server: a login makes a session and takes a state for it.
LEMMA LoginTypes ==
    ASSUME TypeInv, NEW p \in Request, Login(p) \/ LoginFails(p)
    PROVE  TypeInv'
<1>1. PICK b \in BOOLEAN : StartSave(p, b)
  BY DEF Login, LoginFails
<1>2. UNCHANGED <<now, db, spent, browser, input, work, authed, loggedOut, cut>>
  BY DEF Login, LoginFails, history
<1>3. ProviderDue'
  BY <1>1, <1>2, StartSaveTypes, LeavesExchange DEF work
<1> DEFINE Typed ==
        /\ used' \in ID /\ nonce' \in State /\ issuer' \in [State -> Provider \cup {"none"}]
        /\ loaded' \in [Request -> BOOLEAN] /\ ctx' \in [Request -> Session]
        /\ reply' \in [Request -> [cookie : ID \cup {Keep}, state : State]] /\ flows' \subseteq ID
<1>4. ASSUME Login(p) \/ (LoginFails(p) /\ ~UNCHANGED counters)
      PROVE  Typed
  <2>1. PICK seq \in LoginSequences, n \in State :
              /\ Create(p, Begun(seq, n))
              /\ \/ n = 0 /\ UNCHANGED <<nonce, issuer>>
                 \/ n = nonce + 1 /\ NewState(seq)
    BY <1>4, LoginMade DEF TypeInv
  <2>2. now \in Nat /\ used \in Nat /\ used < MaxSessions /\ used + 1 \in ID /\ used' = used + 1
    BY <2>1, Constants DEF Create, TypeInv, TypeOK, ID
  <2>3. seq \in Seq(Provider) /\ seq # <<>>
    BY Constants
  <2>4. Begun(seq, n) \in Session
    BY <2>2, <2>3, MadeSessions DEF Begun
  <2>5. loaded' \in [Request -> BOOLEAN] /\ ctx' \in [Request -> Session]
    BY <2>1, <2>4, SetContextType DEF Create, TypeInv
  <2>6. nonce' \in State /\ issuer' \in [State -> Provider \cup {"none"}]
    BY <2>1, <2>3, NewStateType DEF TypeInv, TypeOK
  <2>7. reply' \in [Request -> [cookie : ID \cup {Keep}, state : State]]
    <3>1. \/ reply' = [reply EXCEPT ![p].cookie = used + 1]
          \/ /\ nonce' = nonce + 1
             /\ reply' = [reply EXCEPT ![p] = [cookie |-> used + 1, state |-> nonce + 1]]
      BY <1>4 DEF Login, LoginFails, NewState
    <3>2. used + 1 \in ID \cup {Keep} /\ (nonce' = nonce + 1 => nonce + 1 \in State)
      BY <2>2, <2>6
    <3>3. reply \in [Request -> [cookie : ID \cup {Keep}, state : State]]
      BY DEF TypeInv, TypeOK
    <3>4. CASE reply' = [reply EXCEPT ![p].cookie = used + 1]
      BY <3>2, <3>3, <3>4
    <3>5. CASE /\ nonce' = nonce + 1
               /\ reply' = [reply EXCEPT ![p] = [cookie |-> used + 1, state |-> nonce + 1]]
      BY <3>2, <3>3, <3>5
    <3>6. QED
      BY <3>1, <3>4, <3>5
  <2>8. flows' \subseteq ID
    BY <1>4, <2>2 DEF Login, LoginFails, history, TypeInv, TypeOK
  <2>9. QED
    BY <2>2, <2>5, <2>6, <2>7, <2>8
<1>5. ASSUME LoginFails(p), UNCHANGED counters
      PROVE  Typed
  <2>1. used' = used /\ ~(\E s : Create(p, s))
    <3>1. used \in Nat
      BY Constants DEF TypeInv, TypeOK, ID
    <3>2. QED
      BY <1>5, <3>1 DEF Create, counters
  <2>2. UNCHANGED <<counters, loaded, ctx, reply, flows>>
    BY <1>5, <2>1 DEF LoginFails, history
  <2>3. QED
    BY <2>2 DEF counters, TypeInv, TypeOK
<1>6. Typed
  BY <1>4, <1>5
<1>7. TypeOK'
  <2>1. /\ final' \in [Request -> BOOLEAN] /\ out' = out
        /\ pc' \in [Request -> {"idle", "load", "handle", "exchange", "save",
                                "hset", "expire", "end"}]
    BY <1>1, StartSaveTypes
  <2>2. QED
    BY <1>2, <1>6, <2>1 DEF TypeInv, TypeOK, browser, input, work
<1>8. QED
  BY <1>3, <1>7 DEF TypeInv

LEMMA CallbackTypes ==
    ASSUME TypeInv, NEW p \in Request, Callback(p)
    PROVE  TypeInv'
<1>1. Get(p) \in Session /\ Get(p).seq # <<>>
  BY GetType DEF Callback, Accepted, TypeInv
<1>2. mem' = [mem EXCEPT ![p] = Get(p)] /\ pc' = [pc EXCEPT ![p] = "exchange"]
  BY DEF Callback, Goto
<1>3. TypeOK'
  <2>1. mem' \in [Request -> Session]
    BY <1>1, <1>2 DEF TypeInv, TypeOK
  <2>2. alias' \in [Request -> BOOLEAN]
    BY DEF Callback, InContext, TypeInv, TypeOK
  <2>3. QED
    BY <1>2, <2>1, <2>2
    DEF Callback, TypeInv, TypeOK, counters, browser, input, saving, history
<1>4. ProviderDue'
  BY <1>1, <1>2 DEF TypeInv, TypeOK, ProviderDue
<1>5. QED
  BY <1>3, <1>4 DEF TypeInv

\* After an exchange the session stays as it is, or it gets a new state for the
\* provider that comes next.  Only then does the response carry a state, and
\* only then is a save of the handler followed by that of the middleware.
LEMMA NextAuthStepCases ==
    ASSUME TypeOK, NEW p \in Request, NEW s, NEW b \in BOOLEAN, NextAuthStep(p, s, b)
    PROVE  /\ UNCHANGED <<now, db, used, browser, input, loaded, flows, loggedOut, cut>>
           /\ mem' = [mem EXCEPT ![p] = NoSession] /\ alias' = [alias EXCEPT ![p] = FALSE]
           /\ \/ /\ ctx' = IF alias[p] THEN [ctx EXCEPT ![p] = s] ELSE ctx
                 /\ UNCHANGED <<nonce, issuer, reply>>
                 /\ StartSave(p, s.seq # <<>>)
              \/ /\ s.seq # <<>> /\ NewState(s.seq)
                 /\ ctx' = IF alias[p] THEN [ctx EXCEPT ![p] = [s EXCEPT !.state = nonce + 1]]
                                       ELSE ctx
                 /\ \/ reply' = reply /\ \E final1 \in BOOLEAN : StartSave(p, final1)
                    \/ b /\ reply' = [reply EXCEPT ![p].state = nonce + 1] /\ StartSave(p, FALSE)
<1>1. UNCHANGED <<now, db, used, browser, input, loaded, flows, loggedOut, cut>>
  BY DEF NextAuthStep
<1>2. mem' = [mem EXCEPT ![p] = NoSession] /\ alias' = [alias EXCEPT ![p] = FALSE]
  BY DEF NextAuthStep
<1>3. CASE s.seq = <<>>
  <2>1. /\ ctx' = IF alias[p] THEN [ctx EXCEPT ![p] = s] ELSE ctx
        /\ UNCHANGED <<nonce, issuer, reply>> /\ StartSave(p, FALSE)
    BY <1>3 DEF NextAuthStep
  <2>2. (s.seq # <<>>) = FALSE
    BY <1>3
  <2>3. StartSave(p, s.seq # <<>>)
    BY <2>1, <2>2
  <2>4. QED
    BY <1>1, <1>2, <2>1, <2>3
<1>4. CASE s.seq # <<>> /\ NoMoreStates
  <2>1. /\ ctx' = IF alias[p] THEN [ctx EXCEPT ![p] = s] ELSE ctx
        /\ UNCHANGED <<nonce, issuer, reply>> /\ StartSave(p, TRUE)
    BY <1>4 DEF NextAuthStep, NewState
  <2>2. (s.seq # <<>>) = TRUE
    BY <1>4
  <2>3. StartSave(p, s.seq # <<>>)
    BY <2>1, <2>2
  <2>4. QED
    BY <1>1, <1>2, <2>1, <2>3
<1>5. CASE s.seq # <<>> /\ ~NoMoreStates
  <2>1. /\ NewState(s.seq)
        /\ ctx' = IF alias[p] THEN [ctx EXCEPT ![p] = [s EXCEPT !.state = nonce + 1]] ELSE ctx
        /\ \/ StartSave(p, FALSE) /\ reply' = IF b THEN [reply EXCEPT ![p].state = nonce + 1]
                                                  ELSE reply
           \/ StartSave(p, TRUE) /\ reply' = reply
    BY <1>5 DEF NextAuthStep
  <2>2. QED
    BY <1>1, <1>2, <1>5, <2>1
<1>6. QED
  BY <1>3, <1>4, <1>5

\* Every way out of an exchange keeps the types.
LEMMA NextAuthStepTypes ==
    ASSUME TypeInv, NEW p \in Request, NEW b \in BOOLEAN, NEW s \in Session,
           NextAuthStep(p, s, b), spent' \subseteq State, authed' \subseteq ID
    PROVE  TypeInv'
<1> DEFINE Replies == [Request -> [cookie : ID \cup {Keep}, state : State]]
<1>1. /\ UNCHANGED <<now, db, used, browser, input, loaded, flows, loggedOut, cut>>
      /\ mem' = [mem EXCEPT ![p] = NoSession] /\ alias' = [alias EXCEPT ![p] = FALSE]
      /\ \E final1 \in BOOLEAN : StartSave(p, final1)
  BY NextAuthStepCases DEF TypeInv
<1>2. ProviderDue'
  <2>1. pc' = [pc EXCEPT ![p] = "save"]
    BY <1>1, StartSaveTypes
  <2>2. \A q \in Request \ {p} : mem'[q] = mem[q]
    BY <1>1 DEF TypeInv, TypeOK
  <2>3. QED
    BY <2>1, <2>2, LeavesExchange
<1>3. /\ ctx' \in [Request -> Session] /\ nonce' \in State
      /\ issuer' \in [State -> Provider \cup {"none"}] /\ reply' \in Replies
  <2>1. CASE /\ ctx' = IF alias[p] THEN [ctx EXCEPT ![p] = s] ELSE ctx
             /\ UNCHANGED <<nonce, issuer, reply>>
    BY <2>1 DEF TypeInv, TypeOK
  <2>2. CASE /\ s.seq # <<>> /\ NewState(s.seq)
             /\ ctx' = IF alias[p] THEN [ctx EXCEPT ![p] = [s EXCEPT !.state = nonce + 1]] ELSE ctx
             /\ reply' = reply \/ reply' = [reply EXCEPT ![p].state = nonce + 1]
    <3>1. s.seq \in Seq(Provider)
      BY SessionFields
    <3>2. /\ nonce' = nonce + 1 /\ nonce + 1 \in State
          /\ issuer' \in [State -> Provider \cup {"none"}]
      BY <2>2, <3>1, NewStateType DEF TypeInv
    <3>3. [s EXCEPT !.state = nonce + 1] \in Session
      BY <3>2 DEF Session
    <3>4. ctx' \in [Request -> Session]
      BY <2>2, <3>3 DEF TypeInv, TypeOK
    <3>5. reply' \in Replies
      <4>1. reply \in Replies
        BY DEF TypeInv, TypeOK
      <4>2. QED
        BY <2>2, <3>2, <4>1
    <3>6. QED
      BY <3>2, <3>4, <3>5
  <2>3. \/ /\ ctx' = IF alias[p] THEN [ctx EXCEPT ![p] = s] ELSE ctx
           /\ UNCHANGED <<nonce, issuer, reply>>
        \/ /\ s.seq # <<>> /\ NewState(s.seq)
           /\ ctx' = IF alias[p] THEN [ctx EXCEPT ![p] = [s EXCEPT !.state = nonce + 1]] ELSE ctx
           /\ reply' = reply \/ reply' = [reply EXCEPT ![p].state = nonce + 1]
    BY DEF NextAuthStep
  <2>4. QED
    BY <2>1, <2>2, <2>3
<1>4. mem' \in [Request -> Session] /\ alias' \in [Request -> BOOLEAN]
  BY <1>1, SessionsWithoutID DEF TypeInv, TypeOK
<1>5. TypeOK'
  <2>1. /\ final' \in [Request -> BOOLEAN] /\ out' = out
        /\ pc' \in [Request -> {"idle", "load", "handle", "exchange", "save",
                                "hset", "expire", "end"}]
    BY <1>1, StartSaveTypes
  <2>2. QED
    BY <1>1, <1>3, <1>4, <2>1 DEF TypeInv, TypeOK, browser, input
<1>6. QED
  BY <1>2, <1>5 DEF TypeInv

LEMMA ExchangeTypes ==
    ASSUME TypeInv, NEW p \in Request,
           \/ \E stored \in BOOLEAN : Exchange(p, stored)
           \/ ExchangeFails(p)
    PROVE  TypeInv'
<1>1. mem[p] \in Session /\ pc[p] = "exchange" /\ mem[p].seq # <<>>
  BY DEF Exchange, ExchangeFails, TypeInv, TypeOK, ProviderDue
<1>2. mem[p].id \in ID /\ cb[p] \in State
  BY <1>1, SessionFields DEF TypeInv, TypeOK
<1>3. spent' \subseteq State /\ authed' \subseteq ID
  BY <1>2 DEF Exchange, ExchangeFails, TypeInv, TypeOK
<1>4. /\ [mem[p] EXCEPT !.seq = Tail(@)] \in Session
      /\ [LoggedIn(mem[p]) EXCEPT !.seq = Tail(@)] \in Session
  BY <1>1, ExchangedType
<1>5. QED
  BY <1>3, <1>4, NextAuthStepTypes DEF Exchange, ExchangeFails

\* The saves.
LEMMA AfterSaveTypes ==
    ASSUME TypeInv, NEW p \in Request, AfterSave(p)
    PROVE  /\ final' \in [Request -> BOOLEAN] /\ out' = out
           /\ \E label \in {"save", "end"} : pc' = [pc EXCEPT ![p] = label]
<1>1. CASE final[p]
  BY <1>1 DEF AfterSave, Goto, saving, TypeInv, TypeOK
<1>2. CASE ~final[p]
  <2>1. StartSave(p, TRUE)
    BY <1>2 DEF AfterSave
  <2>2. QED
    BY <2>1, StartSaveTypes
<1>3. QED
  BY <1>1, <1>2

LEMMA SavingTypes ==
    ASSUME TypeInv, NEW p \in Request, Saving(p) \/ SaveFails(p)
    PROVE  TypeInv'
<1>1. UNCHANGED <<now, counters, spent, browser, input, loaded, ctx, work, reply, flows, authed, loggedOut>>
  BY DEF Saving, Save, WriteHash, WriteTTL, SaveFails, history
<1>2. PICK label \in {"save", "end", "hset", "expire"} : pc' = [pc EXCEPT ![p] = label]
  BY AfterSaveTypes DEF Saving, Save, WriteHash, WriteTTL, SaveFails, Goto
<1>3. out' \in [Request -> Session] /\ final' \in [Request -> BOOLEAN]
  <2>1. CASE AfterSave(p)
    BY <2>1, AfterSaveTypes DEF TypeInv, TypeOK
  <2>2. CASE UNCHANGED saving
    BY <2>2 DEF TypeInv, TypeOK, saving
  <2>3. CASE Found(p) /\ out' = [out EXCEPT ![p] = Get(p)] /\ UNCHANGED final
    BY <2>3, GetType DEF TypeInv, TypeOK
  <2>4. QED
    BY <2>1, <2>2, <2>3 DEF Saving, Save, WriteHash, WriteTTL, SaveFails
<1>4. out[p] \in Session /\ out[p].id \in ID /\ out[p].exp \in Nat
  <2>1. out[p] \in Session
    BY DEF TypeInv, TypeOK
  <2>2. QED
    BY <2>1, SessionFields
<1>5. db' \in [ID -> [val : Session, ttl : Nat]]
  <2>1. db[out[p].id] \in [val : Session, ttl : Nat]
    BY <1>4 DEF TypeInv, TypeOK
  <2>2. out[p].exp + Leeway \in Nat /\ now \in Nat
    BY <1>4, Constants DEF TypeInv, TypeOK
  <2>3. CASE UNCHANGED db
    BY <2>3 DEF TypeInv, TypeOK
  <2>4. CASE db' = [db EXCEPT ![out[p].id] = HSet(@, out[p])]
    <3>1. HSet(db[out[p].id], out[p]) \in [val : Session, ttl : Nat]
      BY <1>4, <2>1 DEF HSet
    <3>2. QED
      BY <1>4, <2>4, <3>1 DEF TypeInv, TypeOK
  <2>5. CASE db' = [db EXCEPT ![out[p].id] = ExpireAt(@, NoSession, out[p].exp + Leeway, now)]
    <3>1. ExpireAt(db[out[p].id], NoSession, out[p].exp + Leeway, now) \in [val : Session, ttl : Nat]
      BY <1>4, <2>1, <2>2, EntryTypes
    <3>2. QED
      BY <1>4, <2>5, <3>1 DEF TypeInv, TypeOK
  <2>6. QED
    BY <2>3, <2>4, <2>5 DEF Saving, Save, WriteHash, WriteTTL, SaveFails
<1>6. cut' \subseteq ID
  BY <1>4 DEF Saving, Save, WriteHash, WriteTTL, SaveFails, CutBy, history, TypeInv, TypeOK
<1>7. TypeOK'
  BY <1>1, <1>2, <1>3, <1>5, <1>6 DEF TypeInv, TypeOK, counters, browser, input, work
<1>8. ProviderDue'
  BY <1>1, <1>2, LeavesExchange DEF work
<1>9. QED
  BY <1>7, <1>8 DEF TypeInv

\* The ends of a request.
LEMMA EndTypes ==
    ASSUME TypeInv, NEW p \in Request, Respond(p) \/ ResponseLost(p) \/ Crash(p)
    PROVE  TypeInv'
<1>1. Forget(p)
  BY DEF Respond, ResponseLost, Crash
<1>2. /\ NoID \in ID /\ 0 \in State /\ NoSession \in Session
      /\ NoReply \in [cookie : ID \cup {Keep}, state : State]
  BY Constants, SessionsWithoutID DEF ID, State, NoID, NoReply
<1>3. reply[p].cookie \in ID \cup {Keep} /\ reply[p].state \in State
  BY DEF TypeInv, TypeOK
<1>4. jar' \in ID /\ known' \subseteq State /\ pending' \in State
  BY <1>3 DEF Respond, ResponseLost, Crash, browser, TypeInv, TypeOK
<1>5. out[p].id \in ID
  <2>1. out[p] \in Session
    BY DEF TypeInv, TypeOK
  <2>2. QED
    BY <2>1, SessionFields
<1>6. cut' \subseteq ID
  BY <1>5 DEF Respond, ResponseLost, Crash, CutBy, TypeInv, TypeOK
<1>7. /\ bearer' \in [Request -> BOOLEAN] /\ loaded' \in [Request -> BOOLEAN]
      /\ alias' \in [Request -> BOOLEAN] /\ final' \in [Request -> BOOLEAN]
  BY <1>1 DEF Forget, TypeInv, TypeOK
<1>8. TypeOK'
  BY <1>1, <1>2, <1>4, <1>6, <1>7 DEF Forget, Goto, TypeInv, TypeOK, counters
<1>9. ProviderDue'
  BY <1>1, LeavesExchange DEF Forget, Goto, TypeInv, TypeOK
<1>10. QED
  BY <1>8, <1>9 DEF TypeInv

LEMMA TickTypes ==
    ASSUME TypeInv, Tick
    PROVE  TypeInv'
<1>1. now' \in Nat /\ now + 1 \in Nat
  BY DEF Tick, TypeInv, TypeOK
<1>2. \A k \in ID : Evict(db[k], NoSession, now + 1) \in [val : Session, ttl : Nat]
  <2>1. Absent(NoSession) \in [val : Session, ttl : Nat]
    BY SessionsWithoutID DEF Absent, NoTTL
  <2>2. QED
    BY <2>1 DEF Evict, TypeInv, TypeOK
<1>3. db' \in [ID -> [val : Session, ttl : Nat]]
  BY <1>2 DEF Tick
<1>4. TypeOK'
  BY <1>1, <1>3
  DEF Tick, TypeInv, TypeOK, counters, browser, input, work, saving, history
<1>5. ProviderDue'
  BY DEF Tick, TypeInv, ProviderDue, work
<1>6. QED
  BY <1>4, <1>5 DEF TypeInv

\* One step of the gateway is a step of one request, or of the clock.
LEMMA NextTypes == TypeInv /\ [Next]_vars => TypeInv'
<1>1. SUFFICES ASSUME TypeInv, [Next]_vars PROVE TypeInv'
  OBVIOUS
<1>2. ASSUME NEW p \in Request,
             \/ \E k \in {"proxy", "ensure", "login", "logout"}, b \in BOOLEAN : Send(p, k, b, 0)
             \/ \E s \in State : Send(p, "callback", FALSE, s)
             \/ Step(p) \/ LoadFails(p) \/ Exchange(p, FALSE) \/ SaveFails(p)
             \/ ResponseLost(p) \/ Crash(p)
      PROVE  TypeInv'
  BY <1>1, <1>2, LoadTypes, HandlerTypes, LoginTypes, CallbackTypes, ExchangeTypes, SavingTypes,
     EndTypes
  DEF Step, Handle
<1>3. CASE UNCHANGED vars
  BY <1>1, <1>3 DEF vars, TypeInv, TypeOK, ProviderDue, counters, browser, input, work, saving,
                    history
<1>4. QED
  BY <1>1, <1>2, <1>3, TickTypes DEF Next

LEMMA TypesAlways == Spec => []TypeInv
<1>1. QED
  BY InitTypes, NextTypes, PTL DEF Spec

\* The variables keep their types, for any number of requests: IDs and states
\* are not given out beyond the bounds, and a code is exchanged only while a
\* provider is due, so that the head of the sequence exists
\* (login_server_routes.go:65-88).
THEOREM SessionsTypeCorrect == Spec => []TypeOK
<1>1. TypeInv => TypeOK
  BY DEF TypeInv
<1>2. QED
  BY <1>1, TypesAlways, PTL

----------------------------------------------------------------------------
(* What a step makes of the copies                                          *)

\* The sessions that a step makes, if it is none of a login.
Made == {NoSession, Ephemeral, NewSession} \cup {Touch(t) : t \in Copies}
            \cup {Rest(t) : t \in {c \in Copies : c.seq # <<>>}}

\* A copy is a session.
LEMMA CopyType ==
    ASSUME TypeOK, NEW s \in Copies
    PROVE  s \in Session
BY DEF Copies, TypeOK

\* A step changes what one request holds, and what is stored.
LEMMA CopiesAfter ==
    ASSUME TypeOK, NEW p \in Request, NEW S,
           \A k \in ID : db'[k].val \in Copies \cup S,
           ctx' = ctx \/ \E c \in Copies \cup S : ctx' = [ctx EXCEPT ![p] = c],
           mem' = mem \/ \E c \in Copies \cup S : mem' = [mem EXCEPT ![p] = c],
           out' = out \/ \E c \in Copies \cup S : out' = [out EXCEPT ![p] = c]
    PROVE  Copies' \subseteq Copies \cup S
<1>1. ASSUME NEW q \in Request
      PROVE  ctx'[q] \in Copies \cup S /\ mem'[q] \in Copies \cup S /\ out'[q] \in Copies \cup S
  <2>1. ctx[q] \in Copies /\ mem[q] \in Copies /\ out[q] \in Copies
    BY DEF Copies
  <2>2. ctx'[q] \in Copies \cup S
    BY <2>1 DEF TypeOK
  <2>3. mem'[q] \in Copies \cup S
    BY <2>1 DEF TypeOK
  <2>4. out'[q] \in Copies \cup S
    BY <2>1 DEF TypeOK
  <2>5. QED
    BY <2>2, <2>3, <2>4
<1>2. QED
  BY <1>1 DEF Copies

\* States are numbers.
LEMMA StateNumbers ==
    ASSUME TypeOK
    PROVE  /\ nonce \in Nat /\ \A s \in Copies : s.state \in Nat
           /\ \A n \in Told : n \in Nat /\ n # 0
<1>1. State \subseteq Nat
  BY Constants DEF State
<1>2. ASSUME NEW s \in Copies PROVE s.state \in Nat
  BY <1>1, CopyType, SessionFields
<1>3. \A p \in Request : reply[p].state \in State
  BY DEF TypeOK
<1>4. nonce \in State /\ known \subseteq State
  BY DEF TypeOK
<1>5. Told \subseteq State \ {0}
  BY <1>3, <1>4 DEF Told
<1>6. QED
  BY <1>1, <1>2, <1>4, <1>5

\* A lookup gives one of the copies, or makes a session.
LEMMA GetCopy ==
    ASSUME TypeOK, NEW p \in Request, Found(p)
    PROVE  Get(p) \in Copies \cup Made
<1>1. ctx[p] \in Copies /\ db[cookie[p]].val \in Copies
  BY DEF TypeOK, Copies
<1>2. QED
  BY <1>1, GetCases DEF Made

\* Three steps of a request, and the clock, change what Redis has.
LEMMA DbWriters ==
    ASSUME [Next]_vars
    PROVE  \/ UNCHANGED db \/ Tick
           \/ \E p \in Request : Logout(p) \/ WriteHash(p) \/ WriteTTL(p)
<1>1. ASSUME NEW p \in Request,
             Proxy(p) \/ Ensure(p) \/ Login(p) \/ LoginFails(p) \/ Callback(p) \/ CallbackRejected(p)
      PROVE  UNCHANGED db
  BY <1>1 DEF Proxy, Ensure, Login, LoginFails, Callback, CallbackRejected
<1>2. ASSUME NEW p \in Request, ExchangeFails(p) \/ \E b \in BOOLEAN : Exchange(p, b)
      PROVE  UNCHANGED db
  BY <1>2 DEF Exchange, ExchangeFails, NextAuthStep
<1>3. ASSUME NEW p \in Request,
             Load(p) \/ LoadFails(p) \/ Save(p) \/ SaveFails(p) \/ Respond(p) \/ ResponseLost(p) \/ Crash(p)
      PROVE  UNCHANGED db
  BY <1>3 DEF Load, LoadFails, Save, SaveFails, Respond, ResponseLost, Crash, Forget
<1>4. ASSUME NEW p \in Request, NEW k, NEW b, NEW s, Send(p, k, b, s)
      PROVE  UNCHANGED db
  BY <1>4 DEF Send
<1>5. CASE UNCHANGED vars
  BY <1>5 DEF vars
<1>6. QED
  BY <1>1, <1>2, <1>3, <1>4, <1>5 DEF Next, Step, Handle, Saving

\* The Redis commands store a copy or remove one.
LEMMA StoredCopies ==
    ASSUME TypeOK, [Next]_vars
    PROVE  \A k \in ID : \/ db'[k].val = db[k].val
                         \/ db'[k].val = NoSession
                         \/ \E p \in Request : WriteHash(p) /\ k = out[p].id /\ db'[k].val = out[p]
<1>1. ASSUME NEW k \in ID
      PROVE  \/ db'[k].val = db[k].val \/ db'[k].val = NoSession
             \/ \E p \in Request : WriteHash(p) /\ k = out[p].id /\ db'[k].val = out[p]
  <2>1. CASE UNCHANGED db
    BY <2>1
  <2>2. ASSUME NEW p \in Request, Logout(p)
        PROVE  db'[k].val = db[k].val \/ db'[k].val = NoSession
    <3>1. db' = db \/ db' = [db EXCEPT ![cookie[p]] = Absent(NoSession)]
      BY <2>2 DEF Logout, Delete
    <3>2. db \in [ID -> [val : Session, ttl : Nat]] /\ Absent(NoSession).val = NoSession
      BY DEF TypeOK, Absent
    <3>3. QED
      BY <3>1, <3>2
  <2>3. ASSUME NEW p \in Request, WriteHash(p)
        PROVE  db'[k].val = db[k].val \/ (k = out[p].id /\ db'[k].val = out[p])
    <3>1. db' = [db EXCEPT ![out[p].id] = HSet(@, out[p])] /\ db \in [ID -> [val : Session, ttl : Nat]]
      BY <2>3 DEF WriteHash, TypeOK
    <3>2. HSet(db[k], out[p]).val = out[p]
      BY <3>1 DEF HSet
    <3>3. QED
      BY <3>1, <3>2
  <2>4. ASSUME NEW p \in Request, WriteTTL(p)
        PROVE  db'[k].val = db[k].val \/ db'[k].val = NoSession
    <3>1. db' = [db EXCEPT ![out[p].id] = ExpireAt(@, NoSession, out[p].exp + Leeway, now)]
          /\ db \in [ID -> [val : Session, ttl : Nat]]
      BY <2>4 DEF WriteTTL, TypeOK
    <3>2. \A at : ExpireAt(db[k], NoSession, at, now).val \in {db[k].val, NoSession}
      BY <3>1 DEF ExpireAt, Absent
    <3>3. QED
      BY <3>1, <3>2
  <2>5. CASE Tick
    <3>1. db'[k] = Evict(db[k], NoSession, now + 1)
      BY <2>5 DEF Tick
    <3>2. QED
      BY <3>1 DEF Evict, Absent
  <2>6. QED
    BY <2>1, <2>2, <2>3, <2>4, <2>5, DbWriters
<1>2. QED
  BY <1>1

\* So whatever is stored afterwards is a copy now.
LEMMA StoredAfter ==
    ASSUME TypeOK, [Next]_vars
    PROVE  \A k \in ID : db'[k].val \in Copies \cup {NoSession}
<1>1. \A k \in ID : db[k].val \in Copies
  BY DEF Copies
<1>2. \A p \in Request : out[p] \in Copies
  BY DEF Copies
<1>3. QED
  BY <1>1, <1>2, StoredCopies

\* A login begins a session with the new state or, when there is none, without;
\* nextAuthStep likewise gives its session the new state, if there is one.
Beginning(seq) == Begun(seq, IF nonce' = nonce THEN 0 ELSE nonce + 1)

NextOf(s) == IF nonce' = nonce THEN s ELSE [s EXCEPT !.state = nonce + 1]

LEMMA LoginCopies ==
    ASSUME TypeOK, NEW p \in Request, Login(p) \/ LoginFails(p)
    PROVE  Copies' \subseteq Copies \cup {Beginning(seq) : seq \in LoginSequences}
<1> DEFINE S == {Beginning(seq) : seq \in LoginSequences}
<1>1. ctx' = ctx \/ \E c \in S : ctx' = [ctx EXCEPT ![p] = c]
  <2>1. \/ ctx' = ctx
        \/ \E seq \in LoginSequences :
              \/ nonce' = nonce /\ Create(p, Begun(seq, 0))
              \/ nonce' = nonce + 1 /\ Create(p, Begun(seq, nonce + 1))
    BY DEF Login, LoginFails, NewState
  <2>2. nonce + 1 # nonce
    BY StateNumbers
  <2>3. \/ ctx' = ctx
        \/ \E seq \in LoginSequences : Create(p, Beginning(seq))
    BY <2>1, <2>2 DEF Beginning
  <2>4. QED
    BY <2>3 DEF Create, SetContext
<1>2. db' = db /\ mem' = mem /\ out' = out
  BY DEF Login, LoginFails, StartSave, work
<1>3. \A k \in ID : db'[k].val \in Copies
  BY <1>2 DEF Copies
<1> HIDE DEF S
<1>4. Copies' \subseteq Copies \cup S
  BY <1>1, <1>2, <1>3, CopiesAfter
<1>5. QED
  BY <1>4 DEF S

LEMMA NextAuthStepCopies ==
    ASSUME TypeOK, NEW p \in Request, NEW s, NEW b \in BOOLEAN, NextAuthStep(p, s, b)
    PROVE  Copies' \subseteq Copies \cup {NoSession, NextOf(s)}
<1> DEFINE S == {NoSession, NextOf(s)}
<1>1. ctx' = ctx \/ ctx' = [ctx EXCEPT ![p] = NextOf(s)]
  <2>1. \/ nonce' = nonce /\ (ctx' = ctx \/ ctx' = [ctx EXCEPT ![p] = s])
        \/ /\ nonce' = nonce + 1
           /\ ctx' = ctx \/ ctx' = [ctx EXCEPT ![p] = [s EXCEPT !.state = nonce + 1]]
    BY DEF NextAuthStep, NewState
  <2>2. nonce + 1 # nonce
    BY StateNumbers
  <2>3. QED
    BY <2>1, <2>2 DEF NextOf
<1>2. NoSession \in S /\ NextOf(s) \in S
  OBVIOUS
<1>3. db' = db /\ mem' = [mem EXCEPT ![p] = NoSession] /\ out' = out
  BY DEF NextAuthStep, StartSave
<1>4. \A k \in ID : db'[k].val \in Copies
  BY <1>3 DEF Copies
<1> HIDE DEF S
<1>5. Copies' \subseteq Copies \cup S
  BY <1>1, <1>2, <1>3, <1>4, CopiesAfter
<1>6. QED
  BY <1>5 DEF S

\* A step that neither begins nor continues a login.
LEMMA QuietStep ==
    ASSUME TypeOK, NEW p \in Request,
           \/ \E k \in {"proxy", "ensure", "login", "logout", "callback"}, b \in BOOLEAN, s \in State :
                 Send(p, k, b, s)
           \/ Load(p) \/ LoadFails(p) \/ Proxy(p) \/ Ensure(p) \/ Callback(p)
           \/ CallbackRejected(p) \/ Logout(p) \/ Saving(p) \/ SaveFails(p)
           \/ Respond(p) \/ ResponseLost(p) \/ Crash(p)
    PROVE  /\ ctx' = ctx \/ \E c \in Copies \cup Made : ctx' = [ctx EXCEPT ![p] = c]
           /\ mem' = mem \/ \E c \in Copies \cup Made : mem' = [mem EXCEPT ![p] = c]
           /\ out' = out \/ \E c \in Copies \cup Made : out' = [out EXCEPT ![p] = c]
           /\ nonce' = nonce /\ issuer' = issuer /\ authed' = authed /\ Told' \subseteq Told
<1> DEFINE S == Copies \cup Made
           Quiet == /\ ctx' = ctx \/ \E c \in S : ctx' = [ctx EXCEPT ![p] = c]
                    /\ mem' = mem \/ \E c \in S : mem' = [mem EXCEPT ![p] = c]
                    /\ out' = out \/ \E c \in S : out' = [out EXCEPT ![p] = c]
                    /\ nonce' = nonce /\ issuer' = issuer /\ authed' = authed /\ Told' \subseteq Told
<1>1. Found(p) => Get(p) \in S
  BY GetCopy
<1>2. NoSession \in S /\ NewSession \in S
  BY DEF Made
<1> HIDE DEF S
<1>0. SUFFICES Quiet
  BY DEF S
<1>3. CASE \E k \in {"proxy", "ensure", "login", "logout", "callback"}, b \in BOOLEAN, s \in State :
              Send(p, k, b, s)
  BY <1>3 DEF Send, counters, work, saving, history, Told
<1>4. CASE Load(p) \/ LoadFails(p)
  BY <1>1, <1>4 DEF Load, LoadFails, SetContext, counters, work, saving, history, browser, Told
<1>5. CASE Proxy(p) \/ CallbackRejected(p)
  <2>1. ctx' = ctx \/ \E c \in S : ctx' = [ctx EXCEPT ![p] = c]
    <3>1. ctx[p] \in Copies
      BY DEF Copies
    <3>2. ctx[p].seq # <<>> => Rest(ctx[p]) \in S
      BY <3>1 DEF S, Made
    <3>3. ctx' = ctx \/ (ctx[p].seq # <<>> /\ ctx' = [ctx EXCEPT ![p] = Rest(ctx[p])])
      BY <1>5, RejectedContext DEF Proxy
    <3>4. QED
      BY <3>2, <3>3
  <2>2. QED
    BY <1>5, <2>1 DEF Proxy, CallbackRejected, StartSave, counters, work, history, browser, Told
<1>6. CASE Ensure(p)
  <2>1. ctx' = ctx \/ ctx' = [ctx EXCEPT ![p] = NewSession]
    BY <1>6 DEF Ensure, Create, SetContext
  <2>2. /\ mem' = mem /\ out' = out /\ nonce' = nonce /\ issuer' = issuer
        /\ authed' = authed /\ known' = known
    BY <1>6 DEF Ensure, StartSave, work, history, browser, counters
  <2>3. \A q \in Request : reply'[q].state = reply[q].state
    <3>1. reply' = reply \/ reply' = [reply EXCEPT ![p].cookie = used + 1]
      BY <1>6 DEF Ensure
    <3>2. reply \in [Request -> [cookie : ID \cup {Keep}, state : State]]
      BY DEF TypeOK
    <3>3. QED
      BY <3>1, <3>2
  <2>4. QED
    BY <1>2, <2>1, <2>2, <2>3 DEF Told
<1>7. CASE Callback(p)
  BY <1>1, <1>7 DEF Callback, counters, saving, history, browser, Told
<1>8. CASE Logout(p)
  <2>1. ctx' = [ctx EXCEPT ![p] = NoSession]
    BY <1>8 DEF Logout, Delete, SetContext
  <2>2. /\ mem' = mem /\ out' = out /\ nonce' = nonce /\ issuer' = issuer
        /\ authed' = authed /\ known' = known
    BY <1>8 DEF Logout, StartSave, work, browser, counters
  <2>3. \A q \in Request : reply'[q].state = reply[q].state
    <3>1. reply' = [reply EXCEPT ![p].cookie = NoID]
      BY <1>8 DEF Logout, Delete
    <3>2. reply \in [Request -> [cookie : ID \cup {Keep}, state : State]]
      BY DEF TypeOK
    <3>3. QED
      BY <3>1, <3>2
  <2>4. QED
    BY <1>2, <2>1, <2>2, <2>3 DEF Told
<1>9. CASE Saving(p) \/ SaveFails(p)
  <2>1. /\ ctx' = ctx /\ mem' = mem /\ nonce' = nonce /\ issuer' = issuer
        /\ authed' = authed /\ known' = known /\ reply' = reply
    BY <1>9 DEF Saving, Save, WriteHash, WriteTTL, SaveFails, work, history, browser, counters
  <2>2. out' = out \/ \E c \in S : out' = [out EXCEPT ![p] = c]
    BY <1>1, <1>9
    DEF Saving, Save, WriteHash, WriteTTL, SaveFails, AfterSave, StartSave, saving
  <2>3. QED
    BY <2>1, <2>2 DEF Told
<1>10. CASE Respond(p) \/ ResponseLost(p) \/ Crash(p)
  <2>1. Forget(p)
    BY <1>10 DEF Respond, ResponseLost, Crash
  <2>2. known' \ {0} \subseteq Told
    BY <1>10 DEF Respond, ResponseLost, Crash, browser, Told
  <2>3. \A q \in Request : reply'[q].state \in {0, reply[q].state}
    <3>1. reply' = [reply EXCEPT ![p] = NoReply] /\ NoReply.state = 0
      BY <2>1 DEF Forget, NoReply
    <3>2. reply \in [Request -> [cookie : ID \cup {Keep}, state : State]]
      BY DEF TypeOK
    <3>3. QED
      BY <3>1, <3>2
  <2>4. Told' \subseteq Told
    BY <2>2, <2>3 DEF Told
  <2>5. QED
    BY <1>2, <2>1, <2>4 DEF Forget, counters
<1>11. QED
  BY <1>3, <1>4, <1>5, <1>6, <1>7, <1>8, <1>9, <1>10

\* A step is one of a login, or quiet.
LEMMA StepCases ==
    ASSUME TypeOK, [Next]_vars
    PROVE  \/ /\ Copies' \subseteq Copies \cup Made
              /\ nonce' = nonce /\ issuer' = issuer /\ authed' = authed /\ Told' \subseteq Told
           \/ \E p \in Request : Login(p) \/ LoginFails(p)
           \/ \E p \in Request, b \in BOOLEAN : Exchange(p, b)
           \/ \E p \in Request : ExchangeFails(p)
<1>1. \A k \in ID : db'[k].val \in Copies \cup Made
  BY StoredAfter DEF Made
<1>2. ASSUME NEW p \in Request,
             \/ \E k \in {"proxy", "ensure", "login", "logout", "callback"}, b \in BOOLEAN, s \in State :
                   Send(p, k, b, s)
             \/ Load(p) \/ LoadFails(p) \/ Proxy(p) \/ Ensure(p) \/ Callback(p)
             \/ CallbackRejected(p) \/ Logout(p) \/ Saving(p) \/ SaveFails(p)
             \/ Respond(p) \/ ResponseLost(p) \/ Crash(p)
      PROVE  /\ Copies' \subseteq Copies \cup Made
             /\ nonce' = nonce /\ issuer' = issuer /\ authed' = authed /\ Told' \subseteq Told
  <2>1. /\ ctx' = ctx \/ \E c \in Copies \cup Made : ctx' = [ctx EXCEPT ![p] = c]
        /\ mem' = mem \/ \E c \in Copies \cup Made : mem' = [mem EXCEPT ![p] = c]
        /\ out' = out \/ \E c \in Copies \cup Made : out' = [out EXCEPT ![p] = c]
        /\ nonce' = nonce /\ issuer' = issuer /\ authed' = authed /\ Told' \subseteq Told
    BY <1>2, QuietStep
  <2>2. Copies' \subseteq Copies \cup Made
    BY <1>1, <2>1, CopiesAfter
  <2>3. QED
    BY <2>1, <2>2
<1>3. CASE Tick \/ UNCHANGED vars
  <2>1. UNCHANGED <<ctx, mem, out, nonce, issuer, authed, known, reply>>
    BY <1>3 DEF Tick, vars, work, saving, history, counters, browser
  <2>2. Copies' \subseteq Copies \cup Made
    BY <1>1, <2>1 DEF Copies
  <2>3. QED
    BY <2>1, <2>2 DEF Told
<1>4. 0 \in State
  BY Constants DEF State
<1>5. QED
  BY <1>2, <1>3, <1>4 DEF Next, Step, Handle

\* The fields of what the code makes out of nothing that the proofs look at.
LEMMA MadeFields ==
    /\ NoSession.id = NoID /\ NoSession.user = "" /\ NoSession.toks = {} /\ NoSession.seq = <<>>
    /\ NoSession.state = 0 /\ NoSession.exp = ZeroTime
    /\ Ephemeral.id = NoID /\ Ephemeral.user = "alice" /\ Ephemeral.state = 0
    /\ Ephemeral.exp = ZeroTime
    /\ NewSession.id = used + 1 /\ NewSession.created = now /\ NewSession.user = ""
    /\ NewSession.exp = FirstExpiry(now, IdleTTL, MaxTTL)
    /\ NewSession.toks = {} /\ NewSession.seq = <<>> /\ NewSession.state = 0
BY DEF NoSession, Ephemeral, NewSession

LEMMA BegunFields ==
    ASSUME NEW seq, NEW n
    PROVE  /\ Begun(seq, n).id = used + 1 /\ Begun(seq, n).created = NewSession.created
           /\ Begun(seq, n).exp = NewSession.exp /\ Begun(seq, n).user = ""
           /\ Begun(seq, n).toks = {} /\ Begun(seq, n).seq = seq /\ Begun(seq, n).state = n
BY DEF NoSession, NewSession, Begun

LEMMA BegunKey == \A seq, n : Begun(seq, n).id = used + 1 /\ Begun(seq, n).state = n
BY DEF NoSession, NewSession, Begun

LEMMA BeginningFields ==
    ASSUME NEW seq
    PROVE  /\ Beginning(seq).id = used + 1 /\ Beginning(seq).created = NewSession.created
           /\ Beginning(seq).exp = NewSession.exp /\ Beginning(seq).user = ""
           /\ Beginning(seq).toks = {}
           /\ Beginning(seq).state = IF nonce' = nonce THEN 0 ELSE nonce + 1
BY DEF Beginning, Begun, NewSession, NoSession

\* At the start there are no sessions.
LEMMA InitCopies == Init => Copies \subseteq {NoSession}
<1>1. SUFFICES ASSUME Init PROVE Copies \subseteq {NoSession}
  OBVIOUS
<1>2. \A k \in ID : db[k].val = NoSession
  BY <1>1 DEF Init, Absent
<1>3. \A p \in Request : ctx[p] = NoSession /\ mem[p] = NoSession /\ out[p] = NoSession
  BY <1>1 DEF Init
<1>4. QED
  BY <1>2, <1>3 DEF Copies

\* What an exchange makes of the session of the callback: its lifetime and ID
\* stay, the sequence gets shorter, and if there is more the state may be new.
RestLoggedIn(s) == [LoggedIn(s) EXCEPT !.seq = Tail(@)]

LEMMA RestFields ==
    ASSUME NEW s \in Session
    PROVE  /\ Rest(s).id = s.id /\ Rest(s).created = s.created /\ Rest(s).exp = s.exp
           /\ Rest(s).user = s.user /\ Rest(s).toks = s.toks
           /\ Rest(s).seq = Tail(s.seq) /\ Rest(s).state = s.state
BY DEF Rest, Session

LEMMA RestLoggedInFields ==
    ASSUME NEW s \in Session
    PROVE  /\ RestLoggedIn(s).id = s.id /\ RestLoggedIn(s).created = s.created
           /\ RestLoggedIn(s).exp = s.exp /\ RestLoggedIn(s).seq = Tail(s.seq)
           /\ RestLoggedIn(s).user = IF Head(s.seq) = "renku" THEN "alice" ELSE s.user
           /\ RestLoggedIn(s).toks = s.toks \cup {Head(s.seq)} /\ RestLoggedIn(s).state = 0
BY DEF RestLoggedIn, LoggedIn, Session

LEMMA NextOfFields ==
    ASSUME NEW s \in Session
    PROVE  /\ NextOf(s).id = s.id /\ NextOf(s).created = s.created /\ NextOf(s).exp = s.exp
           /\ NextOf(s).user = s.user /\ NextOf(s).toks = s.toks /\ NextOf(s).seq = s.seq
           /\ NextOf(s).state = IF nonce' = nonce THEN s.state ELSE nonce + 1
BY DEF NextOf, Session

\* After an exchange there is one session more, if it is not the old one.
LEMMA ExchangeCopies ==
    ASSUME TypeInv, NEW p \in Request
    PROVE  /\ \A b \in BOOLEAN : Exchange(p, b) =>
                 /\ Copies' \subseteq Copies \cup {NoSession, NextOf(RestLoggedIn(mem[p]))}
                 /\ authed' = authed \cup {mem[p].id}
           /\ ExchangeFails(p) =>
                 /\ Copies' \subseteq Copies \cup {NoSession, NextOf(Rest(mem[p]))}
                 /\ authed' = authed
           /\ (ExchangeFails(p) \/ \E b \in BOOLEAN : Exchange(p, b)) =>
                 /\ mem[p] \in Copies /\ mem[p] \in Session /\ mem[p].seq # <<>>
                 /\ Rest(mem[p]) \in Session /\ RestLoggedIn(mem[p]) \in Session
<1>1. ASSUME NEW b \in BOOLEAN, Exchange(p, b)
      PROVE  /\ Copies' \subseteq Copies \cup {NoSession, NextOf(RestLoggedIn(mem[p]))}
             /\ authed' = authed \cup {mem[p].id}
  <2>1. NextAuthStep(p, RestLoggedIn(mem[p]), b)
    BY <1>1 DEF Exchange, RestLoggedIn
  <2>2. QED
    BY <1>1, <2>1, NextAuthStepCopies DEF Exchange, TypeInv
<1>2. ASSUME ExchangeFails(p)
      PROVE  /\ Copies' \subseteq Copies \cup {NoSession, NextOf(Rest(mem[p]))}
             /\ authed' = authed
  <2>1. NextAuthStep(p, Rest(mem[p]), FALSE)
    BY <1>2 DEF ExchangeFails, Rest
  <2>2. QED
    BY <1>2, <2>1, NextAuthStepCopies DEF ExchangeFails, TypeInv
<1>3. ASSUME ExchangeFails(p) \/ \E b \in BOOLEAN : Exchange(p, b)
      PROVE  /\ mem[p] \in Copies /\ mem[p] \in Session /\ mem[p].seq # <<>>
             /\ Rest(mem[p]) \in Session /\ RestLoggedIn(mem[p]) \in Session
  <2>1. pc[p] = "exchange"
    BY <1>3 DEF Exchange, ExchangeFails
  <2>2. mem[p] \in Copies /\ mem[p] \in Session /\ mem[p].seq # <<>>
    BY <2>1 DEF Copies, TypeInv, TypeOK, ProviderDue
  <2>3. QED
    BY <2>2, ExchangedType DEF Rest, RestLoggedIn
<1>4. QED
  BY <1>1, <1>2, <1>3

----------------------------------------------------------------------------
(* The lifetime of a session                                                *)

\* The steps of a request.
RequestStep(p) ==
    \/ \E k \in {"proxy", "ensure", "login", "logout", "callback"}, b \in BOOLEAN, s \in State :
          Send(p, k, b, s)
    \/ Load(p) \/ LoadFails(p) \/ Handle(p) \/ Exchange(p, FALSE) \/ Saving(p) \/ SaveFails(p)
    \/ Respond(p) \/ ResponseLost(p) \/ Crash(p)

LEMMA NextSteps ==
    ASSUME [Next]_vars
    PROVE  (\E p \in Request : RequestStep(p)) \/ Tick \/ UNCHANGED vars
<1>1. 0 \in State
  BY Constants DEF State
<1>2. QED
  BY <1>1 DEF Next, Step, RequestStep

\* A copy expires by the clock, at the latest the idle TTL from now, and not
\* after its maximum: so to touch it never shortens its life.
Lived(s) ==
    s.id # NoID => /\ s.exp > 0 /\ s.exp <= now + IdleTTL
                   /\ MaxTTL > 0 => s.exp <= s.created + MaxTTL

LivedInv == now > 0 /\ \A s \in Copies : Lived(s)

LEMMA TouchLater ==
    ASSUME now \in Nat, NEW s \in Session, s.id # NoID, Lived(s)
    PROVE  s.exp <= Touch(s).exp
<1>1. s.created \in Nat /\ s.exp \in Nat
  BY SessionFields
<1>2. IdleTTL \in Nat \ {0} /\ MaxTTL \in Nat
  BY Constants
<1>3. Touch(s).exp = Touched(now, s.created, IdleTTL, MaxTTL)
  BY TouchType
<1>4. s.exp <= now + IdleTTL /\ (MaxTTL > 0 => s.exp <= s.created + MaxTTL)
  BY DEF Lived
<1>5. s.exp <= Touched(now, s.created, IdleTTL, MaxTTL)
  BY <1>1, <1>2, <1>4 DEF Touched
<1>6. QED
  BY <1>3, <1>5

LEMMA MadeLived ==
    ASSUME TypeOK, LivedInv, NEW s \in Made
    PROVE  Lived(s)
<1>1. now \in Nat /\ IdleTTL \in Nat \ {0} /\ MaxTTL \in Nat /\ (MaxTTL > 0 => IdleTTL <= MaxTTL)
      /\ now > 0
  BY Constants DEF TypeOK, LivedInv
<1>2. CASE s = NoSession \/ s = Ephemeral
  BY <1>2, MadeFields DEF Lived
<1>3. CASE s = NewSession
  <2>1. s.exp = FirstExpiry(now, IdleTTL, MaxTTL) /\ s.created = now
    BY <1>3, MadeFields
  <2>2. LET e == FirstExpiry(now, IdleTTL, MaxTTL) IN
        e > 0 /\ e <= now + IdleTTL /\ (MaxTTL > 0 => e <= now + MaxTTL)
    BY <1>1 DEF FirstExpiry
  <2>3. QED
    BY <2>1, <2>2 DEF Lived
<1>4. ASSUME NEW t \in Copies, s = Touch(t)
      PROVE  Lived(s)
  <2>1. t \in Session
    BY CopyType
  <2>2. t.created \in Nat
    BY <2>1, SessionFields
  <2>3. s.created = t.created /\ s.exp = Touched(now, t.created, IdleTTL, MaxTTL)
    BY <1>1, <1>4, <2>1, TouchType
  <2>4. LET e == Touched(now, t.created, IdleTTL, MaxTTL) IN
        e > 0 /\ e <= now + IdleTTL /\ (MaxTTL > 0 => e <= t.created + MaxTTL)
    BY <1>1, <2>2 DEF Touched
  <2>5. QED
    BY <2>3, <2>4 DEF Lived
<1>5. ASSUME NEW t \in Copies, s = Rest(t)
      PROVE  Lived(s)
  <2>1. s.id = t.id /\ s.created = t.created /\ s.exp = t.exp
    BY <1>5, CopyType, RestFields
  <2>2. QED
    BY <2>1 DEF LivedInv, Lived
<1>6. QED
  BY <1>2, <1>3, <1>4, <1>5 DEF Made

LEMMA Advances ==
    ASSUME [Next]_vars
    PROVE  now' = now \/ now' = now + 1
<1>1. ASSUME NEW p \in Request, RequestStep(p) PROVE now' = now
  <2>1. CASE \/ \E k, b, s : Send(p, k, b, s)
             \/ Load(p) \/ LoadFails(p) \/ Saving(p) \/ SaveFails(p)
    BY <2>1 DEF Send, Load, LoadFails, Saving, Save, WriteHash, WriteTTL, SaveFails
  <2>2. CASE \/ Proxy(p) \/ Ensure(p) \/ Login(p) \/ LoginFails(p) \/ Callback(p)
             \/ CallbackRejected(p) \/ Logout(p)
    BY <2>2 DEF Proxy, Ensure, Login, LoginFails, Callback, CallbackRejected, Logout
  <2>3. CASE ExchangeFails(p) \/ \E b \in BOOLEAN : Exchange(p, b)
    BY <2>3 DEF Exchange, ExchangeFails, NextAuthStep
  <2>4. CASE Respond(p) \/ ResponseLost(p) \/ Crash(p)
    BY <2>4 DEF Respond, ResponseLost, Crash, Forget
  <2>5. QED
    BY <1>1, <2>1, <2>2, <2>3, <2>4 DEF RequestStep, Handle
<1>2. QED
  BY <1>1, NextSteps DEF Tick, vars

LEMMA NextLived == TypeInv /\ LivedInv /\ [Next]_vars => LivedInv'
<1>1. SUFFICES ASSUME TypeInv, LivedInv, [Next]_vars PROVE now' > 0 /\ \A s \in Copies' : Lived(s)'
  BY DEF LivedInv
<1>2. /\ now \in Nat /\ IdleTTL \in Nat /\ MaxTTL \in Nat /\ now > 0
      /\ now' = now \/ now' = now + 1
  BY <1>1, Constants, Advances DEF TypeInv, TypeOK, LivedInv
<1>3. ASSUME NEW s \in Copies', Lived(s) PROVE Lived(s)'
  <2>1. s.exp \in Nat
    <3>1. TypeOK'
      BY <1>1, NextTypes DEF TypeInv
    <3>2. s \in Session
      BY <3>1, <1>3 DEF Copies, TypeOK
    <3>3. QED
      BY <3>2, SessionFields
  <2>2. s.exp <= now + IdleTTL => s.exp <= now' + IdleTTL
    BY <1>2, <2>1
  <2>3. QED
    BY <1>3, <2>2 DEF Lived
<1>4. ASSUME NEW s \in Copies' PROVE Lived(s)
  <2>1. CASE s \in Copies \cup Made
    BY <1>1, <2>1, MadeLived DEF LivedInv, TypeInv
  <2>2. ASSUME NEW p \in Request, Login(p) \/ LoginFails(p), s \notin Copies
        PROVE  Lived(s)
    <3>1. PICK seq \in LoginSequences : s = Beginning(seq)
      BY <1>1, <1>4, <2>2, LoginCopies DEF TypeInv
    <3>2. s.id = NewSession.id /\ s.created = NewSession.created /\ s.exp = NewSession.exp
      BY <3>1, BeginningFields, MadeFields
    <3>3. Lived(NewSession)
      BY <1>1, MadeLived DEF Made, TypeInv
    <3>4. QED
      BY <3>2, <3>3 DEF Lived
  <2>3. ASSUME NEW p \in Request, ExchangeFails(p) \/ \E b \in BOOLEAN : Exchange(p, b),
               s \notin Copies
        PROVE  Lived(s)
    <3>1. /\ mem[p] \in Copies /\ mem[p] \in Session
          /\ Rest(mem[p]) \in Session /\ RestLoggedIn(mem[p]) \in Session
      BY <1>1, <2>3, ExchangeCopies
    <3>2. s \in {NoSession, NextOf(RestLoggedIn(mem[p])), NextOf(Rest(mem[p]))}
      BY <1>1, <1>4, <2>3, ExchangeCopies
    <3>3. CASE s = NoSession
      BY <3>3, MadeFields DEF Lived
    <3>4. CASE s # NoSession
      <4>1. s.id = mem[p].id /\ s.created = mem[p].created /\ s.exp = mem[p].exp
        BY <3>1, <3>2, <3>4, NextOfFields, RestFields, RestLoggedInFields
      <4>2. QED
        BY <1>1, <3>1, <4>1 DEF LivedInv, Lived
    <3>5. QED
      BY <3>3, <3>4
  <2>4. QED
    BY <1>1, <1>4, <2>1, <2>2, <2>3, StepCases DEF TypeInv
<1>5. QED
  BY <1>2, <1>3, <1>4

LEMMA LivedAlways == Spec => []LivedInv
<1>1. Init => LivedInv
  <2>1. SUFFICES ASSUME Init PROVE LivedInv
    OBVIOUS
  <2>2. now > 0
    BY <2>1 DEF Init, Start
  <2>3. QED
    BY <2>1, <2>2, InitCopies, MadeFields DEF LivedInv, Lived
<1>2. QED
  BY <1>1, NextLived, TypesAlways, PTL DEF Spec

\* No copy of a session, in Redis or in a request, claims to live past the
\* maximum lifetime, however many requests touch it, write stale copies back or
\* stop between the two commands of a save (models/session.go:36-51,
\* session_repo_redis.go:35-46).
THEOREM WithinMaxTTLAlways == Spec => []WithinMaxTTL
<1>1. TypeInv /\ LivedInv => WithinMaxTTL
  <2>1. SUFFICES ASSUME LivedInv, NEW s \in Copies PROVE Within(s)
    BY DEF WithinMaxTTL, Copies
  <2>2. QED
    BY <2>1 DEF LivedInv, Lived, Within, ZeroTime
<1>2. QED
  BY <1>1, TypesAlways, LivedAlways, PTL

----------------------------------------------------------------------------
(* The expiry of the keys                                                   *)

\* A writer that leaves the save before its EXPIREAT is on record.
LEMMA StopsRecorded ==
    ASSUME TypeOK, NEW p \in Request, SaveFails(p) \/ Crash(p) \/ Respond(p) \/ ResponseLost(p)
    PROVE  /\ cut \subseteq cut' /\ (pc[p] = "expire" => out[p].id \in cut')
           /\ db' = db /\ \A q \in Request \ {p} : pc'[q] = pc[q] /\ out'[q] = out[q]
<1>1. cut \subseteq cut' /\ (pc[p] = "expire" => out[p].id \in cut')
  BY DEF SaveFails, Crash, Respond, ResponseLost, CutBy
<1>2. CASE SaveFails(p)
  <2>1. \A q \in Request \ {p} : pc'[q] = pc[q] /\ out'[q] = out[q]
    BY <1>2 DEF SaveFails, AfterSave, StartSave, Goto, saving, TypeOK
  <2>2. QED
    BY <1>1, <1>2, <2>1 DEF SaveFails
<1>3. CASE Crash(p) \/ Respond(p) \/ ResponseLost(p)
  BY <1>1, <1>3 DEF Crash, Respond, ResponseLost, Forget, Goto, TypeOK
<1>4. QED
  BY <1>2, <1>3

\* Steps before the save touch neither the writers nor, but for a logout, Redis.
LEMMA BeforeSave ==
    ASSUME TypeOK, NEW p \in Request,
           \/ \E k, b, s : Send(p, k, b, s)
           \/ Load(p) \/ LoadFails(p) \/ Handle(p) \/ Exchange(p, FALSE) \/ Save(p)
    PROVE  /\ cut' = cut /\ pc[p] # "expire"
           /\ \A q \in Request \ {p} : pc'[q] = pc[q] /\ out'[q] = out[q]
           /\ \A k \in ID : db'[k] = db[k] \/ db'[k] = Absent(NoSession)
<1>1. CASE \E k, b, s : Send(p, k, b, s)
  BY <1>1 DEF Send, Goto, saving, history, TypeOK
<1>2. CASE Load(p) \/ LoadFails(p)
  BY <1>2 DEF Load, LoadFails, Goto, saving, history, TypeOK
<1>3. CASE Save(p)
  BY <1>3 DEF Save, AfterSave, StartSave, Goto, saving, history, TypeOK
<1>4. CASE Callback(p)
  BY <1>4 DEF Callback, Goto, saving, history, TypeOK
<1>5. CASE Proxy(p) \/ Ensure(p) \/ Login(p) \/ LoginFails(p) \/ CallbackRejected(p)
  BY <1>5 DEF Proxy, Ensure, Login, LoginFails, CallbackRejected, StartSave, Goto, saving, history,
              TypeOK
<1>6. CASE ExchangeFails(p) \/ \E b \in BOOLEAN : Exchange(p, b)
  BY <1>6 DEF Exchange, ExchangeFails, NextAuthStep, StartSave, Goto, TypeOK
<1>7. CASE Logout(p)
  <2>1. db' = db \/ db' = [db EXCEPT ![cookie[p]] = Absent(NoSession)]
    BY <1>7 DEF Logout, Delete
  <2>2. \A k \in ID : db'[k] = db[k] \/ db'[k] = Absent(NoSession)
    BY <2>1 DEF TypeOK
  <2>3. QED
    BY <1>7, <2>2 DEF Logout, StartSave, Goto, TypeOK
<1>8. QED
  BY <1>1, <1>2, <1>3, <1>4, <1>5, <1>6, <1>7 DEF Handle

LEMMA NextImmortal == TypeInv /\ NoImmortalSession /\ [Next]_vars => NoImmortalSession'
<1>1. SUFFICES ASSUME TypeInv, NoImmortalSession, [Next]_vars, NEW k \in ID,
                      db'[k].val # NoSession, db'[k].ttl = NoTTL
               PROVE  k \in cut' \/ \E p \in Request : pc'[p] = "expire" /\ out'[p].id = k
  BY DEF NoImmortalSession
<1>2. db \in [ID -> [val : Session, ttl : Nat]] /\ now \in Nat
  BY <1>1 DEF TypeInv, TypeOK
<1>3. db[k].val # NoSession /\ db[k].ttl = NoTTL
         => k \in cut \/ \E p \in Request : pc[p] = "expire" /\ out[p].id = k
  BY <1>1 DEF NoImmortalSession
<1>4. Absent(NoSession).val = NoSession
  BY DEF Absent
<1>5. ASSUME NEW p \in Request,
             \/ \E j, b, s : Send(p, j, b, s)
             \/ Load(p) \/ LoadFails(p) \/ Handle(p) \/ Exchange(p, FALSE) \/ Save(p)
      PROVE  k \in cut' \/ \E q \in Request : pc'[q] = "expire" /\ out'[q].id = k
  <2>1. /\ cut' = cut /\ pc[p] # "expire"
        /\ \A q \in Request \ {p} : pc'[q] = pc[q] /\ out'[q] = out[q]
        /\ db'[k] = db[k] \/ db'[k] = Absent(NoSession)
    BY <1>1, <1>5, BeforeSave DEF TypeInv
  <2>2. QED
    BY <1>1, <1>3, <1>4, <2>1
<1>6. ASSUME NEW p \in Request, SaveFails(p) \/ Crash(p) \/ Respond(p) \/ ResponseLost(p)
      PROVE  k \in cut' \/ \E q \in Request : pc'[q] = "expire" /\ out'[q].id = k
  <2>1. /\ cut \subseteq cut' /\ (pc[p] = "expire" => out[p].id \in cut')
        /\ db' = db /\ \A q \in Request \ {p} : pc'[q] = pc[q] /\ out'[q] = out[q]
    BY <1>1, <1>6, StopsRecorded DEF TypeInv
  <2>2. QED
    BY <1>1, <1>3, <2>1
<1>7. ASSUME NEW p \in Request, WriteHash(p)
      PROVE  k \in cut' \/ \E q \in Request : pc'[q] = "expire" /\ out'[q].id = k
  <2>1. /\ db' = [db EXCEPT ![out[p].id] = HSet(@, out[p])] /\ cut' = cut /\ out' = out
        /\ pc[p] = "hset" /\ pc' = [pc EXCEPT ![p] = "expire"]
    BY <1>7 DEF WriteHash, Goto, saving, history
  <2>2. pc'[p] = "expire" /\ \A q \in Request \ {p} : pc'[q] = pc[q]
    BY <1>1, <2>1 DEF TypeInv, TypeOK
  <2>3. CASE k = out[p].id
    BY <2>1, <2>2, <2>3
  <2>4. CASE k # out[p].id
    <3>1. db'[k] = db[k]
      BY <1>2, <2>1, <2>4
    <3>2. QED
      BY <1>1, <1>3, <2>1, <2>2, <3>1
  <2>5. QED
    BY <2>3, <2>4
<1>8. ASSUME NEW p \in Request, WriteTTL(p)
      PROVE  k \in cut' \/ \E q \in Request : pc'[q] = "expire" /\ out'[q].id = k
  <2>1. /\ db' = [db EXCEPT ![out[p].id] = ExpireAt(@, NoSession, out[p].exp + Leeway, now)]
        /\ cut' = cut \ {out[p].id} /\ AfterSave(p)
    BY <1>8 DEF WriteTTL
  <2>2. out' = out /\ \A q \in Request \ {p} : pc'[q] = pc[q]
    BY <1>1, <2>1, AfterSaveTypes DEF TypeInv, TypeOK
  <2>3. CASE k = out[p].id
    <3>1. db'[k] = ExpireAt(db[k], NoSession, out[p].exp + Leeway, now)
      BY <1>2, <2>1, <2>3
    <3>2. out[p] \in Session
      BY <1>1 DEF TypeInv, TypeOK
    <3>3. out[p].exp + Leeway \in Nat
      <4>1. out[p].exp \in Nat
        BY <3>2, SessionFields
      <4>2. Leeway \in Nat
        BY Constants
      <4>3. QED
        BY <4>1, <4>2
    <3>4. \A n \in Nat : ~(n <= now) => n # 0
      BY <1>2
    <3>5. db'[k].val = NoSession \/ db'[k].ttl # NoTTL
      BY <1>2, <3>1, <3>3, <3>4 DEF ExpireAt, Absent, NoTTL
    <3>6. QED
      BY <1>1, <3>5
  <2>4. CASE k # out[p].id
    <3>1. db'[k] = db[k]
      BY <1>2, <2>1, <2>4
    <3>2. QED
      BY <1>1, <1>3, <2>1, <2>2, <2>4, <3>1
  <2>5. QED
    BY <2>3, <2>4
<1>9. CASE Tick
  <2>1. db'[k] = Evict(db[k], NoSession, now + 1) /\ UNCHANGED <<cut, pc, out>>
    BY <1>9 DEF Tick, saving, history
  <2>2. db'[k] = db[k]
    BY <1>1, <1>4, <2>1 DEF Evict
  <2>3. QED
    BY <1>1, <1>3, <2>1, <2>2
<1>10. CASE UNCHANGED vars
  BY <1>1, <1>3, <1>10 DEF vars
<1>11. QED
  BY <1>1, <1>5, <1>6, <1>7, <1>8, <1>9, <1>10 DEF Next, Step, Saving

\* A stored session has an expiry on its key except between the HSET and the
\* EXPIREAT of a writer, or after a writer that stopped between the two
\* (session_repo_redis.go:35-46), also when a logout deletes the key in between:
\* EXPIREAT does nothing to an absent key, and HSET keeps the expiry of another.
THEOREM NoImmortalSessionAlways == Spec => []NoImmortalSession
<1>1. Init => NoImmortalSession
  BY DEF Init, NoImmortalSession, Absent
<1>2. TypeInv /\ NoImmortalSession /\ [Next]_vars => NoImmortalSession'
  BY NextImmortal
<1>3. QED
  BY <1>1, <1>2, TypesAlways, PTL DEF Spec

----------------------------------------------------------------------------
(* Whom a stored session names                                              *)

\* What a request writes is what it found with an ID when it began to save.
LEMMA Writers ==
    ASSUME TypeOK, [Next]_vars, NEW q \in Request, pc'[q] \in {"hset", "expire"}
    PROVE  \/ pc[q] \in {"hset", "expire"} /\ out'[q] = out[q]
           \/ Found(q) /\ Get(q).id # NoID /\ out'[q] = Get(q)
<1>1. ASSUME NEW p \in Request,
             \/ \E k, b, s : Send(p, k, b, s)
             \/ Load(p) \/ LoadFails(p) \/ Handle(p) \/ Exchange(p, FALSE)
      PROVE  pc'[p] \notin {"hset", "expire"} /\ (p # q => pc'[q] = pc[q] /\ out'[q] = out[q])
  <2>1. CASE \E k, b, s : Send(p, k, b, s)
    BY <2>1 DEF Send, Goto, saving, TypeOK
  <2>2. CASE Load(p) \/ LoadFails(p) \/ Callback(p)
    BY <2>2 DEF Load, LoadFails, Callback, Goto, saving, TypeOK
  <2>3. CASE Proxy(p) \/ Ensure(p) \/ Login(p) \/ LoginFails(p) \/ CallbackRejected(p) \/ Logout(p)
    BY <2>3 DEF Proxy, Ensure, Login, LoginFails, CallbackRejected, Logout, StartSave, Goto, TypeOK
  <2>4. CASE ExchangeFails(p) \/ \E b \in BOOLEAN : Exchange(p, b)
    BY <2>4 DEF Exchange, ExchangeFails, NextAuthStep, StartSave, Goto, TypeOK
  <2>5. QED
    BY <1>1, <2>1, <2>2, <2>3, <2>4 DEF Handle
<1>2. ASSUME NEW p \in Request, AfterSave(p)
      PROVE  pc'[p] \notin {"hset", "expire"} /\ (p # q => pc'[q] = pc[q] /\ out'[q] = out[q])
  BY <1>2 DEF AfterSave, StartSave, Goto, saving, TypeOK
<1>3. ASSUME NEW p \in Request, Save(p) \/ WriteTTL(p) \/ SaveFails(p)
      PROVE  \/ AfterSave(p)
             \/ /\ Found(p) /\ Get(p).id # NoID /\ out'[p] = Get(p)
                /\ p # q => pc'[q] = pc[q] /\ out'[q] = out[q]
  BY <1>3 DEF Save, WriteTTL, SaveFails, Goto, TypeOK
<1>4. ASSUME NEW p \in Request, WriteHash(p)
      PROVE  pc[p] = "hset" /\ out' = out /\ (p # q => pc'[q] = pc[q])
  BY <1>4 DEF WriteHash, Goto, saving, TypeOK
<1>5. ASSUME NEW p \in Request, Respond(p) \/ ResponseLost(p) \/ Crash(p)
      PROVE  pc'[p] \notin {"hset", "expire"} /\ (p # q => pc'[q] = pc[q] /\ out'[q] = out[q])
  BY <1>5 DEF Respond, ResponseLost, Crash, Forget, Goto, TypeOK
<1>6. CASE Tick \/ UNCHANGED vars
  BY <1>6 DEF Tick, vars, saving
<1>7. QED
  BY <1>1, <1>2, <1>3, <1>4, <1>5, <1>6 DEF Next, Step, Saving

LEMMA NextUnderID == TypeInv /\ StoredUnderID /\ [Next]_vars => StoredUnderID'
<1>1. SUFFICES ASSUME TypeInv, StoredUnderID, [Next]_vars PROVE StoredUnderID'
  OBVIOUS
<1>2. TypeOK
  BY <1>1 DEF TypeInv
<1>3. ASSUME NEW k \in ID, db'[k].val # NoSession
      PROVE  k # NoID /\ db'[k].val.id = k
  <2>1. CASE db'[k].val = db[k].val
    BY <1>1, <1>3, <2>1 DEF StoredUnderID
  <2>2. CASE \E p \in Request : WriteHash(p) /\ k = out[p].id /\ db'[k].val = out[p]
    BY <1>1, <2>2 DEF StoredUnderID, WriteHash
  <2>3. QED
    BY <1>1, <1>2, <1>3, <2>1, <2>2, StoredCopies
<1>4. ASSUME NEW q \in Request, pc'[q] \in {"hset", "expire"}
      PROVE  out'[q].id # NoID
  <2>1. \/ pc[q] \in {"hset", "expire"} /\ out'[q] = out[q]
        \/ Get(q).id # NoID /\ out'[q] = Get(q)
    BY <1>1, <1>2, <1>4, Writers
  <2>2. QED
    BY <1>1, <2>1 DEF StoredUnderID
<1>5. QED
  BY <1>3, <1>4 DEF StoredUnderID

\* A session made out of nothing names nobody, or has no ID; Touch leaves both.
LEMMA MadeLoggedIn ==
    ASSUME TypeOK, NEW s \in Made, \A c \in Copies : CopyLoggedIn(c)
    PROVE  CopyLoggedIn(s)
<1>1. CASE s \in {NoSession, Ephemeral, NewSession}
  BY <1>1, MadeFields DEF CopyLoggedIn
<1>2. ASSUME NEW t \in Copies, s = Touch(t)
      PROVE  CopyLoggedIn(s)
  <2>1. now \in Nat /\ t \in Session
    BY CopyType DEF TypeOK
  <2>2. s.id = t.id /\ s.user = t.user
    BY <1>2, <2>1, TouchType
  <2>3. QED
    BY <2>2 DEF CopyLoggedIn
<1>3. ASSUME NEW t \in Copies, s = Rest(t)
      PROVE  CopyLoggedIn(s)
  <2>1. s.id = t.id /\ s.user = t.user
    BY <1>3, CopyType, RestFields
  <2>2. QED
    BY <2>1 DEF CopyLoggedIn
<1>4. QED
  BY <1>1, <1>2, <1>3 DEF Made

LEMMA NextLoggedIn == TypeInv /\ LoggedInInv /\ [Next]_vars => LoggedInInv'
<1>1. SUFFICES ASSUME TypeInv, LoggedInInv, [Next]_vars PROVE LoggedInInv'
  OBVIOUS
<1>2. TypeOK /\ StoredUnderID /\ \A c \in Copies : CopyLoggedIn(c)
  BY <1>1 DEF TypeInv, LoggedInInv
<1>3. ASSUME NEW s \in Copies', s.id # NoID, s.user # ""
      PROVE  s.id \in authed'
  <2>1. CASE /\ Copies' \subseteq Copies \cup Made /\ authed' = authed
    <3>1. CopyLoggedIn(s)
      BY <1>2, <2>1, MadeLoggedIn
    <3>2. QED
      BY <1>3, <2>1, <3>1 DEF CopyLoggedIn
  <2>2. ASSUME NEW p \in Request, Login(p) \/ LoginFails(p)
        PROVE  s.id \in authed'
    <3>1. authed' = authed
      BY <2>2 DEF Login, LoginFails, history
    <3>2. s \in Copies \/ \E seq \in LoginSequences : s = Beginning(seq)
      BY <1>2, <2>2, LoginCopies
    <3>3. s \in Copies
      BY <1>3, <3>2, BeginningFields
    <3>4. QED
      BY <1>2, <1>3, <3>1, <3>3 DEF CopyLoggedIn
  <2>3. ASSUME NEW p \in Request, NEW b \in BOOLEAN, Exchange(p, b)
        PROVE  s.id \in authed'
    <3>1. /\ Copies' \subseteq Copies \cup {NoSession, NextOf(RestLoggedIn(mem[p]))}
          /\ authed' = authed \cup {mem[p].id}
          /\ mem[p] \in Session /\ RestLoggedIn(mem[p]) \in Session
      BY <1>1, <2>3, ExchangeCopies
    <3>2. NextOf(RestLoggedIn(mem[p])).id = mem[p].id
      BY <3>1, NextOfFields, RestLoggedInFields
    <3>3. s # NoSession
      BY <1>3, MadeFields
    <3>4. QED
      BY <1>2, <1>3, <3>1, <3>2, <3>3 DEF CopyLoggedIn
  <2>4. ASSUME NEW p \in Request, ExchangeFails(p)
        PROVE  s.id \in authed'
    <3>1. /\ Copies' \subseteq Copies \cup {NoSession, NextOf(Rest(mem[p]))}
          /\ authed' = authed
          /\ mem[p] \in Copies /\ mem[p] \in Session /\ Rest(mem[p]) \in Session
      BY <1>1, <2>4, ExchangeCopies
    <3>2. /\ NextOf(Rest(mem[p])).id = mem[p].id
          /\ NextOf(Rest(mem[p])).user = mem[p].user
      BY <3>1, NextOfFields, RestFields
    <3>3. s # NoSession
      BY <1>3, MadeFields
    <3>4. QED
      BY <1>2, <1>3, <3>1, <3>2, <3>3 DEF CopyLoggedIn
  <2>5. QED
    BY <1>1, <1>2, <2>1, <2>2, <2>3, <2>4, StepCases
<1>4. QED
  BY <1>1, <1>2, <1>3, NextUnderID DEF LoggedInInv, CopyLoggedIn

LEMMA LoggedInAlways == Spec => []LoggedInInv
<1>1. Init => LoggedInInv
  <2>1. SUFFICES ASSUME Init PROVE LoggedInInv
    OBVIOUS
  <2>2. StoredUnderID
    BY <2>1 DEF Init, StoredUnderID, Absent
  <2>3. \A s \in Copies : CopyLoggedIn(s)
    BY <2>1, InitCopies, MadeFields DEF CopyLoggedIn
  <2>4. QED
    BY <2>2, <2>3 DEF LoggedInInv
<1>2. TypeInv /\ LoggedInInv /\ [Next]_vars => LoggedInInv'
  BY NextLoggedIn
<1>3. QED
  BY <1>1, <1>2, TypesAlways, PTL DEF Spec

\* A session in Redis that names a user is stored under its own ID, and the
\* token callback ran in it: neither a session made of a header nor the copy of
\* another session is ever written there, whatever fails and however requests
\* overlap (session_store.go:85-112, 138-150; token_handling.go).
THEOREM StoredUserLoggedInAlways == Spec => []StoredUserLoggedIn
<1>1. LoggedInInv => StoredUserLoggedIn
  <2>1. SUFFICES ASSUME LoggedInInv, NEW k \in ID, db[k].val.user # ""
                 PROVE  k \in authed /\ db[k].val.id = k
    BY DEF StoredUserLoggedIn
  <2>2. db[k].val # NoSession
    BY <2>1, MadeFields
  <2>3. k # NoID /\ db[k].val.id = k
    BY <2>1, <2>2 DEF LoggedInInv, StoredUnderID
  <2>4. CopyLoggedIn(db[k].val)
    BY <2>1 DEF LoggedInInv, Copies
  <2>5. QED
    BY <2>1, <2>3, <2>4 DEF CopyLoggedIn
<1>2. QED
  BY <1>1, LoggedInAlways, PTL

----------------------------------------------------------------------------
(* The order of the providers                                               *)

\* What main gives the login server for a login that names no provider: the
\* Renku Keycloak first.
RenkuFirst == \A seq \in LoginSequences : Head(seq) = "renku"

\* What becomes of the login states: they stay as they are, or there is one
\* more, made for provider and perhaps told to the browser.
StatesStay == nonce' = nonce /\ issuer' = issuer /\ Told' \subseteq Told

StatesGrow(provider, told) ==
    /\ nonce' = nonce + 1 /\ issuer' = [issuer EXCEPT ![nonce + 1] = provider]
    /\ Told' \subseteq Told \cup (IF told THEN {nonce + 1} ELSE {})

LEMMA StatesAfter ==
    ASSUME TypeOK, NEW p \in Request
    PROVE  /\ Login(p) \/ LoginFails(p) =>
                 StatesStay \/ \E seq \in LoginSequences : StatesGrow(Head(seq), TRUE)
           /\ \A b \in BOOLEAN : Exchange(p, b) =>
                 StatesStay \/ StatesGrow(Head(RestLoggedIn(mem[p]).seq), TRUE)
           /\ ExchangeFails(p) =>
                 StatesStay \/ StatesGrow(Head(Rest(mem[p]).seq), FALSE)
<1>1. reply \in [Request -> [cookie : ID \cup {Keep}, state : State]]
  BY DEF TypeOK
<1>2. ASSUME NEW provider, NEW told \in BOOLEAN, known' = known,
             \/ nonce' = nonce /\ issuer' = issuer
             \/ nonce' = nonce + 1 /\ issuer' = [issuer EXCEPT ![nonce + 1] = provider],
             \/ reply' = reply \/ reply' = [reply EXCEPT ![p].cookie = used + 1]
             \/ /\ told /\ nonce' = nonce + 1
                /\ \/ reply' = [reply EXCEPT ![p].state = nonce + 1]
                   \/ reply' = [reply EXCEPT ![p] = [cookie |-> used + 1, state |-> nonce + 1]]
      PROVE  StatesStay \/ StatesGrow(provider, told)
  <2>1. \A q \in Request : reply'[q].state \in {nonce + 1, reply[q].state}
    BY <1>1, <1>2
  <2>2. \/ \A q \in Request : reply'[q].state = reply[q].state
        \/ told /\ nonce' = nonce + 1
    BY <1>1, <1>2
  <2>3. CASE \A q \in Request : reply'[q].state = reply[q].state
    <3>1. Told' = Told
      BY <1>2, <2>3 DEF Told
    <3>2. QED
      BY <1>2, <3>1 DEF StatesStay, StatesGrow
  <2>4. CASE told /\ nonce' = nonce + 1
    <3>1. Told' \subseteq Told \cup {nonce + 1}
      BY <1>2, <2>1 DEF Told
    <3>2. nonce + 1 # nonce
      BY StateNumbers
    <3>3. QED
      BY <1>2, <2>4, <3>1, <3>2 DEF StatesGrow
  <2>5. QED
    BY <2>2, <2>3, <2>4
<1>3. ASSUME Login(p) \/ LoginFails(p)
      PROVE  StatesStay \/ \E seq \in LoginSequences : StatesGrow(Head(seq), TRUE)
  <2>1. known' = known
    BY <1>3 DEF Login, LoginFails, browser
  <2>2. CASE UNCHANGED <<nonce, issuer>>
    <3>1. reply' = reply \/ reply' = [reply EXCEPT ![p].cookie = used + 1]
      <4>1. nonce + 1 # nonce
        BY StateNumbers
      <4>2. ~Login(p)
        BY <2>2, <4>1 DEF Login, NewState
      <4>3. QED
        BY <1>3, <4>2 DEF LoginFails
    <3>2. StatesStay \/ StatesGrow("none", TRUE)
      BY <1>2, <2>1, <2>2, <3>1
    <3>3. nonce' # nonce + 1
      BY <2>2, StateNumbers
    <3>4. QED
      BY <3>2, <3>3 DEF StatesGrow
  <2>3. ASSUME NEW seq \in LoginSequences, NewState(seq)
        PROVE  StatesGrow(Head(seq), TRUE)
    <3>1. nonce' = nonce + 1 /\ issuer' = [issuer EXCEPT ![nonce + 1] = Head(seq)]
      BY <2>3 DEF NewState
    <3>2. \/ reply' = [reply EXCEPT ![p].cookie = used + 1]
          \/ reply' = [reply EXCEPT ![p] = [cookie |-> used + 1, state |-> nonce + 1]]
          \/ reply' = reply
      BY <1>3 DEF Login, LoginFails
    <3>3. StatesStay \/ StatesGrow(Head(seq), TRUE)
      BY <1>2, <2>1, <3>1, <3>2
    <3>4. nonce' # nonce
      BY <3>1, StateNumbers
    <3>5. QED
      BY <3>3, <3>4 DEF StatesStay
  <2>4. UNCHANGED <<nonce, issuer>> \/ \E seq \in LoginSequences : NewState(seq)
    BY <1>3 DEF Login, LoginFails, counters
  <2>5. QED
    BY <2>2, <2>3, <2>4
<1>4. ASSUME NEW s, NEW b \in BOOLEAN, NextAuthStep(p, s, b)
      PROVE  StatesStay \/ StatesGrow(Head(s.seq), b)
  <2>1. known' = known
    BY <1>4 DEF NextAuthStep, browser
  <2>2. /\ \/ nonce' = nonce /\ issuer' = issuer
           \/ nonce' = nonce + 1 /\ issuer' = [issuer EXCEPT ![nonce + 1] = Head(s.seq)]
        /\ \/ reply' = reply
           \/ b /\ nonce' = nonce + 1 /\ reply' = [reply EXCEPT ![p].state = nonce + 1]
    BY <1>4 DEF NextAuthStep, NewState
  <2>3. QED
    BY <1>2, <2>1, <2>2
<1>5. ASSUME NEW b \in BOOLEAN, Exchange(p, b)
      PROVE  StatesStay \/ StatesGrow(Head(RestLoggedIn(mem[p]).seq), TRUE)
  <2>1. NextAuthStep(p, RestLoggedIn(mem[p]), b)
    BY <1>5 DEF Exchange, RestLoggedIn
  <2>2. QED
    BY <1>4, <2>1 DEF StatesGrow
<1>6. ASSUME ExchangeFails(p)
      PROVE  StatesStay \/ StatesGrow(Head(Rest(mem[p]).seq), FALSE)
  <2>1. NextAuthStep(p, Rest(mem[p]), FALSE)
    BY <1>6 DEF ExchangeFails, Rest
  <2>2. QED
    BY <1>4, <2>1
<1>7. QED
  BY <1>3, <1>5, <1>6

\* A callback keeps the state that it came with, and that of its session.
LEMMA NextCallbacks == TypeOK /\ Callbacks /\ [Next]_vars => Callbacks'
<1>1. SUFFICES ASSUME TypeOK, Callbacks, [Next]_vars PROVE Callbacks'
  OBVIOUS
<1>2. ASSUME NEW p \in Request,
             \/ \E k \in {"proxy", "ensure", "login", "logout", "callback"}, b \in BOOLEAN, s \in State :
                   Send(p, k, b, s)
      PROVE  Callbacks'
  BY <1>1, <1>2 DEF Send, Goto, work, Callbacks, TypeOK
<1>3. ASSUME NEW p \in Request, NEW label \in {"handle", "save", "hset", "expire", "end"},
             pc' = [pc EXCEPT ![p] = label], UNCHANGED <<known, input>>,
             \A q \in Request \ {p} : mem'[q] = mem[q]
      PROVE  Callbacks'
  BY <1>1, <1>3 DEF input, Callbacks, TypeOK
<1>4. ASSUME NEW p \in Request,
             Load(p) \/ LoadFails(p) \/ Proxy(p) \/ Ensure(p) \/ Login(p) \/ LoginFails(p)
             \/ CallbackRejected(p) \/ Logout(p)
      PROVE  Callbacks'
  <2>1. /\ \E label \in {"handle", "save"} : pc' = [pc EXCEPT ![p] = label]
        /\ UNCHANGED <<known, input, mem>>
    BY <1>4 DEF Load, LoadFails, Proxy, Ensure, Login, LoginFails, CallbackRejected, Logout,
                StartSave, Goto, browser, work
  <2>2. QED
    BY <1>3, <2>1
<1>5. ASSUME NEW p \in Request, Callback(p)
      PROVE  Callbacks'
  BY <1>1, <1>5 DEF Callback, Accepted, Goto, browser, input, Callbacks, TypeOK
<1>6. ASSUME NEW p \in Request, ExchangeFails(p) \/ \E b \in BOOLEAN : Exchange(p, b)
      PROVE  Callbacks'
  <2>1. /\ pc' = [pc EXCEPT ![p] = "save"] /\ UNCHANGED <<known, input>>
        /\ mem' = [mem EXCEPT ![p] = NoSession]
    BY <1>6 DEF Exchange, ExchangeFails, NextAuthStep, StartSave, Goto, browser
  <2>2. \A q \in Request \ {p} : mem'[q] = mem[q]
    BY <1>1, <2>1 DEF TypeOK
  <2>3. QED
    BY <1>3, <2>1, <2>2
<1>7. ASSUME NEW p \in Request, Saving(p) \/ SaveFails(p)
      PROVE  Callbacks'
  <2>1. /\ \E label \in {"save", "end", "hset", "expire"} : pc' = [pc EXCEPT ![p] = label]
        /\ UNCHANGED <<known, input, mem>>
    BY <1>7 DEF Saving, Save, WriteHash, WriteTTL, SaveFails, AfterSave, StartSave, Goto, browser,
                work
  <2>2. QED
    BY <1>3, <2>1
<1>8. ASSUME NEW p \in Request, Respond(p) \/ ResponseLost(p) \/ Crash(p)
      PROVE  Callbacks'
  <2>1. Forget(p) /\ known \subseteq known'
    BY <1>8 DEF Respond, ResponseLost, Crash, browser
  <2>2. QED
    BY <1>1, <2>1 DEF Forget, Goto, Callbacks, TypeOK
<1>9. CASE Tick \/ UNCHANGED vars
  BY <1>1, <1>9 DEF Tick, vars, browser, input, work, Callbacks
<1>10. 0 \in State
  BY Constants DEF State
<1>11. QED
  BY <1>1, <1>2, <1>4, <1>5, <1>6, <1>7, <1>8, <1>9, <1>10 DEF Next, Step, Handle

\* A session made out of nothing waits for no callback; Touch changes nothing
\* that a callback looks at.
LEMMA MadeUnreachable ==
    ASSUME TypeOK, NEW s \in Made, \A c \in Copies : Unreachable(c) /\ c.state <= nonce
    PROVE  Unreachable(s) /\ s.state <= nonce
<1>1. CASE s \in {NoSession, Ephemeral, NewSession}
  <2>1. s.state = 0
    BY <1>1, MadeFields
  <2>2. nonce \in Nat
    BY StateNumbers
  <2>3. s.state <= nonce
    BY <2>1, <2>2
  <2>4. s.user # "" \/ s.toks = {}
    BY <1>1, MadeFields
  <2>5. s.state \notin Told
    BY <2>1, StateNumbers
  <2>6. QED
    BY <2>3, <2>4, <2>5 DEF Unreachable
<1>2. ASSUME NEW t \in Copies, s = Touch(t)
      PROVE  Unreachable(s) /\ s.state <= nonce
  <2>1. now \in Nat /\ t \in Session
    BY CopyType DEF TypeOK
  <2>2. s.user = t.user /\ s.toks = t.toks /\ s.state = t.state
    BY <1>2, <2>1, TouchType
  <2>3. QED
    BY <2>2 DEF Unreachable
<1>3. ASSUME NEW t \in Copies, s = Rest(t)
      PROVE  Unreachable(s) /\ s.state <= nonce
  <2>1. s.user = t.user /\ s.toks = t.toks /\ s.state = t.state
    BY <1>3, CopyType, RestFields
  <2>2. QED
    BY <2>1 DEF Unreachable
<1>4. QED
  BY <1>1, <1>2, <1>3 DEF Made

\* More states have been given out, and perhaps the last of them told: that
\* changes nothing for a session that was there before.
LEMMA OldUnreachable ==
    ASSUME TypeOK, StatesInv, \A c \in Copies : Unreachable(c), NEW provider, NEW told \in BOOLEAN,
           StatesStay \/ StatesGrow(provider, told)
    PROVE  /\ \A s \in Copies : s.state <= nonce' /\ Unreachable(s)'
           /\ \A n \in Told' : n <= nonce'
           /\ NoSession.state <= nonce' /\ Unreachable(NoSession)'
<1>1. /\ nonce \in Nat /\ \A n \in Told : n \in Nat /\ n # 0 /\ n <= nonce
      /\ \A s \in Copies : s.state \in Nat /\ s.state <= nonce
  BY StateNumbers DEF StatesInv
<1>2. \/ nonce' = nonce
      \/ nonce' = nonce + 1 /\ Told' \subseteq Told \cup {nonce + 1}
  BY DEF StatesStay, StatesGrow
<1>3. \A n \in Told' : n <= nonce' /\ n # 0
  BY <1>1 DEF StatesStay, StatesGrow
<1>4. ASSUME NEW s \in Copies
      PROVE  s.state <= nonce' /\ Unreachable(s)'
  <2>1. s.state <= nonce' /\ s.state # nonce + 1
    BY <1>1, <1>2
  <2>2. s.state \in State
    BY CopyType, SessionFields
  <2>3. issuer'[s.state] = issuer[s.state]
    BY <2>1, <2>2 DEF StatesStay, StatesGrow, TypeOK
  <2>4. s.state \in Told' => s.state \in Told
    BY <2>1 DEF StatesStay, StatesGrow
  <2>5. QED
    BY <2>1, <2>3, <2>4 DEF Unreachable
<1>5. NoSession.state <= nonce' /\ Unreachable(NoSession)'
  <2>1. NoSession.state = 0 /\ NoSession.toks = {}
    BY MadeFields
  <2>2. 0 <= nonce' /\ 0 \notin Told'
    BY <1>1, <1>2, <1>3
  <2>3. QED
    BY <2>1, <2>2 DEF Unreachable
<1>6. QED
  BY <1>3, <1>4, <1>5

LEMMA NextGitLab ==
    ASSUME RenkuFirst
    PROVE  TypeInv /\ GitLabInv /\ [Next]_vars => GitLabInv'
<1>1. SUFFICES ASSUME TypeInv, GitLabInv, [Next]_vars
               PROVE  /\ \A s \in Copies' : s.state <= nonce' /\ Unreachable(s)'
                      /\ \A n \in Told' : n <= nonce'
  BY NextCallbacks DEF GitLabInv, StatesInv, TypeInv
<1>2. TypeOK /\ StatesInv /\ Callbacks /\ \A c \in Copies : Unreachable(c) /\ c.state <= nonce
  BY <1>1 DEF TypeInv, GitLabInv, StatesInv
<1>3. nonce \in Nat /\ (\A s \in Copies : s.state \in Nat) /\ (\A n \in Told : n \in Nat)
  BY <1>2, StateNumbers
<1> DEFINE Goal == /\ \A s \in Copies' : s.state <= nonce' /\ Unreachable(s)'
                   /\ \A n \in Told' : n <= nonce'
<1>4. CASE Copies' \subseteq Copies \cup Made /\ StatesStay
  <2>1. \A s \in Copies' : s.state <= nonce /\ Unreachable(s)
    BY <1>2, <1>4, MadeUnreachable
  <2>2. \A n \in Told' : n <= nonce
    BY <1>2, <1>4 DEF StatesInv, StatesStay
  <2>3. QED
    BY <1>4, <2>1, <2>2 DEF Unreachable, StatesStay
<1>5. ASSUME NEW p \in Request, Login(p) \/ LoginFails(p)
      PROVE  Goal
  <2>1. StatesStay \/ StatesGrow("renku", TRUE)
    BY <1>2, <1>5, StatesAfter DEF RenkuFirst
  <2>2. /\ \A s \in Copies : s.state <= nonce' /\ Unreachable(s)'
        /\ \A n \in Told' : n <= nonce'
        /\ NoSession.state <= nonce'
    BY <1>2, <2>1, OldUnreachable
  <2>3. ASSUME NEW seq \in LoginSequences, NEW s, s = Beginning(seq)
        PROVE  s.state <= nonce' /\ Unreachable(s)'
    <3>1. s.toks = {} /\ s.state = IF nonce' = nonce THEN 0 ELSE nonce + 1
      BY <2>3, BeginningFields
    <3>2. CASE StatesStay
      <4>1. s.state = 0 /\ 0 <= nonce'
        BY <1>3, <3>1, <3>2 DEF StatesStay
      <4>2. 0 \notin Told'
        BY <1>2, <3>2, StateNumbers DEF StatesStay
      <4>3. QED
        BY <3>1, <4>1, <4>2 DEF Unreachable
    <3>3. CASE StatesGrow("renku", TRUE)
      <4>1. nonce' = nonce + 1 /\ nonce + 1 # nonce
        BY <1>3, <3>3 DEF StatesGrow
      <4>2. s.state = nonce + 1
        BY <3>1, <4>1
      <4>3. issuer'[nonce + 1] = "renku" \/ nonce + 1 \notin State
        BY <1>2, <3>3 DEF StatesGrow, TypeOK
      <4>4. nonce' \in State
        BY <1>1, NextTypes DEF TypeInv, TypeOK
      <4>5. issuer'[nonce + 1] # "gitlab"
        BY <4>1, <4>3, <4>4
      <4>6. nonce + 1 <= nonce'
        BY <1>3, <4>1
      <4>7. QED
        BY <3>1, <4>2, <4>5, <4>6 DEF Unreachable
    <3>4. QED
      BY <2>1, <3>2, <3>3
  <2>4. Copies' \subseteq Copies \cup {Beginning(seq) : seq \in LoginSequences}
    BY <1>2, <1>5, LoginCopies
  <2>5. QED
    BY <2>2, <2>3, <2>4
<1>6. ASSUME NEW p \in Request, NEW b \in BOOLEAN, Exchange(p, b)
      PROVE  Goal
  <2> DEFINE t == RestLoggedIn(mem[p])
  <2>1. /\ Copies' \subseteq Copies \cup {NoSession, NextOf(t)}
        /\ mem[p] \in Copies /\ mem[p] \in Session /\ mem[p].seq # <<>> /\ t \in Session
    BY <1>1, <1>6, ExchangeCopies
  <2>2. StatesStay \/ StatesGrow(Head(t.seq), TRUE)
    BY <1>2, <1>6, StatesAfter
  <2>3. t.state = 0 /\ t.user = IF Head(mem[p].seq) = "renku" THEN "alice" ELSE mem[p].user
    BY <2>1, RestLoggedInFields
  <2>4. t.user # ""
    <3>1. pc[p] = "exchange" /\ issuer[cb[p]] = Head(mem[p].seq)
      BY <1>6 DEF Exchange
    <3>2. mem[p].state = cb[p] /\ cb[p] \in Told
      BY <1>2, <3>1 DEF Callbacks, Told
    <3>3. mem[p].user = "" => Head(mem[p].seq) # "gitlab"
      BY <1>2, <2>1, <3>1, <3>2 DEF Unreachable
    <3>4. Head(mem[p].seq) \in {"renku", "gitlab"}
      <4>1. mem[p].seq \in Seq(Provider)
        BY <2>1, SessionFields
      <4>2. QED
        BY <2>1, <4>1 DEF Provider
    <3>5. QED
      BY <2>3, <3>3, <3>4
  <2>5. /\ NextOf(t).user = t.user
        /\ NextOf(t).state = IF nonce' = nonce THEN t.state ELSE nonce + 1
    BY <2>1, NextOfFields
  <2> HIDE DEF t
  <2>6. /\ \A s \in Copies : s.state <= nonce' /\ Unreachable(s)'
        /\ \A n \in Told' : n <= nonce'
        /\ NoSession.state <= nonce' /\ Unreachable(NoSession)'
    BY <1>2, <2>2, OldUnreachable
  <2>7. NextOf(t).state <= nonce'
    BY <1>3, <2>2, <2>3, <2>5 DEF StatesStay, StatesGrow
  <2>8. ASSUME NEW s, s = NextOf(t)
        PROVE  Unreachable(s)'
    <3>1. s.user # ""
      BY <2>4, <2>5, <2>8
    <3>2. QED
      BY <3>1 DEF Unreachable
  <2>9. QED
    BY <2>1, <2>6, <2>7, <2>8
<1>7. ASSUME NEW p \in Request, ExchangeFails(p)
      PROVE  Goal
  <2> DEFINE t == Rest(mem[p])
  <2>1. /\ Copies' \subseteq Copies \cup {NoSession, NextOf(t)}
        /\ mem[p] \in Copies /\ mem[p] \in Session /\ t \in Session
    BY <1>1, <1>7, ExchangeCopies
  <2>2. StatesStay \/ StatesGrow(Head(t.seq), FALSE)
    BY <1>2, <1>7, StatesAfter
  <2>3. t.state = mem[p].state /\ t.user = mem[p].user /\ t.toks = mem[p].toks
    BY <2>1, RestFields
  <2>4. /\ NextOf(t).user = t.user /\ NextOf(t).toks = t.toks
        /\ NextOf(t).state = IF nonce' = nonce THEN t.state ELSE nonce + 1
    BY <2>1, NextOfFields
  <2> HIDE DEF t
  <2>5. /\ \A s \in Copies : s.state <= nonce' /\ Unreachable(s)'
        /\ \A n \in Told' : n <= nonce'
        /\ NoSession.state <= nonce' /\ Unreachable(NoSession)'
    BY <1>2, <2>2, OldUnreachable
  <2>6. mem[p].state <= nonce'
    BY <2>1, <2>5
  <2>7. NextOf(t).state <= nonce'
    BY <1>3, <2>2, <2>3, <2>4, <2>6 DEF StatesStay, StatesGrow
  <2>8. ASSUME NEW s, s = NextOf(t)
        PROVE  Unreachable(s)'
    <3>1. CASE nonce' = nonce
      <4>1. PICK m \in Copies : m.user = s.user /\ m.toks = s.toks /\ m.state = s.state
        BY <2>1, <2>3, <2>4, <2>8, <3>1
      <4>2. QED
        BY <2>5, <4>1 DEF Unreachable
    <3>2. CASE nonce' # nonce
      <4>1. Told' \subseteq Told /\ s.state = nonce + 1
        BY <2>2, <2>4, <2>8, <3>2 DEF StatesStay, StatesGrow
      <4>2. nonce + 1 \notin Told'
        BY <1>2, <1>3, <4>1 DEF StatesInv
      <4>3. PICK m \in Copies : m.user = s.user /\ m.toks = s.toks
        BY <2>1, <2>3, <2>4, <2>8
      <4>4. QED
        BY <2>5, <4>1, <4>2, <4>3 DEF Unreachable
    <3>3. QED
      BY <3>1, <3>2
  <2>9. QED
    BY <2>1, <2>5, <2>7, <2>8
<1>8. QED
  BY <1>1, <1>2, <1>4, <1>5, <1>6, <1>7, StepCases DEF StatesStay

\* If every login begins with the Renku Keycloak, as the default sequences do
\* (login_server_constants.go:3-4), no session in Redis has the GitLab tokens
\* without a user: a session without a user waits for a state that the browser
\* is never told, or for one that was made for Renku, with which GitLab redeems
\* no code (login_server_routes.go:56-88).
THEOREM GitLabAfterRenkuAlways ==
    ASSUME RenkuFirst
    PROVE  Spec => []GitLabAfterRenku
<1>1. Init => GitLabInv
  <2>1. SUFFICES ASSUME Init PROVE GitLabInv
    OBVIOUS
  <2>2. nonce = 0 /\ Told = {}
    BY <2>1 DEF Init, Told, NoReply
  <2>3. \A s \in Copies : s.state = 0 /\ s.toks = {}
    BY <2>1, InitCopies, MadeFields
  <2>4. Callbacks
    BY <2>1 DEF Init, Callbacks
  <2>5. StatesInv
    BY <2>2, <2>3 DEF StatesInv
  <2>6. \A s \in Copies : Unreachable(s)
    BY <2>2, <2>3 DEF Unreachable
  <2>7. QED
    BY <2>4, <2>5, <2>6 DEF GitLabInv
<1>2. TypeInv /\ GitLabInv /\ [Next]_vars => GitLabInv'
  BY NextGitLab
<1>3. GitLabInv => GitLabAfterRenku
  BY DEF GitLabInv, Unreachable, GitLabAfterRenku, Copies
<1>4. QED
  BY <1>1, <1>2, <1>3, TypesAlways, PTL DEF Spec

----------------------------------------------------------------------------
(* What a handler starts from                                               *)

\* A request keeps its hands off what another one holds.
LEMMA OthersKept ==
    ASSUME TypeOK, NEW p \in Request, RequestStep(p), NEW q \in Request \ {p}
    PROVE  /\ pc'[q] = pc[q] /\ kind'[q] = kind[q] /\ cookie'[q] = cookie[q]
           /\ loaded'[q] = loaded[q] /\ ctx'[q] = ctx[q] /\ mem'[q] = mem[q]
           /\ out'[q] = out[q] /\ reply'[q] = reply[q]
<1> DEFINE Kept == /\ pc'[q] = pc[q] /\ kind'[q] = kind[q] /\ cookie'[q] = cookie[q]
                   /\ loaded'[q] = loaded[q] /\ ctx'[q] = ctx[q] /\ mem'[q] = mem[q]
                   /\ out'[q] = out[q] /\ reply'[q] = reply[q]
<1>1. CASE \E k \in {"proxy", "ensure", "login", "logout", "callback"}, b \in BOOLEAN, s \in State :
              Send(p, k, b, s)
  BY <1>1 DEF Send, Goto, work, saving, TypeOK
<1>2. CASE Load(p) \/ LoadFails(p)
  BY <1>2 DEF Load, LoadFails, SetContext, Goto, work, saving, input, TypeOK
<1>3. CASE Proxy(p) \/ CallbackRejected(p)
  BY <1>3 DEF Proxy, CallbackRejected, StartSave, Goto, work, input, TypeOK
<1>4. CASE Ensure(p) \/ Login(p) \/ LoginFails(p)
  <2>1. CASE Ensure(p)
    BY <2>1 DEF Ensure, Create, SetContext, StartSave, Goto, work, input, TypeOK
  <2>2. CASE Login(p)
    BY <2>2 DEF Login, Create, SetContext, StartSave, Goto, work, input, TypeOK
  <2>3. CASE LoginFails(p)
    BY <2>3 DEF LoginFails, Create, SetContext, StartSave, Goto, work, input, TypeOK
  <2>4. QED
    BY <1>4, <2>1, <2>2, <2>3
<1>5. CASE Callback(p)
  BY <1>5 DEF Callback, Goto, saving, input, TypeOK
<1>6. CASE Logout(p)
  BY <1>6 DEF Logout, Delete, SetContext, StartSave, Goto, work, input, TypeOK
<1>7. CASE ExchangeFails(p) \/ \E b \in BOOLEAN : Exchange(p, b)
  BY <1>7 DEF Exchange, ExchangeFails, NextAuthStep, StartSave, Goto, input, TypeOK
<1>8. CASE Saving(p) \/ SaveFails(p)
  BY <1>8 DEF Saving, Save, WriteHash, WriteTTL, SaveFails, AfterSave, StartSave, Goto, saving,
              work, input, TypeOK
<1>9. CASE Respond(p) \/ ResponseLost(p) \/ Crash(p)
  BY <1>9 DEF Respond, ResponseLost, Crash, Forget, Goto, TypeOK
<1>10. QED
  BY <1>1, <1>2, <1>3, <1>4, <1>5, <1>6, <1>7, <1>8, <1>9 DEF RequestStep, Handle

\* A lookup with a cookie finds the session of that ID.
LEMMA FoundByCookie ==
    ASSUME TypeOK, StoredUnderID, NEW p \in Request, cookie[p] # NoID, ~InContext(p), Found(p)
    PROVE  /\ Get(p).id = cookie[p] /\ InStore(p) /\ Get(p) = Touch(db[cookie[p]].val)
<1>1. InStore(p) /\ Get(p) = Touch(db[cookie[p]].val)
  BY GetCases DEF ByHeader
<1>2. cookie[p] \in ID /\ db[cookie[p]].val \in Session /\ now \in Nat
  BY DEF TypeOK
<1>3. db[cookie[p]].val.id = cookie[p]
  BY <1>1, <1>2 DEF InStore, StoredUnderID
<1>4. Touch(db[cookie[p]].val).id = db[cookie[p]].val.id
  BY <1>2, TouchType
<1>5. QED
  BY <1>1, <1>3, <1>4

LEMMA StepEarly ==
    ASSUME TypeOK, StoredUnderID, NEW p \in Request, RequestStep(p), Early(p)
    PROVE  Early(p)'
<1>1. CASE \E k \in {"proxy", "ensure", "login", "logout", "callback"}, b \in BOOLEAN, s \in State :
              Send(p, k, b, s)
  BY <1>1 DEF Send, Goto, work, saving, Early, TypeOK
<1>2. CASE Load(p)
  <2>1. pc[p] = "load" /\ pc' = [pc EXCEPT ![p] = "handle"] /\ UNCHANGED <<mem, out, reply, cookie>>
    BY <1>2 DEF Load, Goto, work, saving, input
  <2>2. pc'[p] = "handle" /\ ~InContext(p)
    BY <2>1 DEF Early, InContext, TypeOK
  <2>3. CASE Found(p) /\ SetContext(p, Get(p))
    <3>1. ctx'[p] = Get(p)
      BY <2>3 DEF SetContext, TypeOK
    <3>2. cookie[p] # NoID => ctx'[p].id = cookie[p]
      BY <2>2, <2>3, <3>1, FoundByCookie
    <3>3. QED
      BY <2>1, <2>2, <3>2 DEF Early
  <2>4. CASE UNCHANGED <<loaded, ctx>>
    BY <2>1, <2>2, <2>4 DEF Early
  <2>5. QED
    BY <1>2, <2>3, <2>4 DEF Load
<1>3. CASE LoadFails(p)
  BY <1>3 DEF LoadFails, Goto, work, saving, input, Early, TypeOK
<1>4. CASE Proxy(p) \/ Ensure(p) \/ Login(p) \/ LoginFails(p) \/ CallbackRejected(p) \/ Logout(p)
  <2>1. pc[p] = "handle" /\ pc' = [pc EXCEPT ![p] = "save"] /\ mem' = mem
    BY <1>4 DEF Proxy, Ensure, Login, LoginFails, CallbackRejected, Logout, StartSave, Goto, work
  <2>2. QED
    BY <2>1 DEF Early, TypeOK
<1>5. CASE Callback(p)
  BY <1>5 DEF Callback, Goto, saving, Early, TypeOK
<1>6. CASE ExchangeFails(p) \/ \E b \in BOOLEAN : Exchange(p, b)
  <2>1. pc' = [pc EXCEPT ![p] = "save"] /\ mem' = [mem EXCEPT ![p] = NoSession]
    BY <1>6 DEF Exchange, ExchangeFails, NextAuthStep, StartSave, Goto
  <2>2. QED
    BY <2>1 DEF Early, TypeOK
<1>7. CASE Saving(p) \/ SaveFails(p)
  <2>1. /\ \E label \in {"save", "end", "hset", "expire"} : pc' = [pc EXCEPT ![p] = label]
        /\ pc[p] \in {"save", "hset", "expire"} /\ mem' = mem
    BY <1>7 DEF Saving, Save, WriteHash, WriteTTL, SaveFails, AfterSave, StartSave, Goto, work
  <2>2. QED
    BY <2>1 DEF Early, TypeOK
<1>8. CASE Respond(p) \/ ResponseLost(p) \/ Crash(p)
  BY <1>8 DEF Respond, ResponseLost, Crash, Forget, Goto, Early, TypeOK
<1>9. QED
  BY <1>1, <1>2, <1>3, <1>4, <1>5, <1>6, <1>7, <1>8 DEF RequestStep, Handle

LEMMA NextEarly == TypeOK /\ StoredUnderID /\ EarlyInv /\ [Next]_vars => EarlyInv'
<1>1. SUFFICES ASSUME TypeOK, StoredUnderID, EarlyInv, [Next]_vars, NEW q \in Request
               PROVE  Early(q)'
  BY DEF EarlyInv
<1>2. Early(q)
  BY <1>1 DEF EarlyInv
<1>3. ASSUME NEW p \in Request, RequestStep(p) PROVE Early(q)'
  <2>1. CASE p = q
    BY <1>1, <1>2, <1>3, <2>1, StepEarly
  <2>2. CASE p # q
    BY <1>1, <1>2, <1>3, <2>2, OthersKept DEF Early
  <2>3. QED
    BY <2>1, <2>2
<1>4. CASE Tick \/ UNCHANGED vars
  BY <1>2, <1>4 DEF Tick, vars, input, work, saving, Early
<1>5. QED
  BY <1>1, <1>3, <1>4, NextSteps

LEMMA EarlyAlways == Spec => []EarlyInv
<1>1. Init => EarlyInv
  BY DEF Init, EarlyInv, Early
<1>2. TypeInv /\ LoggedInInv /\ EarlyInv /\ [Next]_vars => EarlyInv'
  BY NextEarly DEF TypeInv, LoggedInInv
<1>3. QED
  BY <1>1, <1>2, TypesAlways, LoggedInAlways, PTL DEF Spec

\* Unless a read of Redis fails, a request that comes with the cookie of a good
\* session is never given another one, whatever other requests do to the session
\* between the middleware's lookup and the handler's (middlewares.go:48-70).
THEOREM GoodSessionKeptAlways ==
    ASSUME ~ReadMayFail
    PROVE  Spec => GoodSessionKept
<1> DEFINE Kept == \A p \in Request :
                      /\ pc[p] = "handle" /\ kind[p] = "ensure"
                      /\ Valid(cookie[p])
                      => ~(pc'[p] = "save" /\ reply'[p].cookie # Keep)
<1>1. TypeInv /\ LoggedInInv /\ EarlyInv /\ [Next]_vars => Kept
  <2>1. SUFFICES ASSUME TypeOK, StoredUnderID, EarlyInv, [Next]_vars, NEW p \in Request,
                        pc[p] = "handle", kind[p] = "ensure", Valid(cookie[p]), pc'[p] = "save"
                 PROVE  reply'[p].cookie = Keep
    BY DEF TypeInv, LoggedInInv
  <2>2. reply[p].cookie = Keep /\ (loaded[p] => ctx[p].id = cookie[p]) /\ cookie[p] # NoID
    BY <2>1 DEF EarlyInv, Early, NoReply, Valid
  <2>3. Found(p) /\ Get(p).id # NoID
    <3>1. InStore(p) /\ Found(p)
      BY <2>1 DEF Valid, InStore, Found
    <3>2. CASE InContext(p)
      BY <2>2, <3>1, <3>2, GetCases DEF InContext
    <3>3. CASE ~InContext(p)
      BY <2>1, <2>2, <3>1, <3>3, FoundByCookie
    <3>4. QED
      BY <3>1, <3>2, <3>3
  <2>4. CASE Ensure(p)
    BY <2>2, <2>3, <2>4 DEF Ensure
  <2>5. ASSUME NEW q \in Request, RequestStep(q) PROVE reply'[p].cookie = Keep
    <3>1. CASE q # p
      BY <2>1, <2>2, <2>5, <3>1, OthersKept
    <3>2. CASE q = p
      <4>1. ~Proxy(p) /\ ~Login(p) /\ ~LoginFails(p) /\ ~Callback(p) /\ ~CallbackRejected(p)
            /\ ~Logout(p) /\ ~ExchangeFails(p) /\ (\A b \in BOOLEAN : ~Exchange(p, b))
        BY <2>1 DEF Proxy, Login, LoginFails, Callback, CallbackRejected, Logout, Exchange,
                    ExchangeFails
      <4>2. ~Load(p) /\ ~LoadFails(p) /\ ~Saving(p) /\ ~SaveFails(p) /\ ~Respond(p) /\ ~ResponseLost(p)
        BY <2>1 DEF Load, LoadFails, Saving, Save, WriteHash, WriteTTL, SaveFails, Respond,
                    ResponseLost
      <4>3. ~Crash(p) /\ \A k, b, s : ~Send(p, k, b, s)
        BY <2>1 DEF Crash, Send, ReadMayFail
      <4>4. QED
        BY <2>4, <2>5, <3>2, <4>1, <4>2, <4>3 DEF RequestStep, Handle
    <3>3. QED
      BY <3>1, <3>2
  <2>6. CASE Tick \/ UNCHANGED vars
    BY <2>2, <2>6 DEF Tick, vars
  <2>7. QED
    BY <2>1, <2>5, <2>6, NextSteps
<1>2. QED
  BY <1>1, TypesAlways, LoggedInAlways, EarlyAlways, PTL DEF Spec, GoodSessionKept

----------------------------------------------------------------------------
(* A logout of a browser that sends one request at a time                   *)

OneAtATime == \A p, q \in Request : p = q

\* The IDs that are around have been given out before.
LEMMA NextIDsGiven == TypeOK /\ IDsGiven /\ [Next]_vars => IDsGiven' /\ used <= used'
<1>1. SUFFICES ASSUME TypeOK, IDsGiven, [Next]_vars PROVE IDsGiven' /\ used <= used'
  OBVIOUS
<1>2. /\ used \in Nat /\ jar \in Int /\ \A q \in Request : cookie[q] \in Int /\ reply[q].cookie \in Int
  <2>1. ID \subseteq Nat /\ ID \cup {Keep} \subseteq Int
    BY Constants DEF ID, Keep
  <2>2. \A q \in Request : cookie[q] \in ID /\ reply[q].cookie \in ID \cup {Keep}
    BY <1>1 DEF TypeOK
  <2>3. \A q \in Request : cookie[q] \in Int /\ reply[q].cookie \in Int
    BY <2>1, <2>2, Zenon
  <2>4. used \in Nat /\ jar \in Int
    BY <1>1, <2>1 DEF TypeOK
  <2>5. QED
    BY <2>3, <2>4
<1>3. /\ cookie \in [Request -> ID]
      /\ reply \in [Request -> [cookie : ID \cup {Keep}, state : State]]
  BY <1>1 DEF TypeOK
<1>4. ASSUME UNCHANGED <<jar, cookie>>, used' = used \/ used' = used + 1,
             \A q \in Request : reply'[q].cookie \in {reply[q].cookie, NoID, used'}
      PROVE  IDsGiven' /\ used <= used'
  BY <1>1, <1>2, <1>4 DEF IDsGiven, NoID
<1>5. ASSUME NEW p \in Request,
             \E k \in {"proxy", "ensure", "login", "logout", "callback"}, b \in BOOLEAN, s \in State :
                Send(p, k, b, s)
      PROVE  IDsGiven' /\ used <= used'
  <2>1. UNCHANGED <<used, jar, reply>> /\ cookie' = [cookie EXCEPT ![p] = jar]
    BY <1>5 DEF Send, counters
  <2>2. QED
    BY <1>1, <1>2, <1>3, <2>1 DEF IDsGiven
<1>6. ASSUME NEW p \in Request,
             Load(p) \/ LoadFails(p) \/ Proxy(p) \/ Callback(p) \/ CallbackRejected(p)
             \/ Saving(p) \/ SaveFails(p)
      PROVE  IDsGiven' /\ used <= used'
  <2>1. UNCHANGED <<used, jar, reply, cookie>>
    BY <1>6 DEF Load, LoadFails, Proxy, Callback, CallbackRejected, Saving, Save, WriteHash,
                WriteTTL, SaveFails, counters, browser, input
  <2>2. QED
    BY <1>4, <2>1
<1>7. ASSUME NEW p \in Request, Ensure(p) \/ Login(p) \/ LoginFails(p) \/ Logout(p)
      PROVE  IDsGiven' /\ used <= used'
  <2>1. UNCHANGED <<jar, cookie>> /\ (used' = used \/ used' = used + 1)
    BY <1>7 DEF Ensure, Login, LoginFails, Logout, Create, counters, browser, input
  <2>2. \/ reply' = reply \/ reply' = [reply EXCEPT ![p].cookie = NoID]
        \/ reply' = [reply EXCEPT ![p].cookie = used'] 
        \/ \E n : reply' = [reply EXCEPT ![p] = [cookie |-> used', state |-> n]]
    BY <1>7 DEF Ensure, Login, LoginFails, Logout, Delete, Create
  <2>3. \A q \in Request : reply'[q].cookie \in {reply[q].cookie, NoID, used'}
    BY <1>3, <2>2
  <2>4. QED
    BY <1>4, <2>1, <2>3
<1>8. ASSUME NEW p \in Request, ExchangeFails(p) \/ \E b \in BOOLEAN : Exchange(p, b)
      PROVE  IDsGiven' /\ used <= used'
  <2>1. UNCHANGED <<used, jar, cookie>>
    BY <1>8 DEF Exchange, ExchangeFails, NextAuthStep, browser, input
  <2>2. reply' = reply \/ reply' = [reply EXCEPT ![p].state = nonce + 1]
    BY <1>8 DEF Exchange, ExchangeFails, NextAuthStep
  <2>3. \A q \in Request : reply'[q].cookie = reply[q].cookie
    BY <1>3, <2>2
  <2>4. QED
    BY <1>4, <2>1, <2>3
<1>9. ASSUME NEW p \in Request, Respond(p) \/ ResponseLost(p) \/ Crash(p)
      PROVE  IDsGiven' /\ used <= used'
  <2>1. Forget(p) /\ (jar' = jar \/ jar' = reply[p].cookie)
    BY <1>9 DEF Respond, ResponseLost, Crash, browser
  <2>2. used' = used /\ cookie' = [cookie EXCEPT ![p] = NoID] /\ reply' = [reply EXCEPT ![p] = NoReply]
    BY <2>1 DEF Forget, counters
  <2>3. \A q \in Request : /\ cookie'[q] \in {cookie[q], NoID}
                           /\ reply'[q].cookie \in {reply[q].cookie, Keep}
    BY <1>3, <2>2 DEF NoReply
  <2>4. QED
    BY <1>1, <1>2, <2>1, <2>2, <2>3 DEF IDsGiven, NoID, Keep
<1>10. CASE Tick \/ UNCHANGED vars
  <2>1. UNCHANGED <<used, jar, reply, cookie>>
    BY <1>10 DEF Tick, vars, counters, browser, input
  <2>2. QED
    BY <1>4, <2>1
<1>11. QED
  BY <1>1, <1>5, <1>6, <1>7, <1>8, <1>9, <1>10, NextSteps DEF RequestStep, Handle

\* A copy after a step of another kind than a logout has the ID of a copy
\* before, none, or a new one.
LEMMA IDsOfCopies ==
    ASSUME TypeInv, [Next]_vars, NEW s \in Copies'
    PROVE  s.id \in {NoID, used + 1} \/ \E c \in Copies : s.id = c.id
<1>1. TypeOK /\ now \in Nat
  BY DEF TypeInv, TypeOK
<1>2. CASE s \in Made
  <2>1. ASSUME NEW t \in Copies, s = Touch(t)
        PROVE  s.id = t.id
    <3>1. t \in Session
      BY <1>1, CopyType
    <3>2. QED
      BY <1>1, <2>1, <3>1, TouchType
  <2>2. \/ s = NoSession \/ s = Ephemeral \/ s = NewSession
        \/ \E t \in Copies : s = Touch(t) \/ s = Rest(t)
    BY <1>2 DEF Made
  <2>3. NoSession.id = NoID /\ Ephemeral.id = NoID /\ NewSession.id = used + 1
    BY MadeFields
  <2>4. ASSUME NEW t \in Copies, s = Rest(t)
        PROVE  s.id = t.id
    BY <1>1, <2>4, CopyType, RestFields
  <2>5. QED
    BY <2>1, <2>2, <2>3, <2>4
<1>3. ASSUME NEW p \in Request, Login(p) \/ LoginFails(p)
      PROVE  s.id \in {NoID, used + 1} \/ \E c \in Copies : s.id = c.id
  <2>1. s \in Copies \/ \E seq \in LoginSequences : s = Beginning(seq)
    BY <1>1, <1>3, LoginCopies
  <2>2. \A seq \in LoginSequences : Beginning(seq).id = used + 1
    BY BeginningFields
  <2>3. QED
    BY <2>1, <2>2
<1>4. ASSUME NEW p \in Request, ExchangeFails(p) \/ \E b \in BOOLEAN : Exchange(p, b), s \notin Copies
      PROVE  s.id \in {NoID, used + 1} \/ \E c \in Copies : s.id = c.id
  <2>1. /\ mem[p] \in Copies /\ mem[p] \in Session
        /\ Rest(mem[p]) \in Session /\ RestLoggedIn(mem[p]) \in Session
    BY <1>4, ExchangeCopies
  <2>2. s \in {NoSession, NextOf(RestLoggedIn(mem[p])), NextOf(Rest(mem[p]))}
    BY <1>4, ExchangeCopies
  <2>3. s.id = NoID \/ s.id = mem[p].id
    <3>1. /\ NextOf(RestLoggedIn(mem[p])).id = mem[p].id
          /\ NextOf(Rest(mem[p])).id = mem[p].id
      BY <2>1, NextOfFields, RestFields, RestLoggedInFields
    <3>2. QED
      BY <2>2, <3>1, MadeFields
  <2>4. QED
    BY <2>1, <2>3
<1>5. QED
  BY <1>1, <1>2, <1>3, <1>4, StepCases

LEMMA NextDeleted ==
    ASSUME OneAtATime
    PROVE  TypeInv /\ StoredUnderID /\ EarlyInv /\ DeletedInv /\ [Next]_vars => DeletedInv'
<1>1. SUFFICES ASSUME TypeInv, StoredUnderID, EarlyInv, DeletedInv, [Next]_vars
               PROVE  loggedOut' \subseteq 1 .. used' /\ \A s \in Copies' : s.id \notin loggedOut'
  BY NextIDsGiven DEF DeletedInv, TypeInv
<1>2. TypeOK /\ IDsGiven' /\ used <= used' /\ used \in Nat /\ used' \in Nat
  <2>1. TypeOK /\ TypeOK'
    BY <1>1, NextTypes DEF TypeInv
  <2>2. ID \subseteq Nat
    BY Constants DEF ID
  <2>3. QED
    BY <1>1, <2>1, <2>2, NextIDsGiven DEF DeletedInv, TypeOK
<1>3. CASE loggedOut' = loggedOut
  <2>1. loggedOut' \subseteq 1 .. used'
    BY <1>1, <1>2, <1>3 DEF DeletedInv
  <2>2. NoID \notin loggedOut /\ used + 1 \notin loggedOut
    BY <1>1, <1>2 DEF DeletedInv, NoID
  <2>3. \A s \in Copies' : s.id \notin loggedOut'
    BY <1>1, <1>3, <2>2, IDsOfCopies DEF DeletedInv
  <2>4. QED
    BY <2>1, <2>3
<1>4. ASSUME NEW p \in Request, Logout(p), loggedOut' # loggedOut
      PROVE  loggedOut' \subseteq 1 .. used' /\ \A s \in Copies' : s.id \notin loggedOut'
  <2>1. /\ loggedOut' = loggedOut \cup {cookie[p]} /\ cookie[p] # NoID
        /\ db' = [db EXCEPT ![cookie[p]] = Absent(NoSession)]
        /\ ctx' = [ctx EXCEPT ![p] = NoSession]
    BY <1>4 DEF Logout, Delete, SetContext
  <2>2. pc[p] = "handle" /\ mem' = mem /\ out' = out /\ used' = used
    BY <1>4 DEF Logout, StartSave, work, counters
  <2>3. ctx'[p] = NoSession /\ mem'[p] = NoSession /\ out'[p] = NoSession
    BY <1>1, <1>2, <2>1, <2>2 DEF EarlyInv, Early, TypeOK
  <2>4. cookie[p] \in ID /\ cookie[p] <= used
    BY <1>1, <1>2 DEF DeletedInv, IDsGiven, TypeOK
  <2>5. loggedOut' \subseteq 1 .. used'
    <3>1. cookie[p] \in Nat /\ cookie[p] # 0
      <4>1. ID \subseteq Nat
        BY Constants DEF ID
      <4>2. QED
        BY <2>1, <2>4, <4>1 DEF NoID
    <3>2. cookie[p] \in 1 .. used
      BY <1>2, <2>4, <3>1
    <3>3. loggedOut \subseteq 1 .. used
      BY <1>1 DEF DeletedInv
    <3>4. QED
      BY <2>1, <2>2, <3>2, <3>3
  <2>6. NoSession.id \notin loggedOut'
    <3>1. NoSession.id = 0
      BY MadeFields DEF NoID
    <3>2. 0 \notin 1 .. used'
      BY <1>2
    <3>3. QED
      BY <2>5, <3>1, <3>2
  <2>7. ASSUME NEW k \in ID
        PROVE  db'[k].val.id \notin loggedOut'
    <3>1. CASE k = cookie[p] \/ db[k].val = NoSession
      <4>1. db'[k].val = NoSession
        BY <1>2, <2>1, <3>1 DEF TypeOK, Absent
      <4>2. QED
        BY <2>6, <4>1
    <3>2. CASE k # cookie[p] /\ db[k].val # NoSession
      <4>1. db'[k].val = db[k].val /\ db[k].val.id = k
        BY <1>1, <1>2, <2>1, <3>2 DEF TypeOK, StoredUnderID
      <4>2. db[k].val.id \notin loggedOut
        BY <1>1 DEF DeletedInv, Copies
      <4>3. QED
        BY <2>1, <3>2, <4>1, <4>2
    <3>3. QED
      BY <3>1, <3>2
  <2>8. \A s \in Copies' : s = NoSession \/ \E k \in ID : s = db'[k].val
    BY <2>3, OneAtATime DEF Copies, OneAtATime
  <2>9. QED
    BY <2>5, <2>6, <2>7, <2>8
<1>5. loggedOut' = loggedOut \/ \E p \in Request : Logout(p)
  <2>1. ASSUME NEW p \in Request, RequestStep(p), ~Logout(p)
        PROVE  loggedOut' = loggedOut
    <3>1. CASE Send(p, "proxy", FALSE, 0) \/ Load(p) \/ LoadFails(p) \/ Saving(p) \/ SaveFails(p)
               \/ \E k, b, s : Send(p, k, b, s)
      BY <3>1 DEF Send, Load, LoadFails, Saving, Save, WriteHash, WriteTTL, SaveFails, history
    <3>2. CASE \/ Proxy(p) \/ Ensure(p) \/ Login(p) \/ LoginFails(p) \/ Callback(p)
               \/ CallbackRejected(p)
      BY <3>2 DEF Proxy, Ensure, Login, LoginFails, Callback, CallbackRejected, history
    <3>3. CASE ExchangeFails(p) \/ \E b \in BOOLEAN : Exchange(p, b)
      BY <3>3 DEF Exchange, ExchangeFails, NextAuthStep
    <3>4. CASE Respond(p) \/ ResponseLost(p) \/ Crash(p)
      BY <3>4 DEF Respond, ResponseLost, Crash, Forget
    <3>5. QED
      BY <2>1, <3>1, <3>2, <3>3, <3>4 DEF RequestStep, Handle
  <2>2. CASE Tick \/ UNCHANGED vars
    BY <2>2 DEF Tick, vars, history
  <2>3. QED
    BY <1>1, <2>1, <2>2, NextSteps
<1>6. QED
  BY <1>3, <1>4, <1>5

\* When a browser sends one request at a time, a session that was deleted stays
\* deleted: neither the save that the middleware does after the logout nor any
\* later request brings it back, also when reads and saves fail and replicas
\* crash (session_store.go:35-77, 152-181).
THEOREM LogoutSticksAlone ==
    ASSUME OneAtATime
    PROVE  Spec => []LogoutSticks
<1>1. Init => DeletedInv
  <2>1. SUFFICES ASSUME Init PROVE DeletedInv
    OBVIOUS
  <2>2. IDsGiven
    BY <2>1 DEF Init, IDsGiven, NoID, NoReply, Keep
  <2>3. QED
    BY <2>1, <2>2 DEF Init, DeletedInv
<1>2. TypeInv /\ LoggedInInv /\ EarlyInv /\ DeletedInv /\ [Next]_vars => DeletedInv'
  BY NextDeleted DEF LoggedInInv
<1>3. TypeInv /\ LoggedInInv /\ DeletedInv => LogoutSticks
  <2>1. SUFFICES ASSUME TypeInv, LoggedInInv, DeletedInv, NEW k \in loggedOut
                 PROVE  db[k].val = NoSession
    BY DEF LogoutSticks
  <2>2. k \in ID /\ db[k].val \in Copies
    BY <2>1 DEF TypeInv, TypeOK, Copies
  <2>3. QED
    BY <2>1, <2>2 DEF DeletedInv, LoggedInInv, StoredUnderID
<1>4. QED
  BY <1>1, <1>2, <1>3, TypesAlways, LoggedInAlways, EarlyAlways, PTL DEF Spec

----------------------------------------------------------------------------
(* A login of a browser that sends one request at a time                    *)

\* A copy of the session of a login has the state that the browser was last
\* redirected with.
Due(s) == s.id = jar /\ jar \in flows /\ pending # 0 => s.state = pending

\* IDs are given out in order.
Numbered(p) ==
    /\ jar <= used /\ flows \subseteq 1 .. used
    /\ \A k \in ID : db[k].val # NoSession => k <= used
    /\ loaded[p] => ctx[p].id <= used

\* What the request came with is what the browser still has, and what the
\* middleware did not find is not there later.
Carried(p) ==
    /\ pc[p] # "idle" => cookie[p] = jar
    /\ pc[p] # "idle" /\ kind[p] = "callback" => cb[p] \notin {0, pending}
    /\ pc[p] \in {"handle", "exchange"} /\ loaded[p] => ctx[p].id = cookie[p]
    /\ pc[p] \notin {"idle", "load"} /\ ~loaded[p] => ~Valid(cookie[p])

\* What is stored of the session in the context expires no later than it, and
\* has the same state, unless no redirect goes out or the first save is still
\* to come.
Ahead(p) ==
    loaded[p] =>
        /\ Due(ctx[p])
        /\ db[ctx[p].id].val # NoSession =>
              /\ db[ctx[p].id].val.exp <= ctx[p].exp
              /\ \/ reply[p].state = 0
                 \/ pc[p] \in {"save", "hset"} /\ ~final[p]
                 \/ Expired(now, ctx[p].exp)
                 \/ db[ctx[p].id].val.state = ctx[p].state

\* What is saved is the session in the context; only if that expired, the
\* session of the cookie.
Written(p) ==
    pc[p] \in {"hset", "expire"} =>
        /\ loaded[p] /\ Due(out[p])
        /\ \/ out[p] = ctx[p]
           \/ /\ Expired(now, ctx[p].exp)
              /\ out[p].id = cookie[p] /\ out[p].id # ctx[p].id

\* A callback is accepted only for the last redirect, or outside of a login.
Exchanged(p) ==
    pc[p] = "exchange" =>
        /\ loaded[p] /\ alias[p] /\ mem[p] = ctx[p]
        /\ pending = 0 \/ jar \notin flows

\* A redirect comes with the state of the session in the context, whose cookie
\* the browser has or is about to have.
Answered(p) ==
    /\ reply[p].state # 0 =>
          /\ loaded[p] /\ ctx[p].state = reply[p].state
          /\ ctx[p].id = IF reply[p].cookie = Keep THEN jar ELSE reply[p].cookie
    /\ reply[p].state = 0 /\ reply[p].cookie # Keep => reply[p].cookie \notin flows

PendingInv(p) ==
    /\ Numbered(p) /\ Carried(p) /\ Ahead(p) /\ Written(p) /\ Exchanged(p) /\ Answered(p)
    /\ PendingStateStored

\* What the steps below start from.
Before(p) == TypeOK /\ StoredUnderID /\ Early(p) /\ LivedInv /\ IDsGiven /\ PendingInv(p)

LEMMA PendingSend ==
    ASSUME NEW p \in Request, Before(p), NEW k, NEW b, NEW s, Send(p, k, b, s)
    PROVE  PendingInv(p)'
<1>1. /\ pc[p] = "idle" /\ pc'[p] = "load" /\ cookie'[p] = jar /\ cb'[p] = s /\ kind'[p] = k
      /\ k = "callback" <=> s # 0
      /\ pending' = IF s = pending THEN 0 ELSE pending
      /\ UNCHANGED <<now, db, used, jar, flows, loaded, ctx, mem, alias, out, final, reply>>
  BY DEF Send, Goto, counters, work, saving, history, Before, TypeOK
<1>2. ~loaded[p] /\ reply[p] = NoReply
  BY <1>1 DEF Before, Early
<1>3. Numbered(p)' /\ Ahead(p)' /\ Written(p)' /\ Exchanged(p)'
  BY <1>1, <1>2 DEF Before, PendingInv, Numbered, Ahead, Written, Exchanged
<1>4. Carried(p)'
  BY <1>1 DEF Carried
<1>5. Answered(p)'
  BY <1>1, <1>2 DEF Answered, NoReply
<1>6. PendingStateStored'
  BY <1>1 DEF Before, PendingInv, PendingStateStored, Valid
<1>7. QED
  BY <1>3, <1>4, <1>5, <1>6 DEF PendingInv

\* A lookup finds the session of the context, or, if that expired, the one of
\* the cookie, if that is another one.
LEMMA FoundBefore ==
    ASSUME NEW p \in Request, Before(p), pc[p] \notin {"idle", "load"}, Found(p)
    PROVE  \/ loaded[p] /\ InContext(p) /\ Get(p) = ctx[p]
           \/ ~InContext(p) /\ Get(p) = Ephemeral
           \/ /\ loaded[p] /\ ~InContext(p) /\ Valid(cookie[p]) /\ Expired(now, ctx[p].exp)
              /\ Get(p) = Touch(db[cookie[p]].val) /\ Get(p).id = cookie[p]
              /\ cookie[p] # ctx[p].id
<1>1. CASE InContext(p)
  BY <1>1, GetCases DEF InContext
<1>2. CASE ~InContext(p) /\ ByHeader(p)
  BY <1>2 DEF Get
<1>3. CASE ~InContext(p) /\ ~ByHeader(p)
  <2>1. InStore(p) /\ cookie[p] # NoID
    BY <1>3 DEF Found, InStore
  <2>2. Get(p) = Touch(db[cookie[p]].val) /\ Get(p).id = cookie[p]
    BY <1>3, <2>1, FoundByCookie DEF Before
  <2>3. Valid(cookie[p])
    BY <2>1 DEF InStore, Valid
  <2>4. loaded[p]
    BY <2>3 DEF Before, PendingInv, Carried
  <2>5. Expired(now, ctx[p].exp)
    BY <1>3, <2>4 DEF InContext
  <2>6. cookie[p] # ctx[p].id
    <3>1. SUFFICES ASSUME cookie[p] = ctx[p].id PROVE FALSE
      OBVIOUS
    <3>2. db[ctx[p].id].val # NoSession /\ ~Expired(now, db[ctx[p].id].val.exp)
      BY <2>3, <3>1 DEF Valid
    <3>3. db[ctx[p].id].val.exp <= ctx[p].exp
      BY <2>4, <3>2 DEF Before, PendingInv, Ahead
    <3>4. db[ctx[p].id].val \in Session /\ db[ctx[p].id].val.id = ctx[p].id /\ ctx[p].id # NoID
          /\ ctx[p] \in Session /\ now \in Nat
      BY <3>2, SessionFields DEF Before, TypeOK, StoredUnderID
    <3>5. db[ctx[p].id].val.exp > 0
      <4>1. db[ctx[p].id].val \in Copies
        BY <3>4, SessionFields DEF Copies
      <4>2. QED
        BY <3>4, <4>1 DEF Before, LivedInv, Lived
    <3>6. db[ctx[p].id].val.exp \in Nat /\ ctx[p].exp \in Nat
      BY <3>4, SessionFields
    <3>7. QED
      BY <2>5, <3>2, <3>3, <3>4, <3>5, <3>6 DEF Expired, ZeroTime
  <2>7. QED
    BY <1>3, <2>2, <2>3, <2>4, <2>5, <2>6
<1>4. QED
  BY <1>1, <1>2, <1>3

LEMMA PendingLoad ==
    ASSUME NEW p \in Request, Before(p), Load(p)
    PROVE  PendingInv(p)'
<1>1. /\ pc[p] = "load" /\ pc'[p] = "handle" /\ cookie[p] = jar
      /\ UNCHANGED <<now, db, used, jar, pending, flows, kind, cookie, cb, mem, alias, out, final, reply>>
  BY DEF Load, Goto, counters, browser, input, work, saving, history, Before, TypeOK, PendingInv,
         Carried
<1>2. ~loaded[p] /\ reply[p] = NoReply /\ ~InContext(p)
  BY <1>1 DEF Before, Early, InContext
<1>3. Written(p)' /\ Exchanged(p)' /\ PendingStateStored'
  BY <1>1 DEF Before, PendingInv, Written, Exchanged, PendingStateStored, Valid
<1>4. Answered(p)'
  BY <1>1, <1>2 DEF Answered, NoReply
<1>5. CASE ~Found(p) /\ UNCHANGED <<loaded, ctx>>
  <2>1. ~Valid(cookie[p])
    BY <1>5 DEF Found, InStore, Valid
  <2>2. Numbered(p)' /\ Carried(p)' /\ Ahead(p)'
    BY <1>1, <1>2, <1>5, <2>1 DEF Before, PendingInv, Numbered, Carried, Ahead, Valid
  <2>3. QED
    BY <1>3, <1>4, <2>2 DEF PendingInv
<1>6. CASE Found(p) /\ SetContext(p, Get(p))
  <2>1. loaded'[p] /\ ctx'[p] = Get(p)
    BY <1>6 DEF SetContext, Before, TypeOK
  <2>2. CASE ByHeader(p)
    <3>1. ctx'[p] = Ephemeral /\ cookie[p] = NoID /\ Ephemeral.id = NoID
      BY <1>2, <1>6, <2>1, <2>2, GetCases, MadeFields DEF ByHeader
    <3>2. /\ jar = NoID /\ jar \notin flows /\ db[NoID].val = NoSession /\ NoID <= used
      <4>1. NoID \in ID /\ used \in Nat
        BY Constants DEF NoID, ID, Before, TypeOK
      <4>2. QED
        BY <1>1, <3>1, <4>1 DEF Before, StoredUnderID, PendingInv, Numbered, NoID
    <3>3. Numbered(p)' /\ Carried(p)' /\ Ahead(p)'
      BY <1>1, <2>1, <3>1, <3>2 DEF Before, PendingInv, Numbered, Carried, Ahead, Due
    <3>4. QED
      BY <1>3, <1>4, <3>3 DEF PendingInv
  <2>3. CASE ~ByHeader(p)
    <3> DEFINE s == db[jar].val
    <3>1. InStore(p) /\ ctx'[p] = Touch(s)
      BY <1>1, <1>2, <1>6, <2>1, <2>3, GetCases
    <3>2. jar # NoID /\ s # NoSession /\ Valid(jar) /\ jar \in ID
      BY <1>1, <3>1 DEF InStore, Valid, Before, TypeOK
    <3>3. s \in Session /\ s.id = jar /\ s \in Copies /\ now \in Nat
      BY <3>2 DEF Before, TypeOK, StoredUnderID, Copies
    <3>4. jar \in flows /\ pending # 0 => s.state = pending
      BY <3>2 DEF Before, PendingInv, PendingStateStored
    <3> HIDE DEF s
    <3>5. ctx'[p].id = jar /\ ctx'[p].state = s.state /\ s.exp <= ctx'[p].exp
      <4>1. Lived(s)
        BY <3>3 DEF Before, LivedInv
      <4>2. QED
        BY <3>1, <3>2, <3>3, <4>1, TouchType, TouchLater
    <3>6. Due(ctx[p])'
      BY <1>1, <3>4, <3>5 DEF Due
    <3>7. Ahead(p)'
      <4>1. (db[ctx[p].id].val)' = s
        BY <1>1, <3>5 DEF s
      <4>2. QED
        BY <3>5, <3>6, <4>1 DEF Ahead
    <3>8. Numbered(p)' /\ Carried(p)'
      BY <1>1, <2>1, <3>5 DEF Before, PendingInv, Numbered, Carried
    <3>9. QED
      BY <1>3, <1>4, <3>7, <3>8 DEF PendingInv
  <2>4. QED
    BY <2>2, <2>3
<1>7. QED
  BY <1>5, <1>6 DEF Load

\* A handler that leaves the session alone, but for its sequence.
LEMMA PendingQuiet ==
    ASSUME NEW p \in Request, Before(p),
           \/ Proxy(p) \/ CallbackRejected(p)
           \/ (Ensure(p) \/ LoginFails(p)) /\ UNCHANGED <<counters, loaded, ctx, reply>>
    PROVE  PendingInv(p)'
<1>1. /\ pc[p] = "handle" /\ pc'[p] = "save" /\ final'[p] = TRUE
      /\ UNCHANGED <<now, db, used, jar, pending, flows, kind, cookie, cb, loaded, mem, alias, out, reply>>
  BY DEF Proxy, LoginFails, CallbackRejected, Ensure, StartSave, Goto, counters, browser, input, work,
         history, Before, TypeOK
<1>2. reply[p].state = 0
  BY <1>1 DEF Before, Early, NoReply
<1>3. ctx'[p].id = ctx[p].id /\ ctx'[p].exp = ctx[p].exp /\ ctx'[p].state = ctx[p].state
  <2>1. CASE ctx' = ctx
    BY <2>1
  <2>2. CASE ctx' = [ctx EXCEPT ![p] = Rest(ctx[p])]
    BY <2>2, RestFields DEF Before, TypeOK
  <2>3. CASE CallbackRejected(p)
    BY <2>1, <2>2, <2>3, RejectedContext DEF Before
  <2>4. QED
    BY <2>1, <2>3 DEF Proxy
<1>4. Numbered(p)' /\ Carried(p)' /\ Written(p)' /\ Exchanged(p)' /\ PendingStateStored'
  BY <1>1, <1>3 DEF Before, PendingInv, Numbered, Carried, Written, Exchanged, PendingStateStored, Valid
<1>5. Answered(p)'
  BY <1>1, <1>2 DEF Before, PendingInv, Answered
<1>6. Ahead(p)'
  BY <1>1, <1>2, <1>3 DEF Before, PendingInv, Ahead, Due
<1>7. QED
  BY <1>4, <1>5, <1>6 DEF PendingInv

\* A handler that puts a new session into the context.
LEMMA PendingCreate ==
    ASSUME NEW p \in Request, Before(p), NEW s, s.id = used + 1,
           pc[p] = "handle", pc'[p] = "save", used < MaxSessions, used' = used + 1, loaded'[p], ctx'[p] = s,
           UNCHANGED <<now, db, jar, pending, kind, cookie, cb>>,
           \/ flows' = flows /\ reply'[p].state = 0
           \/ flows' = flows \cup {used + 1} /\ reply'[p].state # 0 /\ s.state = reply'[p].state,
           reply'[p].cookie = used + 1
    PROVE  PendingInv(p)'
<1>1. used \in Nat /\ used + 1 \in ID /\ jar \in Int /\ jar <= used /\ flows \subseteq 1 .. used
      /\ ID \subseteq Int
  <2>1. ID \subseteq Nat /\ used + 1 \in ID
    BY Constants DEF ID, Before, TypeOK
  <2>2. QED
    BY <2>1 DEF Before, TypeOK, PendingInv, Numbered
<1>2. used + 1 # jar /\ used + 1 # Keep /\ used + 1 \notin flows
  BY <1>1 DEF Keep
<1>3. \A k \in ID : db[k].val # NoSession => k <= used
  BY DEF Before, PendingInv, Numbered
<1>4. db[used + 1].val = NoSession
  BY <1>1, <1>3
<1>5. Numbered(p)'
  <2>1. flows' \subseteq 1 .. used + 1
    <3>1. 1 .. used \subseteq 1 .. used + 1 /\ used + 1 \in 1 .. used + 1
      BY <1>1
    <3>2. flows' \subseteq flows \cup {used + 1}
      OBVIOUS
    <3>3. QED
      BY <1>1, <3>1, <3>2, Zenon
  <2>2. \A k \in ID : db'[k].val # NoSession => k <= used + 1
    <3>1. \A k \in ID : k <= used => k <= used + 1
      BY <1>1
    <3>2. QED
      BY <1>3, <3>1, Zenon
  <2>3. jar' <= used + 1 /\ ctx'[p].id <= used + 1
    BY <1>1
  <2>4. QED
    BY <2>1, <2>2, <2>3 DEF Numbered
<1>6. Carried(p)'
  BY DEF Before, PendingInv, Carried
<1>7. Ahead(p)'
  BY <1>2, <1>4 DEF Ahead, Due
<1>8. Written(p)' /\ Exchanged(p)'
  BY DEF Written, Exchanged
<1>9. Answered(p)'
  BY <1>2 DEF Answered
<1>10. PendingStateStored'
  BY <1>2 DEF Before, PendingInv, PendingStateStored, Valid
<1>11. QED
  BY <1>5, <1>6, <1>7, <1>8, <1>9, <1>10 DEF PendingInv

LEMMA PendingLogin ==
    ASSUME NEW p \in Request, Before(p), Login(p)
    PROVE  PendingInv(p)'
<1>1. /\ pc[p] = "handle" /\ pc'[p] = "save" /\ used < MaxSessions /\ used' = used + 1
      /\ UNCHANGED <<now, db, jar, pending, kind, cookie, cb>>
      /\ flows' = flows \cup {used + 1}
  BY DEF Login, Create, StartSave, Goto, browser, input, Before, TypeOK
<1>2. PICK seq \in LoginSequences : loaded'[p] /\ ctx'[p] = Begun(seq, nonce + 1)
  BY DEF Login, Create, SetContext, Begun, Before, TypeOK
<1>3. reply'[p] = [cookie |-> used + 1, state |-> nonce + 1]
  BY DEF Login, Before, TypeOK
<1>4. nonce \in Nat /\ nonce + 1 # 0
  BY Constants DEF Before, TypeOK, State
<1>5. Begun(seq, nonce + 1).id = used + 1 /\ Begun(seq, nonce + 1).state = nonce + 1
  BY BegunKey
<1>6. QED
  BY <1>1, <1>2, <1>3, <1>4, <1>5, PendingCreate

LEMMA PendingLoginFails ==
    ASSUME NEW p \in Request, Before(p), LoginFails(p)
    PROVE  PendingInv(p)'
<1>1. ASSUME NEW seq, NEW n, Create(p, Begun(seq, n)), reply' = [reply EXCEPT ![p].cookie = used + 1]
      PROVE  PendingInv(p)'
  <2>1. /\ pc[p] = "handle" /\ pc'[p] = "save" /\ used < MaxSessions /\ used' = used + 1
        /\ UNCHANGED <<now, db, jar, pending, kind, cookie, cb, flows>>
    BY <1>1 DEF LoginFails, Create, StartSave, Goto, browser, input, history, Before, TypeOK
  <2>2. loaded'[p] /\ ctx'[p] = Begun(seq, n) /\ Begun(seq, n).id = used + 1
    BY <1>1, BegunKey DEF Create, SetContext, Before, TypeOK
  <2>3. reply[p].state = 0
    BY <2>1 DEF Before, Early, NoReply
  <2>4. reply'[p].state = 0 /\ reply'[p].cookie = used + 1
    BY <1>1, <2>3 DEF Before, TypeOK
  <2>5. QED
    BY <2>1, <2>2, <2>4, PendingCreate
<1>2. CASE UNCHANGED <<counters, loaded, ctx, reply>>
  BY <1>2, PendingQuiet
<1>3. QED
  BY <1>1, <1>2 DEF LoginFails

LEMMA PendingEnsure ==
    ASSUME NEW p \in Request, Before(p), Ensure(p)
    PROVE  PendingInv(p)'
<1>1. CASE Create(p, NewSession) /\ reply' = [reply EXCEPT ![p].cookie = used + 1]
  <2>1. /\ pc[p] = "handle" /\ pc'[p] = "save" /\ used < MaxSessions /\ used' = used + 1
        /\ UNCHANGED <<now, db, jar, pending, kind, cookie, cb, flows>>
    BY <1>1 DEF Ensure, Create, StartSave, Goto, browser, input, history, Before, TypeOK
  <2>2. loaded'[p] /\ ctx'[p] = NewSession /\ NewSession.id = used + 1
    BY <1>1, MadeFields DEF Create, SetContext, Before, TypeOK
  <2>3. reply[p].state = 0
    BY <2>1 DEF Before, Early, NoReply
  <2>4. reply'[p].state = 0 /\ reply'[p].cookie = used + 1
    BY <1>1, <2>3 DEF Before, TypeOK
  <2>5. QED
    BY <2>1, <2>2, <2>4, PendingCreate
<1>2. CASE UNCHANGED <<counters, loaded, ctx, reply>>
  BY <1>2, PendingQuiet
<1>3. QED
  BY <1>1, <1>2 DEF Ensure

LEMMA PendingCallback ==
    ASSUME NEW p \in Request, Before(p), Callback(p)
    PROVE  PendingInv(p)'
<1>1. /\ pc[p] = "handle" /\ kind[p] = "callback" /\ Found(p) /\ Get(p).state = cb[p]
      /\ pc'[p] = "exchange" /\ mem'[p] = Get(p) /\ alias'[p] = InContext(p)
      /\ UNCHANGED <<now, db, used, jar, pending, flows, kind, cookie, cb, loaded, ctx, out, final, reply>>
  BY DEF Callback, Accepted, Goto, counters, browser, input, saving, history, Before, TypeOK
<1>2. cookie[p] = jar /\ cb[p] # 0 /\ cb[p] # pending /\ (loaded[p] => ctx[p].id = cookie[p])
  BY <1>1 DEF Before, PendingInv, Carried
<1>3. Ephemeral.state = 0
  BY MadeFields
<1>4. loaded[p] /\ InContext(p) /\ Get(p) = ctx[p]
  BY <1>1, <1>2, <1>3, FoundBefore
<1>5. pending = 0 \/ jar \notin flows
  BY <1>1, <1>2, <1>4 DEF Before, PendingInv, Ahead, Due
<1>6. Exchanged(p)'
  BY <1>1, <1>4, <1>5 DEF Exchanged
<1>7. Numbered(p)' /\ Carried(p)' /\ Written(p)' /\ Answered(p)' /\ PendingStateStored'
  BY <1>1, <1>4 DEF Before, PendingInv, Numbered, Carried, Written, Answered, PendingStateStored, Valid
<1>8. Ahead(p)'
  BY <1>1 DEF Before, PendingInv, Ahead, Due
<1>9. QED
  BY <1>6, <1>7, <1>8 DEF PendingInv

LEMMA PendingExchange ==
    ASSUME NEW p \in Request, Before(p), TypeInv, ExchangeFails(p) \/ \E b \in BOOLEAN : Exchange(p, b)
    PROVE  PendingInv(p)'
<1>1. PICK s \in {Rest(mem[p]), RestLoggedIn(mem[p])}, redirected \in BOOLEAN :
           NextAuthStep(p, s, redirected)
  <2>1. CASE ExchangeFails(p)
    <3>1. NextAuthStep(p, Rest(mem[p]), FALSE)
      BY <2>1 DEF ExchangeFails, Rest
    <3>2. QED
      BY <3>1
  <2>2. ASSUME NEW b \in BOOLEAN, Exchange(p, b)
        PROVE  NextAuthStep(p, RestLoggedIn(mem[p]), b)
    BY <2>2 DEF Exchange, RestLoggedIn
  <2>3. QED
    BY <2>1, <2>2
<1>2. /\ pc[p] = "exchange" /\ loaded[p] /\ alias[p] /\ mem[p] = ctx[p] /\ reply[p] = NoReply
      /\ cookie[p] = jar /\ ctx[p].id = cookie[p] /\ (pending = 0 \/ jar \notin flows)
  BY DEF Exchange, ExchangeFails, Before, PendingInv, Exchanged, Carried, Early
<1>3. ctx[p] \in Session /\ s \in Session
  BY <1>1, <1>2, ExchangeCopies
<1>4. s.id = ctx[p].id /\ s.exp = ctx[p].exp
  BY <1>1, <1>2, <1>3, RestFields, RestLoggedInFields
<1>5. /\ pc'[p] = "save" /\ UNCHANGED <<now, db, used, jar, pending, flows, kind, cookie, cb, loaded>>
  BY <1>1, <1>2 DEF NextAuthStep, StartSave, Goto, browser, input, Before, TypeOK
<1>6. /\ ctx'[p].id = jar /\ ctx'[p].exp = ctx[p].exp /\ reply'[p].cookie = Keep
      /\ \/ reply'[p].state = 0
         \/ final'[p] = FALSE /\ ctx'[p].state = reply'[p].state
  <2>1. CASE reply' = reply /\ ctx'[p] = s
    BY <1>2, <1>4, <2>1 DEF NoReply
  <2>2. CASE reply' = reply /\ ctx'[p] = [s EXCEPT !.state = nonce + 1]
    <3>1. ctx'[p].id = s.id /\ ctx'[p].exp = s.exp
      BY <1>3, <2>2 DEF Session
    <3>2. QED
      BY <1>2, <1>4, <2>2, <3>1 DEF NoReply
  <2>3. CASE /\ reply' = [reply EXCEPT ![p].state = nonce + 1] /\ StartSave(p, FALSE)
             /\ ctx'[p] = [s EXCEPT !.state = nonce + 1]
    <3>1. ctx'[p].id = s.id /\ ctx'[p].exp = s.exp /\ ctx'[p].state = nonce + 1
      BY <1>3, <2>3 DEF Session
    <3>2. final'[p] = FALSE
      BY <2>3 DEF StartSave, Before, TypeOK
    <3>3. reply'[p].cookie = Keep /\ reply'[p].state = nonce + 1
      BY <1>2, <2>3 DEF Before, TypeOK, NoReply
    <3>4. QED
      BY <1>2, <1>4, <3>1, <3>2, <3>3
  <2>4. \/ reply' = reply /\ ctx' = [ctx EXCEPT ![p] = s]
        \/ /\ ctx' = [ctx EXCEPT ![p] = [s EXCEPT !.state = nonce + 1]]
           /\ \/ reply' = reply
              \/ reply' = [reply EXCEPT ![p].state = nonce + 1] /\ StartSave(p, FALSE)
    <3>1. \/ /\ ctx' = IF alias[p] THEN [ctx EXCEPT ![p] = s] ELSE ctx
             /\ UNCHANGED <<nonce, issuer, reply>>
          \/ /\ ctx' = IF alias[p] THEN [ctx EXCEPT ![p] = [s EXCEPT !.state = nonce + 1]] ELSE ctx
             /\ \/ reply' = reply
                \/ reply' = [reply EXCEPT ![p].state = nonce + 1] /\ StartSave(p, FALSE)
      BY <1>1 DEF NextAuthStep
    <3>2. QED
      BY <1>2, <3>1
  <2>5. \/ reply' = reply /\ ctx'[p] = s
        \/ /\ ctx'[p] = [s EXCEPT !.state = nonce + 1]
           /\ \/ reply' = reply
              \/ reply' = [reply EXCEPT ![p].state = nonce + 1] /\ StartSave(p, FALSE)
    BY <2>4 DEF Before, TypeOK
  <2>6. QED
    BY <2>1, <2>2, <2>3, <2>5
<1>7. Numbered(p)' /\ Carried(p)' /\ Written(p)' /\ Exchanged(p)' /\ PendingStateStored'
  <2>1. Numbered(p)'
    BY <1>5, <1>6 DEF Before, PendingInv, Numbered
  <2>2. Carried(p)'
    BY <1>2, <1>5, <1>6 DEF Before, PendingInv, Carried
  <2>3. Written(p)' /\ Exchanged(p)'
    BY <1>5 DEF Written, Exchanged
  <2>4. PendingStateStored'
    BY <1>5 DEF Before, PendingInv, PendingStateStored, Valid
  <2>5. QED
    BY <2>1, <2>2, <2>3, <2>4
<1>8. Ahead(p)'
  BY <1>2, <1>5, <1>6 DEF Before, PendingInv, Ahead, Due
<1>9. Answered(p)'
  BY <1>2, <1>5, <1>6 DEF Answered
<1>10. QED
  BY <1>7, <1>8, <1>9 DEF PendingInv

LEMMA PendingLogout ==
    ASSUME NEW p \in Request, Before(p), Logout(p)
    PROVE  PendingInv(p)'
<1>1. /\ pc[p] = "handle" /\ pc'[p] = "save" /\ loaded'[p] /\ ctx'[p] = NoSession
      /\ UNCHANGED <<now, used, jar, pending, flows, kind, cookie, cb>>
      /\ reply' = [reply EXCEPT ![p].cookie = NoID]
      /\ db' = db \/ db' = [db EXCEPT ![cookie[p]] = Absent(NoSession)]
  BY DEF Logout, Delete, SetContext, StartSave, Goto, counters, browser, input, Before, TypeOK
<1>2. reply[p] = NoReply
  BY <1>1 DEF Before, Early
<1>3. \A k \in ID : db'[k].val = db[k].val \/ db'[k].val = NoSession
  <2>1. db \in [ID -> [val : Session, ttl : Nat]] /\ Absent(NoSession).val = NoSession
    BY DEF Before, TypeOK, Absent
  <2>2. QED
    BY <1>1, <2>1
<1>4. reply'[p].cookie = NoID /\ reply'[p].state = 0 /\ NoSession.id = NoID
  <2>1. reply \in [Request -> [cookie : ID \cup {Keep}, state : State]] /\ reply[p].state = 0
    BY <1>2 DEF Before, TypeOK, NoReply
  <2>2. reply'[p].cookie = NoID /\ reply'[p].state = 0
    BY <1>1, <2>1
  <2>3. QED
    BY <2>2, MadeFields
<1>5. NoID \in ID /\ NoID <= used /\ NoID \notin flows /\ jar \in ID
  BY Constants DEF Before, TypeOK, PendingInv, Numbered, NoID, ID
<1>6. db'[NoID].val = NoSession
  BY <1>3, <1>5 DEF Before, StoredUnderID
<1>7. Numbered(p)'
  BY <1>1, <1>3, <1>4, <1>5 DEF Before, PendingInv, Numbered
<1>8. Carried(p)' /\ Written(p)' /\ Exchanged(p)'
  BY <1>1 DEF Before, PendingInv, Carried, Written, Exchanged
<1>9. Ahead(p)'
  BY <1>1, <1>4, <1>5, <1>6 DEF Ahead, Due
<1>10. Answered(p)'
  BY <1>1, <1>4, <1>5 DEF Answered
<1>11. PendingStateStored'
  BY <1>1, <1>3, <1>5 DEF Before, PendingInv, PendingStateStored, Valid
<1>12. QED
  BY <1>7, <1>8, <1>9, <1>10, <1>11 DEF PendingInv

----------------------------------------------------------------------------
(* The saves at the end, and the response                                   *)

\* A save that finds nothing to write, when reads do not fail.
LEMMA PendingSkip ==
    ASSUME NEW p \in Request, Before(p), pc[p] = "save", ~(Found(p) /\ Get(p).id # NoID), AfterSave(p),
           UNCHANGED <<now, db, used, jar, pending, flows, kind, cookie, cb, loaded, ctx, reply>>
    PROVE  PendingInv(p)'
<1>1. pc'[p] \in {"save", "end"} /\ (pc'[p] = "save" => final'[p] = TRUE)
  BY DEF AfterSave, StartSave, Goto, Before, TypeOK
<1>2. loaded[p] /\ db[ctx[p].id].val # NoSession => Expired(now, ctx[p].exp)
  <2>1. SUFFICES ASSUME loaded[p], ~Expired(now, ctx[p].exp)
                 PROVE  db[ctx[p].id].val = NoSession
    OBVIOUS
  <2>2. ctx[p].id = NoID
    BY <2>1, GetCases DEF InContext, Found
  <2>3. ctx[p].id \in ID
    BY SessionFields DEF Before, TypeOK
  <2>4. QED
    BY <2>2, <2>3 DEF Before, StoredUnderID
<1>3. Numbered(p)' /\ Carried(p)' /\ Written(p)' /\ Exchanged(p)' /\ Answered(p)' /\ PendingStateStored'
  BY <1>1 DEF Before, PendingInv, Numbered, Carried, Written, Exchanged, Answered, PendingStateStored,
              Valid
<1>4. Ahead(p)'
  BY <1>1, <1>2 DEF Before, PendingInv, Ahead, Due
<1>5. QED
  BY <1>3, <1>4 DEF PendingInv

LEMMA PendingSave ==
    ASSUME NEW p \in Request, Before(p), ~ReadMayFail, Save(p)
    PROVE  PendingInv(p)'
<1>1. /\ pc[p] = "save"
      /\ UNCHANGED <<now, db, used, jar, pending, flows, kind, cookie, cb, loaded, ctx, reply>>
  BY DEF Save, counters, browser, input, history
<1>2. CASE ~(Found(p) /\ Get(p).id # NoID)
  BY <1>1, <1>2, PendingSkip DEF Save
<1>3. CASE Found(p) /\ Get(p).id # NoID
  <2>1. pc'[p] = "hset" /\ out'[p] = Get(p) /\ final' = final
    BY <1>3 DEF Save, Goto, Before, TypeOK
  <2>2. Ephemeral.id = NoID
    BY MadeFields
  <2>3. \/ loaded[p] /\ Get(p) = ctx[p]
        \/ /\ loaded[p] /\ Valid(cookie[p]) /\ Expired(now, ctx[p].exp)
           /\ Get(p) = Touch(db[cookie[p]].val) /\ Get(p).id = cookie[p]
           /\ cookie[p] # ctx[p].id
    BY <1>1, <1>3, <2>2, FoundBefore
  <2>4. cookie[p] = jar
    BY <1>1 DEF Before, PendingInv, Carried
  <2>5. Due(Get(p))
    <3>1. CASE Get(p) = ctx[p]
      BY <2>3, <3>1 DEF Before, PendingInv, Ahead
    <3>2. CASE Valid(cookie[p]) /\ Get(p) = Touch(db[cookie[p]].val)
      <4>1. db[cookie[p]].val \in Session /\ now \in Nat
        BY <3>2 DEF Before, TypeOK
      <4>2. Get(p).state = db[cookie[p]].val.state
        BY <3>2, <4>1, TouchType
      <4>3. QED
        BY <2>4, <3>2, <4>2 DEF Due, Before, PendingInv, PendingStateStored
    <3>3. QED
      BY <2>3, <3>1, <3>2
  <2>6. Written(p)'
    <3>1. Due(out[p])'
      BY <1>1, <2>1, <2>5 DEF Due
    <3>2. QED
      BY <1>1, <2>1, <2>3, <3>1 DEF Written
  <2>7. Numbered(p)' /\ Carried(p)' /\ Exchanged(p)' /\ Answered(p)' /\ PendingStateStored'
    BY <1>1, <2>1 DEF Before, PendingInv, Numbered, Carried, Exchanged, Answered, PendingStateStored,
                      Valid
  <2>8. Ahead(p)'
    BY <1>1, <2>1 DEF Before, PendingInv, Ahead, Due
  <2>9. QED
    BY <2>6, <2>7, <2>8 DEF PendingInv
<1>4. QED
  BY <1>2, <1>3

LEMMA PendingWriteHash ==
    ASSUME NEW p \in Request, Before(p), WriteHash(p)
    PROVE  PendingInv(p)'
<1>1. /\ pc[p] = "hset" /\ pc'[p] = "expire"
      /\ db' = [db EXCEPT ![out[p].id] = HSet(@, out[p])]
      /\ UNCHANGED <<now, used, jar, pending, flows, kind, cookie, cb, loaded, ctx, out, final, reply>>
  BY DEF WriteHash, Goto, counters, browser, input, saving, history, Before, TypeOK
<1>2. /\ loaded[p] /\ Due(out[p]) /\ cookie[p] = jar
      /\ \/ out[p] = ctx[p]
         \/ Expired(now, ctx[p].exp) /\ out[p].id = cookie[p] /\ out[p].id # ctx[p].id
  BY <1>1 DEF Before, PendingInv, Written, Carried
<1>3. out[p].id \in ID /\ ctx[p].id \in ID /\ ctx[p].exp \in Nat /\ jar \in ID
  BY SessionFields DEF Before, TypeOK
<1>4. \A k \in ID : db'[k].val = IF k = out[p].id THEN out[p] ELSE db[k].val
  <2>1. db \in [ID -> [val : Session, ttl : Nat]]
    BY DEF Before, TypeOK
  <2>2. \A k \in ID : HSet(db[k], out[p]).val = out[p]
    BY <2>1 DEF HSet
  <2>3. QED
    BY <1>1, <1>3, <2>1, <2>2
<1>5. ctx[p].id <= used /\ jar <= used
  BY <1>2 DEF Before, PendingInv, Numbered
<1>6. Numbered(p)'
  BY <1>1, <1>2, <1>4, <1>5 DEF Before, PendingInv, Numbered
<1>7. Carried(p)' /\ Exchanged(p)' /\ Answered(p)'
  BY <1>1, <1>2 DEF Before, PendingInv, Carried, Exchanged, Answered
<1>8. Written(p)'
  BY <1>1, <1>2 DEF Written, Due
<1>9. Ahead(p)'
  <2>1. Due(ctx[p])'
    BY <1>1, <1>2 DEF Before, PendingInv, Ahead, Due
  <2>2. CASE out[p] = ctx[p]
    <3>1. db'[ctx'[p].id].val = ctx'[p] /\ ctx'[p].exp \in Nat
      BY <1>1, <1>3, <1>4, <2>2
    <3>2. QED
      BY <2>1, <3>1 DEF Ahead
  <2>3. CASE Expired(now, ctx[p].exp) /\ out[p].id # ctx[p].id
    <3>1. db'[ctx'[p].id].val = db[ctx[p].id].val /\ Expired(now, ctx[p].exp)'
      BY <1>1, <1>3, <1>4, <2>3 DEF Expired
    <3>2. QED
      BY <1>1, <1>2, <2>1, <3>1 DEF Before, PendingInv, Ahead
  <2>4. QED
    BY <1>2, <2>2, <2>3
<1>10. PendingStateStored'
  <2>1. CASE jar = out[p].id
    <3>1. db'[jar].val = out[p]
      BY <1>3, <1>4, <2>1
    <3>2. QED
      BY <1>1, <1>2, <2>1, <3>1 DEF PendingStateStored, Due
  <2>2. CASE jar # out[p].id
    <3>1. db'[jar].val = db[jar].val
      BY <1>3, <1>4, <2>2
    <3>2. QED
      BY <1>1, <3>1 DEF Before, PendingInv, PendingStateStored, Valid
  <2>3. QED
    BY <2>1, <2>2
<1>11. QED
  BY <1>6, <1>7, <1>8, <1>9, <1>10 DEF PendingInv

\* A step that at most removes keys, and goes on after a save.
LEMMA PendingWriteTTL ==
    ASSUME NEW p \in Request, Before(p), WriteTTL(p)
    PROVE  PendingInv(p)'
<1>1. /\ pc[p] = "expire"
      /\ UNCHANGED <<now, used, jar, pending, flows, kind, cookie, cb, loaded, ctx, reply>>
  BY DEF WriteTTL, counters, browser, input
<1>2. pc'[p] \in {"save", "end"} /\ (pc'[p] = "save" => final'[p] = TRUE)
  BY DEF WriteTTL, AfterSave, StartSave, Goto, Before, TypeOK
<1>3. \A k \in ID : db'[k].val = db[k].val \/ db'[k].val = NoSession
  <2>1. /\ db' = [db EXCEPT ![out[p].id] = ExpireAt(@, NoSession, out[p].exp + Leeway, now)]
        /\ db \in [ID -> [val : Session, ttl : Nat]]
    BY DEF WriteTTL, Before, TypeOK
  <2>2. \A k \in ID : \A at : ExpireAt(db[k], NoSession, at, now).val \in {db[k].val, NoSession}
    BY <2>1 DEF ExpireAt, Absent
  <2>3. QED
    BY <2>1, <2>2
<1>4. loaded[p] /\ ctx[p].id \in ID /\ jar \in ID
  BY <1>1, SessionFields DEF Before, TypeOK, PendingInv, Written
<1>5. Numbered(p)'
  BY <1>1, <1>3 DEF Before, PendingInv, Numbered
<1>6. Carried(p)' /\ Written(p)' /\ Exchanged(p)' /\ Answered(p)'
  BY <1>1, <1>2, <1>4 DEF Before, PendingInv, Carried, Written, Exchanged, Answered
<1>7. Ahead(p)'
  <2>1. db'[ctx[p].id].val = db[ctx[p].id].val \/ db'[ctx[p].id].val = NoSession
    BY <1>3, <1>4
  <2>2. QED
    BY <1>1, <1>2, <2>1 DEF Before, PendingInv, Ahead, Due
<1>8. PendingStateStored'
  <2>1. db'[jar].val = db[jar].val \/ db'[jar].val = NoSession
    BY <1>3, <1>4
  <2>2. QED
    BY <1>1, <2>1 DEF Before, PendingInv, PendingStateStored, Valid
<1>9. QED
  BY <1>5, <1>6, <1>7, <1>8 DEF PendingInv

LEMMA PendingRespond ==
    ASSUME NEW p \in Request, Before(p), Respond(p)
    PROVE  PendingInv(p)'
<1>1. /\ pc[p] = "end" /\ pc'[p] = "idle" /\ ~loaded'[p] /\ reply'[p] = NoReply
      /\ UNCHANGED <<now, db, used, flows>>
      /\ jar' = IF reply[p].cookie = Keep THEN jar ELSE reply[p].cookie
      /\ pending' = IF reply[p].state = 0 THEN pending ELSE reply[p].state
  BY DEF Respond, Forget, Goto, counters, Before, TypeOK
<1>2. jar' \in ID
  BY <1>1 DEF Before, TypeOK
<1>3. PendingStateStored'
  <2>1. CASE reply[p].state = 0 /\ reply[p].cookie = Keep
    BY <1>1, <2>1 DEF Before, PendingInv, PendingStateStored, Valid
  <2>2. CASE reply[p].state = 0 /\ reply[p].cookie # Keep
    BY <1>1, <2>2 DEF Before, PendingInv, Answered, PendingStateStored
  <2>3. CASE reply[p].state # 0
    <3>1. loaded[p] /\ ctx[p].id = jar' /\ ctx[p].state = pending'
      BY <1>1, <2>3 DEF Before, PendingInv, Answered
    <3>2. SUFFICES ASSUME Valid(jar)' PROVE db[jar'].val.state = pending'
      BY <1>1 DEF PendingStateStored
    <3> DEFINE s == db[jar'].val
    <3>3. s # NoSession /\ jar' # NoID /\ ~Expired(now, s.exp)
      BY <1>1, <3>2 DEF Valid
    <3>4. /\ s.exp <= ctx[p].exp
          /\ Expired(now, ctx[p].exp) \/ s.state = ctx[p].state
      BY <1>1, <2>3, <3>1, <3>3 DEF Before, PendingInv, Ahead
    <3>5. s \in Session /\ s \in Copies /\ s.id = jar' /\ ctx[p] \in Session /\ now \in Nat
      BY <1>2, <3>3 DEF Before, TypeOK, StoredUnderID, Copies
    <3>6. s.exp > 0
      BY <3>3, <3>5 DEF Before, LivedInv, Lived
    <3>7. s.exp \in Nat /\ ctx[p].exp \in Nat
      BY <3>5, SessionFields
    <3> HIDE DEF s
    <3>8. ~Expired(now, ctx[p].exp)
      BY <3>3, <3>4, <3>5, <3>6, <3>7 DEF Expired, ZeroTime
    <3>9. QED
      BY <3>1, <3>4, <3>8 DEF s
  <2>4. QED
    BY <2>1, <2>2, <2>3
<1>4. Numbered(p)'
  <2>1. jar' <= used
    <3>1. CASE reply[p].cookie = Keep
      BY <1>1, <3>1 DEF Before, PendingInv, Numbered
    <3>2. CASE reply[p].cookie # Keep
      BY <1>1, <3>2 DEF Before, IDsGiven
    <3>3. QED
      BY <3>1, <3>2
  <2>2. QED
    BY <1>1, <2>1 DEF Before, PendingInv, Numbered
<1>5. Carried(p)' /\ Ahead(p)' /\ Written(p)' /\ Exchanged(p)'
  BY <1>1 DEF Carried, Ahead, Written, Exchanged
<1>6. Answered(p)'
  BY <1>1 DEF Answered, NoReply
<1>7. QED
  BY <1>3, <1>4, <1>5, <1>6 DEF PendingInv

LEMMA PendingTick ==
    ASSUME TypeOK, PendingStateStored, Tick
    PROVE  /\ PendingStateStored'
           /\ \A p \in Request : PendingInv(p) => PendingInv(p)'
<1>1. /\ now' = now + 1 /\ now \in Nat /\ jar \in ID
      /\ UNCHANGED <<used, jar, pending, pc, flows, kind, cookie, cb, loaded, ctx, mem, alias, out, final,
                     reply>>
  BY DEF Tick, counters, browser, input, work, saving, history, TypeOK
<1>2. \A k \in ID : db'[k].val = db[k].val \/ db'[k].val = NoSession
  BY DEF Tick, Evict, Absent
<1>3. \A e \in Nat : Expired(now, e) => Expired(now', e)
  BY <1>1 DEF Expired
<1>4. \A k \in ID : Valid(k)' => Valid(k) /\ db'[k].val = db[k].val
  <2>1. SUFFICES ASSUME NEW k \in ID, Valid(k)'
                 PROVE  Valid(k) /\ db'[k].val = db[k].val
    OBVIOUS
  <2>2. k # NoID /\ db'[k].val # NoSession /\ ~Expired(now', db'[k].val.exp)
    BY <2>1 DEF Valid
  <2>3. db'[k].val = db[k].val /\ db[k].val \in Session
    BY <1>2, <2>1, <2>2 DEF TypeOK
  <2>4. db[k].val.exp \in Nat
    BY <2>3, SessionFields
  <2>5. QED
    BY <1>3, <2>2, <2>3, <2>4 DEF Valid
<1>5. PendingStateStored'
  BY <1>1, <1>4 DEF PendingStateStored
<1>6. ASSUME NEW p \in Request, PendingInv(p) PROVE PendingInv(p)'
  <2>1. ctx[p] \in Session /\ cookie[p] \in ID
    BY DEF TypeOK
  <2>2. ctx[p].id \in ID /\ ctx[p].exp \in Nat
    BY <2>1, SessionFields
  <2>3. Numbered(p)'
    BY <1>1, <1>2, <1>6 DEF PendingInv, Numbered
  <2>4. Carried(p)'
    BY <1>1, <1>4, <1>6, <2>1 DEF PendingInv, Carried
  <2>5. Expired(now, ctx[p].exp) => Expired(now', ctx'[p].exp)
    BY <1>1, <1>3, <2>2
  <2>6. Ahead(p)'
    <3>1. db'[ctx[p].id].val = db[ctx[p].id].val \/ db'[ctx[p].id].val = NoSession
      BY <1>2, <2>2
    <3>2. QED
      BY <1>1, <1>6, <2>5, <3>1 DEF PendingInv, Ahead, Due
  <2>7. Written(p)'
    BY <1>1, <1>6, <2>5 DEF PendingInv, Written, Due
  <2>8. Exchanged(p)' /\ Answered(p)'
    BY <1>1, <1>6 DEF PendingInv, Exchanged, Answered
  <2>9. QED
    BY <1>5, <2>3, <2>4, <2>6, <2>7, <2>8 DEF PendingInv
<1>7. QED
  BY <1>5, <1>6

LEMMA IDsGivenAlways == Spec => []IDsGiven
<1>1. Init => IDsGiven
  BY DEF Init, IDsGiven, NoID, NoReply, Keep
<1>2. TypeInv /\ IDsGiven /\ [Next]_vars => IDsGiven'
  BY NextIDsGiven DEF TypeInv
<1>3. QED
  BY <1>1, <1>2, TypesAlways, PTL DEF Spec

\* When a browser sends one request at a time, and Redis and the replicas do not
\* fail, the stored session of a login always has the state that the browser was
\* last redirected with, so that the callback will find it: "ensure we save the
\* session before sending redirects" (login_server_routes.go:237).  Sessions
\* that expire between two steps of a request are no exception.
THEOREM PendingStateStoredAlone ==
    ASSUME OneAtATime, ~FaultsAllowed, ~CancelAllowed
    PROVE  Spec => []PendingStateStored
<1> DEFINE Stored == PendingStateStored /\ \A p \in Request : PendingInv(p)
<1>1. Init => Stored
  <2>1. SUFFICES ASSUME Init PROVE Stored
    OBVIOUS
  <2>2. PendingStateStored
    BY <2>1 DEF Init, PendingStateStored
  <2>3. ASSUME NEW p \in Request PROVE PendingInv(p)
    <3>1. /\ jar = 0 /\ used = 0 /\ flows = {} /\ pc[p] = "idle" /\ ~loaded[p] /\ reply[p] = NoReply
          /\ \A k \in ID : db[k].val = NoSession
      BY <2>1 DEF Init, NoID, Absent
    <3>2. QED
      BY <2>2, <3>1 DEF PendingInv, Numbered, Carried, Ahead, Written, Exchanged, Answered, NoReply
  <2>4. QED
    BY <2>2, <2>3
<1>2. TypeInv /\ LoggedInInv /\ EarlyInv /\ LivedInv /\ IDsGiven /\ Stored /\ [Next]_vars => Stored'
  <2>1. SUFFICES ASSUME TypeInv, LoggedInInv, EarlyInv, LivedInv, IDsGiven, Stored, [Next]_vars
                 PROVE  Stored'
    OBVIOUS
  <2>2. \A p \in Request : Before(p)
    BY <2>1 DEF Before, TypeInv, LoggedInInv, EarlyInv
  <2>3. ~ReadMayFail
    BY DEF ReadMayFail
  <2>4. ASSUME NEW p \in Request, RequestStep(p) PROVE PendingInv(p)'
    <3>1. ~LoadFails(p) /\ ~SaveFails(p) /\ ~ResponseLost(p) /\ ~Crash(p)
      BY <2>3 DEF LoadFails, SaveFails, ResponseLost, Crash
    <3>2. CASE \E k, b, s : Send(p, k, b, s)
      BY <2>2, <3>2, PendingSend
    <3>3. CASE Load(p) \/ Proxy(p) \/ CallbackRejected(p) \/ Callback(p) \/ Logout(p)
      BY <2>2, <3>3, PendingLoad, PendingQuiet, PendingCallback, PendingLogout
    <3>4. CASE Ensure(p) \/ Login(p) \/ LoginFails(p)
      BY <2>2, <3>4, PendingEnsure, PendingLogin, PendingLoginFails
    <3>5. CASE ExchangeFails(p) \/ \E b \in BOOLEAN : Exchange(p, b)
      BY <2>1, <2>2, <3>5, PendingExchange
    <3>6. CASE Saving(p) \/ Respond(p)
      BY <2>2, <2>3, <3>6, PendingSave, PendingWriteHash, PendingWriteTTL, PendingRespond DEF Saving
    <3>7. QED
      BY <2>4, <3>1, <3>2, <3>3, <3>4, <3>5, <3>6 DEF RequestStep, Handle
  <2>5. ASSUME NEW p \in Request, RequestStep(p) PROVE Stored'
    <3>1. PendingInv(p)'
      BY <2>4, <2>5
    <3>2. \A q \in Request : q = p
      BY DEF OneAtATime
    <3>3. QED
      BY <3>1, <3>2 DEF PendingInv
  <2>6. CASE Tick
    BY <2>1, <2>6, PendingTick DEF TypeInv
  <2>7. CASE UNCHANGED vars
    BY <2>1, <2>7 DEF vars, PendingInv, Numbered, Carried, Ahead, Written, Exchanged, Answered, Due, Valid,
                      PendingStateStored
  <2>8. QED
    BY <2>1, <2>5, <2>6, <2>7, NextSteps
<1>3. Stored => PendingStateStored
  OBVIOUS
<1>4. QED
  BY <1>1, <1>2, <1>3, TypesAlways, LoggedInAlways, EarlyAlways, LivedAlways, IDsGivenAlways, PTL DEF Spec
=============================================================================
