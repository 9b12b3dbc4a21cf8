------------------------ MODULE SessionLifetimeProofs ------------------------
(***************************************************************************)
(* A session lives as long as the configuration says, for every             *)
(* configuration whose maximum is not zero.                                 *)
(***************************************************************************)
EXTENDS SessionLifetime, TLAPS

\* The inductive invariant: the types, and ExpiresAt as the earlier of the two
\* limits.
LifetimeInv == TypeOK /\ EarlierLimit

\* A new session has the expiry of a session used once, when it is created: a
\* valid idle TTL is not longer than the maximum.
LEMMA FirstIsEarlier ==
    ASSUME NEW c \in [idle : Int, max : Int], ValidTTLs(c.idle, c.max), c.max # 0,
           NEW t \in Nat
    PROVE  /\ FirstExpiry(t, c.idle, c.max) = t + c.idle
           /\ c.max > 0 => t + c.idle <= t + c.max
BY DEF ValidTTLs, FirstExpiry

\* Touch gives the earlier of the two limits.
LEMMA TouchedIsEarlier ==
    ASSUME NEW c \in [idle : Int, max : Int], ValidTTLs(c.idle, c.max), c.max # 0,
           NEW t \in Nat, NEW born \in Nat
    PROVE  Touched(t, born, c.idle, c.max) =
             IF c.max > 0 /\ t + c.idle > born + c.max THEN born + c.max ELSE t + c.idle
BY DEF ValidTTLs, Touched

\* Whatever the configuration, Touch and NewSession give natural numbers.
LEMMA ExpiryType ==
    ASSUME NEW c \in [idle : Int, max : Int], ValidTTLs(c.idle, c.max),
           NEW t \in Nat, NEW born \in Nat
    PROVE  /\ Touched(t, born, c.idle, c.max) \in Nat
           /\ FirstExpiry(t, c.idle, c.max) \in Nat
<1>1. c.idle \in Nat \ {0} /\ c.max \in Int
  BY DEF ValidTTLs
<1>2. Touched(t, born, c.idle, c.max) \in Nat
  BY <1>1 DEF Touched, ZeroTime
<1>3. FirstExpiry(t, c.idle, c.max) \in Nat
  BY <1>1 DEF FirstExpiry, ZeroTime
<1>4. QED
  BY <1>2, <1>3

\* A new session satisfies the invariant.
LEMMA InitLifetime == Init => LifetimeInv
<1>1. SUFFICES ASSUME Init PROVE LifetimeInv
  OBVIOUS
<1>2. config \in [idle : Int, max : Int] /\ ValidTTLs(config.idle, config.max)
  BY <1>1, LifetimeAssumption DEF Init
<1>3. now = 1 /\ created = 1 /\ last = 1
  BY <1>1 DEF Init, Start
<1>4. exp = FirstExpiry(1, config.idle, config.max)
  BY <1>1, <1>3 DEF Init
<1>5. TypeOK
  BY <1>1, <1>2, <1>3, <1>4, ExpiryType DEF TypeOK, Init, ZeroTime
<1>6. EarlierLimit
  BY <1>2, <1>3, <1>4, FirstIsEarlier DEF EarlierLimit
<1>7. QED
  BY <1>5, <1>6 DEF LifetimeInv

\* Every use and every tick preserves it.
LEMMA NextLifetime == LifetimeInv /\ [Next]_vars => LifetimeInv'
<1>1. SUFFICES ASSUME LifetimeInv, [Next]_vars PROVE LifetimeInv'
  OBVIOUS
<1>2. /\ config \in [idle : Int, max : Int] /\ ValidTTLs(config.idle, config.max)
      /\ now \in Nat /\ created \in Nat
  BY <1>1, LifetimeAssumption DEF LifetimeInv, TypeOK
<1>3. CASE Use
  <2>1. exp' = Touched(now, created, config.idle, config.max) /\ last' = now
    BY <1>3 DEF Use
  <2>2. UNCHANGED <<now, config, created>>
    BY <1>3 DEF Use
  <2>3. TypeOK'
    BY <1>1, <1>2, <2>1, <2>2, ExpiryType DEF LifetimeInv, TypeOK
  <2>4. EarlierLimit'
    BY <1>2, <2>1, <2>2, TouchedIsEarlier DEF EarlierLimit
  <2>5. QED
    BY <2>3, <2>4 DEF LifetimeInv
<1>4. CASE Tick
  BY <1>1, <1>4 DEF Tick, LifetimeInv, TypeOK, EarlierLimit
<1>5. CASE UNCHANGED vars
  BY <1>1, <1>5 DEF vars, LifetimeInv, TypeOK, EarlierLimit
<1>6. QED
  BY <1>1, <1>3, <1>4, <1>5 DEF Next

\* The type invariant and the earlier limit hold in every reachable state.
THEOREM LifetimeAlways == Spec => []LifetimeInv
<1>1. Init => LifetimeInv
  BY InitLifetime
<1>2. LifetimeInv /\ [Next]_vars => LifetimeInv'
  BY NextLifetime
<1>3. QED
  BY <1>1, <1>2, PTL DEF Spec

\* The types, by themselves.
THEOREM LifetimeTypeCorrect == Spec => []TypeOK
<1>1. LifetimeInv => TypeOK
  BY DEF LifetimeInv
<1>2. QED
  BY <1>1, LifetimeAlways, PTL

\* An expiry that is the earlier of the two limits has passed exactly when one
\* of them has, unless the maximum is zero.
LEMMA LifetimeIsAsConfigured ==
    ASSUME \A c \in Configured : c.max # 0
    PROVE  LifetimeInv => AsConfigured
<1>1. SUFFICES ASSUME LifetimeInv PROVE AsConfigured
  OBVIOUS
<1>2. /\ config \in [idle : Int, max : Int] /\ config.max # 0
      /\ now \in Nat /\ created \in Nat \ {0} /\ last \in Nat
  BY <1>1, LifetimeAssumption DEF LifetimeInv, TypeOK, ZeroTime
<1>3. exp = IF config.max > 0 /\ last + config.idle > created + config.max
            THEN created + config.max ELSE last + config.idle
  BY <1>1, <1>2 DEF LifetimeInv, EarlierLimit
<1>4. config.idle > 0
  BY <1>1 DEF LifetimeInv, TypeOK, ValidTTLs
<1>5. exp # 0
  BY <1>2, <1>3, <1>4
<1>6. QED
  BY <1>2, <1>3, <1>5 DEF AsConfigured, Expired, ZeroTime

\* With a maximum lifetime, or with none if it is given as a negative number,
\* for every idle TTL that the validation accepts, a
\* session is expired exactly when the configuration says so: NewSession and
\* Touch agree (session_maker.go:21-41, models/session.go:36-51).
THEOREM AsConfiguredAlways ==
    ASSUME \A c \in Configured : c.max # 0
    PROVE  Spec => []AsConfigured
<1>1. LifetimeInv => AsConfigured
  BY LifetimeIsAsConfigured
<1>2. QED
  BY <1>1, LifetimeAlways, PTL
=============================================================================
