--------------------------- MODULE SessionLifetime ---------------------------
(***************************************************************************)
(* How long one stored session lives: the expiry that                       *)
(* SessionMakerImpl.NewSession gives to it and that Session.Touch moves at   *)
(* every use (internal/sessions/session_maker.go, internal/models/session.go),*)
(* for every configuration that SessionConfig.Validate lets through.         *)
(***************************************************************************)
EXTENDS Integers, Expiry

CONSTANTS
    Configured,  \* the pairs of idle and maximum TTL of the configuration
    MaxTime      \* bound of the clock

Start == 1

ASSUME LifetimeAssumption ==
    /\ Configured \subseteq [idle : Int, max : Int]
    /\ MaxTime \in Nat

VARIABLES
    now,
    config,   \* the TTLs of the configuration, which the session keeps
    created, exp,  \* CreatedAt and ExpiresAt of the session
    last      \* history: the last time the session was used

vars == <<now, config, created, exp, last>>

TypeOK ==
    /\ now \in Nat
    /\ config \in {c \in Configured : ValidTTLs(c.idle, c.max)}
    /\ created \in Nat \ {ZeroTime} /\ created <= now
    /\ exp \in Nat
    /\ last \in created .. now

\* A gateway with an invalid configuration exits at startup.
Init ==
    /\ now = Start
    /\ config \in {c \in Configured : ValidTTLs(c.idle, c.max)}
    /\ created = now
    /\ exp = FirstExpiry(now, config.idle, config.max)
    /\ last = now

\* SessionStore.Get of a session that is not expired, and the Save after it.
Use ==
    /\ ~Expired(now, exp)
    /\ exp' = Touched(now, created, config.idle, config.max)
    /\ last' = now
    /\ UNCHANGED <<now, config, created>>

Tick ==
    /\ now < MaxTime
    /\ now' = now + 1
    /\ UNCHANGED <<config, created, exp, last>>

Next == Use \/ Tick

Spec == Init /\ [][Next]_vars

----------------------------------------------------------------------------
(* Properties                                                               *)

\* The session is good exactly as long as the configuration says: until it has
\* been idle for the idle TTL, or has reached the maximum TTL if there is one;
\* "Touch() updates a session's ExpiresAt field according to IdleTTLSeconds and
\* MaxTTLSeconds" (models/session.go:36).  The expiry is set at one place when
\* the session is created and at another when it is used.
AsConfigured ==
    Expired(now, exp) <=> \/ now > last + config.idle
                          \/ config.max > 0 /\ now > created + config.max

\* Where that expiry comes from: the earlier of the two limits.
EarlierLimit ==
    config.max # 0 =>
        exp = IF config.max > 0 /\ last + config.idle > created + config.max
              THEN created + config.max ELSE last + config.idle
=============================================================================
