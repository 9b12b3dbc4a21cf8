------------------------------- MODULE Expiry -------------------------------
(***************************************************************************)
(* The clock arithmetic that internal/models shares between sessions and  *)
(* tokens.  Times are natural numbers; 0 is Go's zero time.Time, which    *)
(* the code reads as "never expires".                                      *)
(***************************************************************************)
LOCAL INSTANCE Integers

ZeroTime == 0

\* The ExpiresAt that the token store gives to a token it did not find: one
\* second after the zero time, that is, long ago but not "never".
LongAgo == 1

\* AuthToken.Expired and Session.Expired: strictly after, zero never expires.
Expired(now, expiresAt) == expiresAt # ZeroTime /\ now > expiresAt

\* AuthToken.ExpiresSoon: now is after ExpiresAt - margin.
ExpiresSoon(now, expiresAt, margin) ==
    expiresAt # ZeroTime /\ now + margin > expiresAt

\* The lifetimes of a session that SessionConfig.Validate lets through; a
\* maximum that is not positive is no maximum.
ValidTTLs(idle, max) == idle > 0 /\ (max > 0 => idle <= max)

\* Mutant of FirstExpiry: the lifetime is taken off the creation time.
FirstExpiryReversed(created, idle, max) ==
    IF idle = 0 THEN ZeroTime ELSE created - idle

\* The expiry a session is created with, SessionMakerImpl.NewSession.
FirstExpiry(created, idle, max) ==
    CASE idle = 0             -> ZeroTime
      [] idle # 0 /\ max = 0  -> created + max
      [] OTHER                -> created + idle

\* Mutant of Touched: the cap is compared with now, not with the new expiry.
TouchedLate(now, created, idle, max) ==
    IF max > 0 /\ now > created + max THEN created + max ELSE now + idle

\* Session.Touch: slide by the idle TTL, capped by the maximum TTL if any.
Touched(now, created, idle, max) ==
    CASE idle = 0 /\ max = 0 -> ZeroTime
      [] idle = 0 /\ max # 0 -> created + max
      [] OTHER -> IF max > 0 /\ now + idle > created + max
                  THEN created + max
                  ELSE now + idle
=============================================================================
