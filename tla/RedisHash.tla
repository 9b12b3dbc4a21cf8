----------------------------- MODULE RedisHash -----------------------------
(***************************************************************************)
(* What the gateway relies on of one Redis hash key.  An entry is a record *)
(* of the hash value and of the expiry time of the key; ttl 0 is "no       *)
(* expiry set", and the value "empty" is the absent key (HGETALL of an     *)
(* absent key answers with an empty map).                                  *)
(***************************************************************************)
LOCAL INSTANCE Naturals

NoTTL == 0

Absent(empty) == [val |-> empty, ttl |-> NoTTL]

\* HSET replaces every field and keeps the expiry of an existing key.
HSet(entry, value) == [entry EXCEPT !.val = value]

\* EXPIREAT does nothing to an absent key and deletes the key when the time
\* it is given is not in the future.
ExpireAt(entry, empty, at, now) ==
    CASE entry.val = empty               -> entry
      [] entry.val # empty /\ at <= now  -> Absent(empty)
      [] OTHER                           -> [entry EXCEPT !.ttl = at]

\* PERSIST drops the expiry of the key.
Persist(entry) == [entry EXCEPT !.ttl = NoTTL]

\* No reader sees a key whose expiry time has passed.
Evict(entry, empty, now) ==
    IF entry.ttl # NoTTL /\ now > entry.ttl THEN Absent(empty) ELSE entry
=============================================================================
