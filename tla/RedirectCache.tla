---------------------------- MODULE RedirectCache ----------------------------
(***************************************************************************)
(* What the redirect store promises, without locks and local copies: every  *)
(* lookup takes effect in one step between its arrival and its answer.  It  *)
(* finds an entry that is not too old, or replaces one that is, or finds     *)
(* nothing; an entry is never replaced by an older version.                  *)
(***************************************************************************)
EXTENDS Naturals

CONSTANTS Request, Key, Ttl

VARIABLES
    now,
    latest,        \* data service: the current version of each redirect, 0: none
    cache,         \* the version that each key has, and since when
    waiting,       \* the requests that wait for an answer
    key,           \* what a request looks for
    reply          \* its answer, 0 for "no redirect"

vars == <<now, latest, cache, waiting, key, reply>>

None == [target |-> 0, at |-> 0]

Init ==
    /\ now = 1
    /\ latest \in [Key -> {0, 1}]
    /\ cache = [k \in Key |-> None]
    /\ waiting = {}
    /\ key \in [Request -> Key]
    /\ reply = [p \in Request |-> 0]

Ask(p, k) ==
    /\ p \notin waiting
    /\ waiting' = waiting \cup {p}
    /\ key' = [key EXCEPT ![p] = k]
    /\ reply' = [reply EXCEPT ![p] = 0]
    /\ UNCHANGED <<now, latest, cache>>

Answer(p, version) ==
    /\ p \in waiting
    /\ waiting' = waiting \ {p}
    /\ reply' = [reply EXCEPT ![p] = version]
    /\ UNCHANGED <<now, latest, key>>

TooOld(e) == e = None \/ e.at + Ttl < now

Hit(p) ==
    /\ ~TooOld(cache[key[p]])
    /\ Answer(p, cache[key[p]].target)
    /\ UNCHANGED cache

\* The data service answered with a version that was current at some time
\* since the entry was last replaced.
Fill(p, version) ==
    /\ TooOld(cache[key[p]])
    /\ version \in cache[key[p]].target .. latest[key[p]]
    /\ Answer(p, version)
    /\ cache' = [cache EXCEPT ![key[p]] = [target |-> version, at |-> now]]

Miss(p) ==
    /\ TooOld(cache[key[p]])
    /\ Answer(p, 0)
    /\ UNCHANGED cache

Publish(k) ==
    /\ latest' = [latest EXCEPT ![k] = @ + 1]
    /\ UNCHANGED <<now, cache, waiting, key, reply>>

Tick ==
    /\ now' = now + 1
    /\ UNCHANGED <<latest, cache, waiting, key, reply>>

Next ==
    \/ \E p \in Request :
          \/ \E k \in Key : Ask(p, k)
          \/ Hit(p)
          \/ \E version \in 1 .. latest[key[p]] : Fill(p, version)
          \/ Miss(p)
    \/ \E k \in Key : Publish(k)
    \/ Tick

Spec == Init /\ [][Next]_vars
=============================================================================
