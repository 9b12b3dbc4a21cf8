---------------------------- MODULE RefreshCustody ----------------------------
(***************************************************************************)
(* What the token store promises about single-use refresh tokens, without  *)
(* requests, Redis commands or clocks: where each token of one token ID is, *)
(* and which token it was exchanged for.  A token is in the hand of the one *)
(* request that received it until it is stored; or it is lost before that.  *)
(* Only a token that was stored once can be spent, and only once; nothing   *)
(* but the next token, or the expiry of the key, ends its being stored.     *)
(***************************************************************************)
CONSTANTS Token, None   \* None is no token

VARIABLES
    issued,  \* the tokens that the provider has given
    hand,    \* those that a request received and has not stored
    stored,  \* the one that is stored, or None
    lost,    \* those that were never stored and never will be
    succ     \* the token that each was exchanged for, None while it is good

vars == <<issued, hand, stored, lost, succ>>

TypeOK ==
    /\ {issued, hand, lost} \subseteq SUBSET Token
    /\ stored \in Token \cup {None}
    /\ succ \in [Token -> Token \cup {None}]

Init ==
    /\ issued = {} /\ hand = {} /\ lost = {}
    /\ stored = None
    /\ succ = [t \in Token |-> None]

\* A new token arrives, or is lost on the way.
Receive(t) ==
    \/ hand' = hand \cup {t} /\ UNCHANGED lost
    \/ lost' = lost \cup {t} /\ UNCHANGED hand

\* A login: the first token of a grant.
Issue(t) ==
    /\ UNCHANGED <<stored, lost, succ>>
    /\ issued' = issued \cup {t}
    /\ hand' = hand \cup {t}

\* A refresh spends a good token that was stored once: a slow request may
\* have read it before another took its place.
Exchange(s, t) ==
    /\ succ[s] = None
    /\ s \in issued \ (hand \cup lost)
    /\ UNCHANGED stored
    /\ issued' = issued \cup {t}
    /\ succ' = [succ EXCEPT ![s] = t]
    /\ Receive(t)

\* The token takes the place of the one that was stored.
Store(t) ==
    /\ UNCHANGED <<issued, lost, succ>>
    /\ t \in hand
    /\ hand' = hand \ {t}
    /\ stored' = t

\* The request that holds the token fails or ends before it has stored it.
Lose(t) ==
    /\ UNCHANGED <<issued, stored, succ>>
    /\ t \in hand
    /\ hand' = hand \ {t}
    /\ lost' = lost \cup {t}

\* The key of the stored token expires.
Evict ==
    /\ UNCHANGED <<issued, hand, lost, succ>>
    /\ stored' = None

Next ==
    \/ \E t \in Token \ issued : Issue(t) \/ \E s \in Token : Exchange(s, t)
    \/ \E t \in hand : Store(t) \/ Lose(t)
    \/ Evict

Spec == Init /\ [][Next]_vars
=============================================================================
