------------------------- MODULE RedirectStoreProofs -------------------------
(***************************************************************************)
(* No redirect goes back in time, for any number of requests and keys, any  *)
(* lifetime of the entries and any behaviour of the data service; and        *)
(* RedirectStore implements RedirectCache.                                   *)
(***************************************************************************)
EXTENDS RedirectStore, TLAPS

\* The constants are natural numbers, and 0 is a version.
LEMMA RedirectConstants ==
    /\ ConfiguredTtl \in Nat /\ MaxVersion \in Nat /\ MaxTime \in Nat
    /\ Version \subseteq Nat /\ 0 \in Version
    /\ None \in Entry
BY RedirectAssumption DEF Version, Entry, None

\* The initial states have the types.
LEMMA InitType == Init => TypeOK
BY RedirectConstants DEF Init, TypeOK, Exclusive

\* An answer keeps the types of what it changes.
LEMMA AnswerType ==
    ASSUME TypeOK, NEW p \in Request, NEW v \in Version, Answer(p, v)
    PROVE  /\ key' \in [Request -> Key]
           /\ entry' \in [Request -> Entry]
           /\ reply' \in [Request -> Version]
           /\ seen' \in [Key -> Version]
           /\ floor' \in [Request -> Version]
BY RedirectConstants DEF TypeOK, Answer

\* Unlock keeps the types of the lock and of the program counters.
LEMMA UnlockType ==
    ASSUME TypeOK, NEW p \in Request, Unlock(p)
    PROVE  /\ writer' \in Request \cup {Nobody}
           /\ pc' \in [Request -> {"idle", "rlock", "read", "check", "lock"}
                                    \cup Exclusive]
<1>1. /\ writer' = Nobody
      /\ pc' = [q \in Request |-> CASE q = p -> "idle"
                                    [] q # p /\ pc[q] = "rlock" -> "read"
                                    [] OTHER -> pc[q]]
  BY DEF Unlock
<1>2. \A q \in Request : pc'[q] \in {pc[q], "idle", "read"}
  BY <1>1
<1>3. pc \in [Request -> {"idle", "rlock", "read", "check", "lock"} \cup Exclusive]
  BY DEF TypeOK
<1>4. QED
  BY <1>1, <1>2, <1>3

\* Every step keeps the types.
LEMMA NextType == TypeOK /\ [Next]_vars => TypeOK'
<1>1. SUFFICES ASSUME TypeOK, [Next]_vars PROVE TypeOK'
  OBVIOUS
<1>2. ASSUME NEW p \in Request, NEW k \in Key, Arrive(p, k) PROVE TypeOK'
  BY <1>1, <1>2, RedirectConstants DEF TypeOK, Arrive, Goto, world, Exclusive
<1>3. ASSUME NEW p \in Request, RLock(p) PROVE TypeOK'
  BY <1>1, <1>3 DEF TypeOK, RLock, Goto, world
<1>4. ASSUME NEW p \in Request, RUnlock(p) PROVE TypeOK'
  BY <1>1, <1>4 DEF TypeOK, RUnlock, Goto, world
<1>5. ASSUME NEW p \in Request, CheckFresh(p) PROVE TypeOK'
  <2>1. CASE Answer(p, entry[p].target) /\ Goto(p, "idle")
    <3>1. entry[p].target \in Version
      BY <1>1 DEF TypeOK, Entry
    <3>2. QED
      BY <1>1, <1>5, <2>1, <3>1, AnswerType DEF TypeOK, CheckFresh, Goto, world
  <2>2. CASE Goto(p, "lock") /\ UNCHANGED <<key, entry, reply, seen, floor>>
    BY <1>1, <1>5, <2>2 DEF TypeOK, CheckFresh, Goto, world
  <2>3. QED
    BY <1>5, <2>1, <2>2 DEF CheckFresh
<1>6. ASSUME NEW p \in Request, Lock(p) PROVE TypeOK'
  BY <1>1, <1>6 DEF TypeOK, Lock, Goto, world, Exclusive
<1>7. ASSUME NEW p \in Request, Drain(p) PROVE TypeOK'
  BY <1>1, <1>7 DEF TypeOK, Drain, Goto, world, Exclusive
<1>8. ASSUME NEW p \in Request, Recheck(p) PROVE TypeOK'
  <2>1. UNCHANGED <<now, target, redirectMap>>
    BY <1>8 DEF Recheck, world
  <2>2. CASE Answer(p, redirectMap[key[p]].target) /\ Unlock(p)
    <3>1. redirectMap[key[p]].target \in Version
      BY <1>1 DEF TypeOK, Entry
    <3>2. QED
      BY <1>1, <2>1, <2>2, <3>1, AnswerType, UnlockType DEF TypeOK
  <2>3. CASE Goto(p, "fetch") /\ UNCHANGED <<writer, key, entry, reply, seen, floor>>
    BY <1>1, <2>1, <2>3 DEF TypeOK, Goto, Exclusive
  <2>4. QED
    BY <1>8, <2>2, <2>3 DEF Recheck
<1>9. ASSUME NEW p \in Request, Fetched(p) PROVE TypeOK'
  <2>1. [target |-> target[key[p]], at |-> 0] \in Entry
    BY <1>1 DEF TypeOK, Entry
  <2>2. QED
    BY <1>1, <1>9, <2>1 DEF TypeOK, Fetched, Goto, world, Exclusive
<1>10. ASSUME NEW p \in Request, NotFetched(p) PROVE TypeOK'
  BY <1>1, <1>10, RedirectConstants, AnswerType, UnlockType
     DEF TypeOK, NotFetched, world
<1>11. ASSUME NEW p \in Request, Store(p) PROVE TypeOK'
  <2>1. entry[p].target \in Version
    BY <1>1 DEF TypeOK, Entry
  <2>2. [target |-> entry[p].target, at |-> now] \in Entry
    BY <1>1, <2>1 DEF TypeOK, Entry
  <2>3. redirectMap' \in [Key -> Entry]
    BY <1>1, <1>11, <2>2 DEF TypeOK, Store
  <2>4. QED
    BY <1>1, <1>11, <2>1, <2>3, AnswerType, UnlockType DEF TypeOK, Store, world
<1>12. ASSUME NEW k \in Key, Publish(k) PROVE TypeOK'
  BY <1>1, <1>12, RedirectConstants DEF TypeOK, Publish, Version
<1>13. CASE Tick
  BY <1>1, <1>13 DEF TypeOK, Tick
<1>14. CASE UNCHANGED vars
  BY <1>1, <1>14 DEF TypeOK, vars
<1>15. QED
  BY <1>1, <1>2, <1>3, <1>4, <1>5, <1>6, <1>7, <1>8, <1>9, <1>10, <1>11, <1>12,
     <1>13, <1>14 DEF Next, Step

\* The variables of a redirect store always have their types.
THEOREM RedirectTypeCorrect == Spec => []TypeOK
<1>1. QED
  BY InitType, NextType, PTL DEF Spec

----------------------------------------------------------------------------
\* What the types say of the numbers that the order invariant compares.
LEMMA Numbers ==
    ASSUME TypeOK
    PROVE  /\ \A k \in Key : /\ seen[k] \in Nat
                             /\ redirectMap[k].target \in Nat
                             /\ target[k] \in Nat
           /\ \A p \in Request : /\ key[p] \in Key
                                 /\ floor[p] \in Nat
                                 /\ reply[p] \in Nat
                                 /\ entry[p].target \in Nat
BY RedirectConstants DEF TypeOK, Entry

\* At the start nothing was answered and nothing is in the cache.
LEMMA InitOrder == Init => OrderInv
<1>1. SUFFICES ASSUME Init PROVE OrderInv
  OBVIOUS
<1>2. /\ \A p \in Request : pc[p] = "idle" /\ reply[p] = 0 /\ floor[p] = 0
      /\ \A k \in Key : seen[k] = 0 /\ redirectMap[k].target = 0
      /\ writer = Nobody
      /\ \A k \in Key : target[k] \in {0, 1}
  BY <1>1 DEF Init, None
<1>3. LockHeld
  BY <1>2, RedirectAssumption DEF LockHeld, Exclusive
<1>4. CacheBehind
  BY <1>2 DEF CacheBehind
<1>5. FloorBehind /\ ReadIsRecent /\ NeverBackInTime
  BY <1>2 DEF FloorBehind, ReadIsRecent, NeverBackInTime
<1>6. QED
  BY <1>3, <1>4, <1>5 DEF OrderInv

\* A step that leaves the versions alone, and in which no request newly claims
\* to have read an entry, keeps everything but the lock.
LEMMA SameVersions ==
    ASSUME TypeOK, OrderInv,
           UNCHANGED <<target, redirectMap, key, entry, reply, seen, floor>>,
           \A q \in Request : pc'[q] = "check" => pc[q] = "check",
           \A q \in Request : pc'[q] = "store" => pc[q] = "store",
           \A q \in Request : pc'[q] # "idle" => pc[q] # "idle"
    PROVE  CacheBehind' /\ FloorBehind' /\ ReadIsRecent' /\ NeverBackInTime'
BY DEF OrderInv, CacheBehind, FloorBehind, ReadIsRecent, NeverBackInTime

\* A request that answers with a version of the cache that is not older than
\* its floor keeps everything but the lock, if the cache only grows and stays
\* the same where another request is about to store.
LEMMA AnswerOrder ==
    ASSUME TypeOK, OrderInv, NEW p \in Request, NEW v \in Version,
           Answer(p, v), pc'[p] = "idle", target' = target,
           redirectMap' \in [Key -> Entry],
           \A k \in Key : /\ redirectMap[k].target <= redirectMap'[k].target
                          /\ redirectMap'[k].target <= target[k],
           v <= redirectMap'[key[p]].target,
           v # 0 => v >= floor[p],
           \A q \in Request \ {p} :
              pc'[q] = pc[q] \/ (pc[q] = "rlock" /\ pc'[q] = "read"),
           \A q \in Request \ {p} : pc[q] = "store" => redirectMap' = redirectMap
    PROVE  CacheBehind' /\ FloorBehind' /\ ReadIsRecent' /\ NeverBackInTime'
<1>1. /\ key' = key /\ floor' = floor
      /\ reply' = [reply EXCEPT ![p] = v]
      /\ entry' = [entry EXCEPT ![p] = None]
      /\ seen' = [seen EXCEPT ![key[p]] = IF v > @ THEN v ELSE @]
  BY DEF Answer
<1>2. \A k \in Key : redirectMap'[k].target \in Nat
  BY RedirectConstants DEF Entry
<1>3. v \in Nat
  BY RedirectConstants
<1>4. CacheBehind'
  <2>1. SUFFICES ASSUME NEW k \in Key
                 PROVE  /\ seen'[k] <= redirectMap'[k].target
                        /\ redirectMap'[k].target <= target[k]
    BY DEF CacheBehind
  <2>2. seen[k] <= redirectMap[k].target
    BY DEF OrderInv, CacheBehind
  <2>3. seen'[k] = seen[k] \/ (k = key[p] /\ seen'[k] = v)
    BY <1>1 DEF TypeOK
  <2>4. QED
    BY <1>2, <1>3, <2>2, <2>3, Numbers
<1>5. FloorBehind'
  <2>1. SUFFICES ASSUME NEW q \in Request, pc'[q] # "idle"
                 PROVE  floor[q] <= redirectMap'[key[q]].target
    BY <1>1 DEF FloorBehind
  <2>2. q # p /\ pc[q] # "idle"
    BY <2>1
  <2>3. floor[q] <= redirectMap[key[q]].target /\ key[q] \in Key
    BY <2>2, Numbers DEF OrderInv, FloorBehind
  <2>4. QED
    BY <1>2, <2>3, Numbers
<1>6. ReadIsRecent'
  <2>1. SUFFICES ASSUME NEW q \in Request
                 PROVE  /\ pc'[q] = "check" =>
                             /\ entry'[q].target <= redirectMap'[key[q]].target
                             /\ entry'[q].target >= floor[q]
                        /\ pc'[q] = "store" =>
                             /\ entry'[q].target <= target[key[q]]
                             /\ entry'[q].target >= redirectMap'[key[q]].target
    BY <1>1 DEF ReadIsRecent
  <2>2. CASE q = p
    BY <2>2
  <2>3. CASE q # p
    <3>1. entry'[q] = entry[q] /\ key[q] \in Key
      BY <1>1, <2>3, Numbers DEF TypeOK
    <3>2. ASSUME pc'[q] = "check"
          PROVE  /\ entry[q].target <= redirectMap'[key[q]].target
                 /\ entry[q].target >= floor[q]
      <4>1. pc[q] = "check"
        BY <2>3, <3>2
      <4>2. /\ entry[q].target <= redirectMap[key[q]].target
            /\ entry[q].target >= floor[q]
        BY <4>1 DEF OrderInv, ReadIsRecent
      <4>3. QED
        BY <1>2, <3>1, <4>2, Numbers
    <3>3. ASSUME pc'[q] = "store"
          PROVE  /\ entry[q].target <= target[key[q]]
                 /\ entry[q].target >= redirectMap'[key[q]].target
      <4>1. pc[q] = "store"
        BY <2>3, <3>3
      <4>2. redirectMap' = redirectMap
        BY <2>3, <4>1
      <4>3. QED
        BY <4>1, <4>2 DEF OrderInv, ReadIsRecent
    <3>4. QED
      BY <3>1, <3>2, <3>3
  <2>4. QED
    BY <2>2, <2>3
<1>7. NeverBackInTime'
  <2>1. \A q \in Request : reply'[q] = IF q = p THEN v ELSE reply[q]
    BY <1>1 DEF TypeOK
  <2>2. QED
    BY <1>1, <2>1 DEF OrderInv, NeverBackInTime
<1>8. QED
  BY <1>4, <1>5, <1>6, <1>7

\* Unlock leaves the lock to nobody, and nobody past Lock.
LEMMA UnlockOrder ==
    ASSUME TypeOK, OrderInv, NEW p \in Request, pc[p] \in Exclusive, Unlock(p)
    PROVE  /\ LockHeld'
           /\ pc'[p] = "idle"
           /\ \A q \in Request \ {p} :
                 /\ pc[q] # "store"
                 /\ pc'[q] = pc[q] \/ (pc[q] = "rlock" /\ pc'[q] = "read")
<1>1. \A q \in Request : pc'[q] = CASE q = p -> "idle"
                                    [] q # p /\ pc[q] = "rlock" -> "read"
                                    [] OTHER -> pc[q]
  BY DEF Unlock
<1>2. writer = p /\ writer' = Nobody
  BY DEF Unlock, OrderInv, LockHeld
<1>3. \A q \in Request \ {p} : pc[q] \notin Exclusive
  BY <1>2 DEF OrderInv, LockHeld
<1>4. pc'[p] = "idle"
  BY <1>1
<1>5. \A q \in Request \ {p} :
         pc'[q] = pc[q] \/ (pc[q] = "rlock" /\ pc'[q] = "read")
  BY <1>1
<1>6. \A q \in Request : pc'[q] \notin Exclusive
  BY <1>3, <1>4, <1>5 DEF Exclusive
<1>7. LockHeld'
  BY <1>2, <1>6, RedirectAssumption DEF LockHeld
<1>8. QED
  BY <1>3, <1>4, <1>5, <1>7 DEF Exclusive

\* The lock stays with its holder while a request moves outside of it, or from
\* one place inside of it to another.
LEMMA LockStays ==
    ASSUME TypeOK, OrderInv, NEW p \in Request, NEW label,
           Goto(p, label), writer' = writer,
           pc[p] \in Exclusive <=> label \in Exclusive
    PROVE  LockHeld'
BY DEF TypeOK, OrderInv, LockHeld, Goto

\* Every step keeps the order.
LEMMA NextOrder == TypeOK /\ OrderInv /\ [Next]_vars => OrderInv'
<1>1. SUFFICES ASSUME TypeOK, OrderInv, [Next]_vars PROVE OrderInv'
  OBVIOUS
<1>2. SUFFICES LockHeld' /\ CacheBehind' /\ FloorBehind' /\ ReadIsRecent'
               /\ NeverBackInTime'
  BY DEF OrderInv
<1> DEFINE Rest == CacheBehind' /\ FloorBehind' /\ ReadIsRecent' /\ NeverBackInTime'
<1>3. ASSUME NEW p \in Request, NEW k \in Key, Arrive(p, k) PROVE LockHeld' /\ Rest
  <2>1. LockHeld'
    BY <1>1, <1>3, LockStays DEF Arrive, Exclusive
  <2>2. /\ pc[p] = "idle" /\ pc'[p] = "rlock" /\ key'[p] = k
        /\ reply'[p] = 0 /\ floor'[p] = seen[k]
        /\ \A q \in Request \ {p} : /\ pc'[q] = pc[q] /\ key'[q] = key[q]
                                    /\ reply'[q] = reply[q] /\ floor'[q] = floor[q]
        /\ UNCHANGED <<target, redirectMap, entry, seen>>
    BY <1>1, <1>3 DEF TypeOK, Arrive, Goto, world
  <2>3. Rest
    BY <1>1, <2>2, Numbers
       DEF OrderInv, CacheBehind, FloorBehind, ReadIsRecent, NeverBackInTime
  <2>4. QED
    BY <2>1, <2>3
<1>4. ASSUME NEW p \in Request, RLock(p) PROVE LockHeld' /\ Rest
  <2>1. LockHeld'
    BY <1>1, <1>4, LockStays DEF RLock, Exclusive
  <2>2. Rest
    BY <1>1, <1>4, SameVersions DEF TypeOK, RLock, Goto, world
  <2>3. QED
    BY <2>1, <2>2
<1>5. ASSUME NEW p \in Request, RUnlock(p) PROVE LockHeld' /\ Rest
  <2>1. LockHeld'
    BY <1>1, <1>5, LockStays DEF RUnlock, Exclusive
  <2>2. /\ pc[p] = "read" /\ pc'[p] = "check"
        /\ entry'[p] = redirectMap[key[p]]
        /\ \A q \in Request \ {p} : pc'[q] = pc[q] /\ entry'[q] = entry[q]
        /\ UNCHANGED <<target, redirectMap, key, reply, seen, floor>>
    BY <1>1, <1>5 DEF TypeOK, RUnlock, Goto, world
  <2>3. Rest
    BY <1>1, <2>2, Numbers
       DEF OrderInv, CacheBehind, FloorBehind, ReadIsRecent, NeverBackInTime
  <2>4. QED
    BY <2>1, <2>3
<1>6. ASSUME NEW p \in Request, CheckFresh(p) PROVE LockHeld' /\ Rest
  <2>1. pc[p] = "check" /\ UNCHANGED <<now, target, redirectMap, writer>>
    BY <1>6 DEF CheckFresh, world
  <2>2. CASE Answer(p, entry[p].target) /\ Goto(p, "idle")
    <3>1. LockHeld'
      BY <1>1, <2>1, <2>2, LockStays DEF Exclusive
    <3>2. entry[p].target \in Version
      BY <1>1 DEF TypeOK, Entry
    <3>3. /\ entry[p].target <= redirectMap[key[p]].target
          /\ entry[p].target >= floor[p]
      BY <1>1, <2>1 DEF OrderInv, ReadIsRecent
    <3>4. /\ pc'[p] = "idle"
          /\ \A q \in Request \ {p} : pc'[q] = pc[q]
      BY <1>1, <2>2 DEF TypeOK, Goto
    <3>5. redirectMap' \in [Key -> Entry]
      BY <1>1, <2>1 DEF TypeOK
    <3>6. \A k \in Key : /\ redirectMap[k].target <= redirectMap'[k].target
                         /\ redirectMap'[k].target <= target[k]
      BY <1>1, <2>1, Numbers DEF OrderInv, CacheBehind
    <3>7. Rest
      BY <1>1, <2>1, <2>2, <3>2, <3>3, <3>4, <3>5, <3>6, AnswerOrder
    <3>8. QED
      BY <3>1, <3>7
  <2>3. CASE Goto(p, "lock") /\ UNCHANGED <<key, entry, reply, seen, floor>>
    <3>1. LockHeld'
      BY <1>1, <2>1, <2>3, LockStays DEF Exclusive
    <3>2. Rest
      BY <1>1, <2>1, <2>3, SameVersions DEF TypeOK, Goto
    <3>3. QED
      BY <3>1, <3>2
  <2>4. QED
    BY <1>6, <2>2, <2>3 DEF CheckFresh
<1>7. ASSUME NEW p \in Request, Lock(p) PROVE LockHeld' /\ Rest
  <2>1. /\ pc[p] = "lock" /\ pc'[p] = "drain" /\ writer = Nobody /\ writer' = p
        /\ \A q \in Request \ {p} : pc'[q] = pc[q]
    BY <1>1, <1>7 DEF TypeOK, Lock, Goto
  <2>2. \A q \in Request : pc[q] \notin Exclusive
    BY <1>1, <2>1, RedirectAssumption DEF OrderInv, LockHeld
  <2>3. LockHeld'
    BY <2>1, <2>2 DEF LockHeld, Exclusive
  <2>4. Rest
    BY <1>1, <1>7, <2>1, SameVersions DEF Lock, world
  <2>5. QED
    BY <2>3, <2>4
<1>8. ASSUME NEW p \in Request, Drain(p) PROVE LockHeld' /\ Rest
  <2>1. LockHeld'
    BY <1>1, <1>8, LockStays DEF Drain, Exclusive
  <2>2. Rest
    BY <1>1, <1>8, SameVersions DEF TypeOK, Drain, Goto, world
  <2>3. QED
    BY <2>1, <2>2
<1>9. ASSUME NEW p \in Request, Recheck(p) PROVE LockHeld' /\ Rest
  <2>1. pc[p] = "recheck" /\ UNCHANGED <<now, target, redirectMap>>
    BY <1>9 DEF Recheck, world
  <2>2. CASE Answer(p, redirectMap[key[p]].target) /\ Unlock(p)
    <3>1. redirectMap[key[p]].target \in Version /\ redirectMap' \in [Key -> Entry]
      BY <1>1, <2>1 DEF TypeOK, Entry
    <3>2. /\ LockHeld' /\ pc'[p] = "idle"
          /\ \A q \in Request \ {p} :
               pc'[q] = pc[q] \/ (pc[q] = "rlock" /\ pc'[q] = "read")
      BY <1>1, <2>1, <2>2, UnlockOrder DEF Exclusive
    <3>3. redirectMap[key[p]].target >= floor[p]
      BY <1>1, <2>1, Numbers DEF OrderInv, FloorBehind
    <3>4. \A k \in Key : /\ redirectMap[k].target <= redirectMap'[k].target
                         /\ redirectMap'[k].target <= target[k]
      BY <1>1, <2>1, Numbers DEF OrderInv, CacheBehind
    <3>5. redirectMap[key[p]].target <= redirectMap'[key[p]].target
      BY <1>1, <2>1, Numbers
    <3>6. Rest
      BY <1>1, <2>1, <2>2, <3>1, <3>2, <3>3, <3>4, <3>5, AnswerOrder
    <3>7. QED
      BY <3>2, <3>6
  <2>3. CASE Goto(p, "fetch") /\ UNCHANGED <<writer, key, entry, reply, seen, floor>>
    <3>1. LockHeld'
      BY <1>1, <2>1, <2>3, LockStays DEF Exclusive
    <3>2. Rest
      BY <1>1, <2>1, <2>3, SameVersions DEF TypeOK, Goto
    <3>3. QED
      BY <3>1, <3>2
  <2>4. QED
    BY <1>9, <2>2, <2>3 DEF Recheck
<1>10. ASSUME NEW p \in Request, Fetched(p) PROVE LockHeld' /\ Rest
  <2>1. LockHeld'
    BY <1>1, <1>10, LockStays DEF Fetched, Exclusive
  <2>2. /\ pc[p] = "fetch" /\ pc'[p] = "store"
        /\ entry'[p].target = target[key[p]]
        /\ \A q \in Request \ {p} : pc'[q] = pc[q] /\ entry'[q] = entry[q]
        /\ UNCHANGED <<target, redirectMap, key, reply, seen, floor>>
    BY <1>1, <1>10 DEF TypeOK, Fetched, Goto, world
  <2>3. target[key[p]] >= redirectMap[key[p]].target
    BY <1>1, Numbers DEF OrderInv, CacheBehind
  <2>4. Rest
    BY <1>1, <2>2, <2>3, Numbers
       DEF OrderInv, CacheBehind, FloorBehind, ReadIsRecent, NeverBackInTime
  <2>5. QED
    BY <2>1, <2>4
<1>11. ASSUME NEW p \in Request, NotFetched(p) PROVE LockHeld' /\ Rest
  <2>1. /\ pc[p] = "fetch" /\ UNCHANGED <<now, target, redirectMap>>
        /\ Answer(p, 0) /\ Unlock(p)
    BY <1>11 DEF NotFetched, world
  <2>2. /\ LockHeld' /\ pc'[p] = "idle"
        /\ \A q \in Request \ {p} :
             pc'[q] = pc[q] \/ (pc[q] = "rlock" /\ pc'[q] = "read")
    BY <1>1, <2>1, UnlockOrder DEF Exclusive
  <2>3. \A k \in Key : /\ redirectMap[k].target <= redirectMap'[k].target
                       /\ redirectMap'[k].target <= target[k]
    BY <1>1, <2>1, Numbers DEF OrderInv, CacheBehind
  <2>4. 0 \in Version /\ 0 <= redirectMap'[key[p]].target
    BY <1>1, <2>1, Numbers, RedirectConstants
  <2>5. redirectMap' \in [Key -> Entry]
    BY <1>1, <2>1 DEF TypeOK
  <2>6. Rest
    BY <1>1, <2>1, <2>2, <2>3, <2>4, <2>5, AnswerOrder
  <2>7. QED
    BY <2>2, <2>6
<1>12. ASSUME NEW p \in Request, Store(p) PROVE LockHeld' /\ Rest
  <2> DEFINE v == entry[p].target
  <2>1. /\ pc[p] = "store" /\ UNCHANGED <<now, target>>
        /\ redirectMap' = [redirectMap EXCEPT ![key[p]] = [target |-> v, at |-> now]]
        /\ Answer(p, v) /\ Unlock(p)
    BY <1>12 DEF Store, world
  <2>2. /\ LockHeld' /\ pc'[p] = "idle"
        /\ \A q \in Request \ {p} :
             /\ pc[q] # "store"
             /\ pc'[q] = pc[q] \/ (pc[q] = "rlock" /\ pc'[q] = "read")
    BY <1>1, <2>1, UnlockOrder DEF Exclusive
  <2>3. v \in Version /\ [target |-> v, at |-> now] \in Entry
    BY <1>1 DEF TypeOK, Entry
  <2>4. redirectMap' \in [Key -> Entry]
    BY <1>1, <2>1, <2>3 DEF TypeOK
  <2>5. v <= target[key[p]] /\ v >= redirectMap[key[p]].target
    BY <1>1, <2>1 DEF OrderInv, ReadIsRecent
  <2>6. \A k \in Key : redirectMap'[k].target =
                         IF k = key[p] THEN v ELSE redirectMap[k].target
    BY <1>1, <2>1 DEF TypeOK
  <2>7. \A k \in Key : /\ redirectMap[k].target <= redirectMap'[k].target
                       /\ redirectMap'[k].target <= target[k]
    BY <1>1, <2>5, <2>6, Numbers DEF OrderInv, CacheBehind
  <2>8. redirectMap[key[p]].target >= floor[p]
    BY <1>1, <2>1, Numbers DEF OrderInv, FloorBehind
  <2>9. v >= floor[p] /\ v <= redirectMap'[key[p]].target
    BY <1>1, <2>5, <2>6, <2>8, Numbers
  <2>10. Rest
    BY <1>1, <2>1, <2>2, <2>3, <2>4, <2>7, <2>9, AnswerOrder
  <2>11. QED
    BY <2>2, <2>10
<1>13. ASSUME NEW k \in Key, Publish(k) PROVE LockHeld' /\ Rest
  <2>1. /\ UNCHANGED <<redirectMap, writer, pc, key, entry, reply, seen, floor>>
        /\ \A j \in Key : target'[j] >= target[j] /\ target'[j] \in Nat
    BY <1>1, <1>13, Numbers DEF TypeOK, Publish
  <2>2. QED
    BY <1>1, <2>1, Numbers
       DEF OrderInv, LockHeld, CacheBehind, FloorBehind, ReadIsRecent,
           NeverBackInTime
<1>14. CASE Tick
  BY <1>1, <1>14
     DEF Tick, OrderInv, LockHeld, CacheBehind, FloorBehind, ReadIsRecent,
         NeverBackInTime
<1>15. CASE UNCHANGED vars
  BY <1>1, <1>15
     DEF vars, OrderInv, LockHeld, CacheBehind, FloorBehind, ReadIsRecent,
         NeverBackInTime
<1>16. QED
  BY <1>1, <1>3, <1>4, <1>5, <1>6, <1>7, <1>8, <1>9, <1>10, <1>11, <1>12, <1>13,
     <1>14, <1>15 DEF Next, Step

\* Whoever is redirected after someone else was is not redirected to an older
\* target, with any number of requests: GetRedirectEntry keeps the lock while
\* the data service answers (redirect_store.go:128-146).
THEOREM NeverBackInTimeAlways == Spec => []NeverBackInTime
<1>1. Init => TypeOK /\ OrderInv
  BY InitType, InitOrder
<1>2. TypeOK /\ OrderInv /\ [Next]_vars => (TypeOK /\ OrderInv)'
  BY NextType, NextOrder
<1>3. OrderInv => NeverBackInTime
  BY DEF OrderInv
<1>4. QED
  BY <1>1, <1>2, <1>3, PTL DEF Spec

----------------------------------------------------------------------------
\* A step that leaves the cache alone, and in which nobody starts to fetch,
\* keeps what was stale stale.
LEMMA SameCache ==
    ASSUME TypeOK, StaleUnderLock,
           UNCHANGED redirectMap,
           now' \in Nat, now' >= now,
           \A q \in Request : pc'[q] \in {"fetch", "store"} =>
              pc[q] \in {"fetch", "store"} /\ key'[q] = key[q]
    PROVE  StaleUnderLock'
<1>1. SUFFICES ASSUME NEW q \in Request, pc'[q] \in {"fetch", "store"},
                      redirectMap[key[q]] # None
               PROVE  now' > redirectMap[key[q]].at + EntryTtl
  BY DEF StaleUnderLock, EntryTtl
<1>2. now > redirectMap[key[q]].at + EntryTtl
  BY <1>1 DEF StaleUnderLock
<1>3. redirectMap[key[q]].at + EntryTtl \in Nat /\ now \in Nat
  BY <1>1, RedirectConstants DEF TypeOK, Entry, EntryTtl
<1>4. QED
  BY <1>2, <1>3

\* Only Store changes the cache, at a key whose entry is missing or stale.
LEMMA NextStale ==
    TypeOK /\ OrderInv /\ StaleUnderLock /\ [Next]_vars
        => StaleUnderLock' /\ [Refetched(EntryTtl)]_vars
<1>1. SUFFICES ASSUME TypeOK, OrderInv, StaleUnderLock, [Next]_vars
               PROVE  StaleUnderLock' /\ Refetched(EntryTtl)
  OBVIOUS
<1>a. now \in Nat
  BY <1>1 DEF TypeOK
<1>b. ASSUME UNCHANGED redirectMap PROVE Refetched(EntryTtl)
  BY <1>b DEF Refetched
<1>2. ASSUME NEW p \in Request, NEW k \in Key, Arrive(p, k)
      PROVE  StaleUnderLock' /\ UNCHANGED redirectMap
  BY <1>1, <1>2, <1>a, SameCache DEF TypeOK, Arrive, Goto, world
<1>3. ASSUME NEW p \in Request,
             RLock(p) \/ RUnlock(p) \/ Lock(p) \/ Drain(p) \/ Fetched(p)
      PROVE  StaleUnderLock' /\ UNCHANGED redirectMap
  BY <1>1, <1>3, <1>a, SameCache
     DEF TypeOK, RLock, RUnlock, Lock, Drain, Fetched, Goto, world
<1>4. ASSUME NEW p \in Request, CheckFresh(p)
      PROVE  StaleUnderLock' /\ UNCHANGED redirectMap
  BY <1>1, <1>4, <1>a, SameCache DEF TypeOK, CheckFresh, Answer, Goto, world
<1>5. ASSUME NEW p \in Request, Recheck(p)
      PROVE  StaleUnderLock' /\ UNCHANGED redirectMap
  <2>1. pc[p] = "recheck" /\ UNCHANGED <<now, redirectMap, key>>
    BY <1>5 DEF Recheck, Answer, world
  <2>2. CASE Unlock(p)
    <3>1. \A q \in Request : pc'[q] \in {pc[q], "idle", "read"}
      BY <2>2 DEF Unlock
    <3>2. QED
      BY <1>1, <1>a, <2>1, <3>1, SameCache
  <2>3. CASE /\ Goto(p, "fetch")
             /\ \/ redirectMap[key[p]] = None
                \/ redirectMap[key[p]].at + EntryTtl < now
    <3>1. \A q \in Request \ {p} : pc'[q] = pc[q]
      BY <1>1, <2>3 DEF TypeOK, Goto
    <3>2. redirectMap[key[p]].at + EntryTtl \in Nat
      BY <1>1, RedirectConstants DEF TypeOK, Entry, EntryTtl
    <3>3. redirectMap[key[p]] = None \/ now > redirectMap[key[p]].at + EntryTtl
      BY <1>a, <2>3, <3>2
    <3>4. QED
      BY <1>1, <2>1, <3>1, <3>3 DEF StaleUnderLock, EntryTtl
  <2>4. QED
    BY <1>5, <2>1, <2>2, <2>3 DEF Recheck
<1>6. ASSUME NEW p \in Request, NotFetched(p)
      PROVE  StaleUnderLock' /\ UNCHANGED redirectMap
  <2>1. UNCHANGED <<now, redirectMap, key>>
    BY <1>6 DEF NotFetched, Answer, world
  <2>2. \A q \in Request : pc'[q] \in {pc[q], "idle", "read"}
    BY <1>6 DEF NotFetched, Unlock
  <2>3. QED
    BY <1>1, <1>a, <2>1, <2>2, SameCache
<1>7. ASSUME NEW p \in Request, Store(p)
      PROVE  StaleUnderLock' /\ Refetched(EntryTtl)
  <2>1. pc[p] = "store" /\ Unlock(p)
    BY <1>7 DEF Store
  <2>2. \A q \in Request : pc'[q] \notin {"fetch", "store"}
    <3>1. \A q \in Request \ {p} : pc[q] \notin Exclusive
      BY <1>1, <2>1 DEF OrderInv, LockHeld, Exclusive
    <3>2. QED
      BY <1>1, <2>1, <3>1, UnlockOrder DEF Exclusive
  <2>3. \A k \in Key : redirectMap'[k] # redirectMap[k] => k = key[p]
    BY <1>1, <1>7 DEF Store, TypeOK
  <2>4. redirectMap[key[p]] # None => now > redirectMap[key[p]].at + EntryTtl
    BY <1>1, <2>1 DEF StaleUnderLock
  <2>5. StaleUnderLock'
    BY <2>2 DEF StaleUnderLock
  <2>6. Refetched(EntryTtl)
    BY <2>3, <2>4 DEF Refetched
  <2>7. QED
    BY <2>5, <2>6
<1>8. ASSUME NEW k \in Key, Publish(k)
      PROVE  StaleUnderLock' /\ UNCHANGED redirectMap
  BY <1>1, <1>8, <1>a, SameCache DEF Publish
<1>9. ASSUME Tick
      PROVE  StaleUnderLock' /\ UNCHANGED redirectMap
  BY <1>1, <1>9, <1>a, SameCache DEF Tick
<1>10. ASSUME UNCHANGED vars
       PROVE  StaleUnderLock' /\ UNCHANGED redirectMap
  BY <1>1, <1>10, <1>a, SameCache DEF vars
<1>11. QED
  BY <1>1, <1>b, <1>2, <1>3, <1>4, <1>5, <1>6, <1>7, <1>8, <1>9, <1>10
     DEF Next, Step

\* However many requests find an entry missing or stale at once, it is replaced
\* only after it has expired: the second look at it, with the write lock
\* (redirect_store.go:130-133), is enough.
THEOREM RefetchedOnlyWhenStaleAlways == Spec => RefetchedOnlyWhenStale
<1>1. Init => TypeOK /\ OrderInv /\ StaleUnderLock
  BY InitType, InitOrder DEF Init, StaleUnderLock
<1>2. TypeOK /\ OrderInv /\ StaleUnderLock /\ [Next]_vars
         => (TypeOK /\ OrderInv /\ StaleUnderLock)' /\ [Refetched(EntryTtl)]_vars
  BY NextType, NextOrder, NextStale
<1>3. QED
  BY <1>1, <1>2, PTL DEF Spec, RefetchedOnlyWhenStale

----------------------------------------------------------------------------
(* RedirectStore implements RedirectCache: with any number of requests, the *)
(* locks and the copies of the entries cannot be told from a cache that is  *)
(* looked up and filled in one step.                                         *)

LookupInv == TypeOK /\ OrderInv /\ StaleUnderLock /\ CopyIsCurrent

\* Ages and the clock are numbers.
LEMMA Ages ==
    ASSUME TypeOK
    PROVE  /\ now \in Nat /\ EntryTtl \in Nat
           /\ \A k \in Key : redirectMap[k] \in Entry /\ redirectMap[k].at \in Nat
           /\ \A p \in Request : /\ key[p] \in Key /\ entry[p] \in Entry
                                 /\ entry[p].at \in Nat
  BY RedirectConstants DEF TypeOK, Entry, EntryTtl

\* A step that leaves the cache alone, and after which no request newly has a
\* copy to check or an answer to store, keeps the copies current.
LEMMA SameCopies ==
    ASSUME TypeOK, CopyIsCurrent, UNCHANGED redirectMap, now' \in Nat, now' >= now,
           \A q \in Request : pc'[q] \in {"check", "store"} =>
              /\ pc[q] = pc'[q] /\ key'[q] = key[q] /\ entry'[q] = entry[q]
    PROVE  CopyIsCurrent'
PROOF
  <1> SUFFICES ASSUME NEW q \in Request
               PROVE  /\ pc'[q] = "check" => \/ entry'[q] = redirectMap[key'[q]]
                                             \/ entry'[q] = None
                                             \/ now' > entry'[q].at + EntryTtl
                      /\ pc'[q] = "store" => entry'[q].target # 0
    BY DEF CopyIsCurrent, EntryTtl
  <1>1. now > entry[q].at + EntryTtl => now' > entry[q].at + EntryTtl
    BY Ages
  <1> QED
    BY <1>1 DEF CopyIsCurrent

\* The entry that a request has answered with is no longer a copy to check.
LEMMA UnlockedCopies ==
    ASSUME TypeOK, NEW p \in Request, Unlock(p)
    PROVE  \A q \in Request : pc'[q] \in {"check", "store"} =>
              q # p /\ pc'[q] = pc[q]
  BY DEF Unlock

\* Every step keeps the copies current.
LEMMA NextCopies == LookupInv /\ [Next]_vars => CopyIsCurrent'
PROOF
  <1> SUFFICES ASSUME LookupInv, [Next]_vars PROVE CopyIsCurrent'
    OBVIOUS
  <1> USE DEF LookupInv
  <1>a. now \in Nat
    BY Ages
  <1>1. ASSUME NEW p \in Request, NEW k \in Key, Arrive(p, k)
        PROVE  CopyIsCurrent'
    BY <1>1, <1>a, SameCopies DEF TypeOK, Arrive, Goto, world
  <1>2. ASSUME NEW p \in Request, RLock(p) \/ Lock(p) \/ Drain(p)
        PROVE  CopyIsCurrent'
    BY <1>2, <1>a, SameCopies DEF TypeOK, RLock, Lock, Drain, Goto, world
  <1>3. ASSUME NEW p \in Request, RUnlock(p)
        PROVE  CopyIsCurrent'
    <2>1. /\ UNCHANGED <<now, redirectMap, key>>
          /\ pc'[p] = "check" /\ entry'[p] = redirectMap[key[p]]
          /\ \A q \in Request \ {p} : pc'[q] = pc[q] /\ entry'[q] = entry[q]
      BY <1>3 DEF TypeOK, RUnlock, Goto, world
    <2> QED
      BY <2>1 DEF CopyIsCurrent, EntryTtl
  <1>4. ASSUME NEW p \in Request, CheckFresh(p)
        PROVE  CopyIsCurrent'
    <2>1. \A q \in Request : pc'[q] \in {"check", "store"} =>
             pc[q] = pc'[q] /\ key'[q] = key[q] /\ entry'[q] = entry[q]
      BY <1>4 DEF TypeOK, CheckFresh, Answer, Goto
    <2> QED
      BY <1>4, <1>a, <2>1, SameCopies DEF CheckFresh, world
  <1>5. ASSUME NEW p \in Request, Recheck(p) \/ NotFetched(p)
        PROVE  CopyIsCurrent'
    <2>1. \A q \in Request : pc'[q] \in {"check", "store"} =>
             pc[q] = pc'[q] /\ key'[q] = key[q] /\ entry'[q] = entry[q]
      BY <1>5, UnlockedCopies DEF TypeOK, Recheck, NotFetched, Answer, Goto
    <2> QED
      BY <1>5, <1>a, <2>1, SameCopies DEF Recheck, NotFetched, world
  <1>6. ASSUME NEW p \in Request, Fetched(p)
        PROVE  CopyIsCurrent'
    <2>1. /\ UNCHANGED <<now, redirectMap, key>>
          /\ pc'[p] = "store" /\ entry'[p].target # 0
          /\ \A q \in Request \ {p} : pc'[q] = pc[q] /\ entry'[q] = entry[q]
      BY <1>6 DEF TypeOK, Fetched, Goto, world
    <2> QED
      BY <2>1 DEF CopyIsCurrent, EntryTtl
  <1>7. ASSUME NEW p \in Request, Store(p)
        PROVE  CopyIsCurrent'
    <2>1. /\ UNCHANGED <<now, key>> /\ pc[p] = "store" /\ pc[p] \in Exclusive
          /\ \A k \in Key \ {key[p]} : redirectMap'[k] = redirectMap[k]
          /\ \A q \in Request \ {p} : entry'[q] = entry[q]
      BY <1>7 DEF TypeOK, Store, Answer, world, Exclusive
    <2>2. \A q \in Request : pc'[q] \in {"check", "store"} => q # p /\ pc'[q] = pc[q]
      BY <1>7, UnlockedCopies DEF Store
    <2>3. \A q \in Request \ {p} : pc[q] # "store"
      BY <2>1 DEF OrderInv, LockHeld, Exclusive
    <2>4. \/ redirectMap[key[p]] = None
          \/ now > redirectMap[key[p]].at + EntryTtl
      BY <2>1 DEF StaleUnderLock
    <2> SUFFICES ASSUME NEW q \in Request, q # p, pc[q] = "check"
                 PROVE  \/ entry[q] = redirectMap'[key[q]]
                        \/ entry[q] = None
                        \/ now > entry[q].at + EntryTtl
      BY <2>1, <2>2, <2>3 DEF CopyIsCurrent, EntryTtl
    <2> QED
      BY <2>1, <2>4, Ages DEF CopyIsCurrent
  <1>8. ASSUME NEW k \in Key, Publish(k)
        PROVE  CopyIsCurrent'
    BY <1>8, <1>a, SameCopies DEF Publish
  <1>9. CASE Tick
    BY <1>9, <1>a, SameCopies DEF Tick
  <1>10. CASE UNCHANGED vars
    BY <1>10, <1>a, SameCopies DEF vars
  <1> QED
    BY <1>1, <1>2, <1>3, <1>4, <1>5, <1>6, <1>7, <1>8, <1>9, <1>10 DEF Next, Step

\* The inductive invariant of the refinement.
LEMMA LookupInvariance == Spec => []LookupInv
PROOF
  <1>1. Init => LookupInv
    BY InitType, InitOrder
    DEF LookupInv, Init, StaleUnderLock, CopyIsCurrent
  <1>2. LookupInv /\ [Next]_vars => LookupInv'
    BY NextType, NextOrder, NextStale, NextCopies DEF LookupInv
  <1> QED
    BY <1>1, <1>2, PTL DEF Spec

----------------------------------------------------------------------------
(* Every step is a step of RedirectCache, or none.                          *)

\* The cache is empty and nobody waits.
LEMMA InitRefines == Init => Cache!Init
PROOF
  <1> SUFFICES ASSUME Init PROVE Cache!Init
    OBVIOUS
  <1>1. target \in [Key -> {0, 1}]
    BY DEF Init
  <1>2. {p \in Request : pc[p] # "idle"} = {}
    BY DEF Init
  <1> QED
    BY <1>1, <1>2 DEF Init, None, Cache!Init, Cache!None

\* A step inside of a lookup is none of the cache.
LEMMA InnerRefines ==
    ASSUME UNCHANGED <<now, target, redirectMap, key, reply>>,
           \A q \in Request : pc'[q] = "idle" <=> pc[q] = "idle"
    PROVE  UNCHANGED Cache!vars
PROOF
  <1>1. {p \in Request : pc'[p] # "idle"} = {p \in Request : pc[p] # "idle"}
    OBVIOUS
  <1> QED
    BY <1>1 DEF Cache!vars

\* The answer of a request ends its lookup.
LEMMA AnswerRefines ==
    ASSUME TypeOK, NEW p \in Request, NEW v \in Version, Answer(p, v),
           UNCHANGED world, pc[p] # "idle", pc'[p] = "idle",
           \A q \in Request \ {p} : pc'[q] = "idle" <=> pc[q] = "idle"
    PROVE  /\ p \in {q \in Request : pc[q] # "idle"}
           /\ {q \in Request : pc[q] # "idle"}' = {q \in Request : pc[q] # "idle"} \ {p}
           /\ reply' = [reply EXCEPT ![p] = v]
           /\ UNCHANGED <<now, target, key>>
PROOF
  <1> DEFINE waiting == {q \in Request : pc[q] # "idle"}
  <1>1. {q \in Request : pc'[q] # "idle"} = waiting \ {p}
    OBVIOUS
  <1>2. p \in waiting
    OBVIOUS
  <1> QED
    BY <1>1, <1>2 DEF Answer, world

\* Unlock ends the lookup of its caller only.
LEMMA UnlockRefines ==
    ASSUME TypeOK, NEW p \in Request, Unlock(p)
    PROVE  /\ pc'[p] = "idle"
           /\ \A q \in Request \ {p} : pc'[q] = "idle" <=> pc[q] = "idle"
  BY DEF Unlock

\* A lookup asks, moves on, or answers as the cache does.
LEMMA StepRefines == LookupInv /\ [Next]_vars => [Cache!Next]_Cache!vars
PROOF
  <1> SUFFICES ASSUME LookupInv, [Next]_vars PROVE [Cache!Next]_Cache!vars
    OBVIOUS
  <1> USE DEF LookupInv
  <1>1. ASSUME NEW p \in Request, NEW k \in Key, Arrive(p, k)
        PROVE  Cache!Next
    <2> DEFINE waiting == {q \in Request : pc[q] # "idle"}
    <2>1. {q \in Request : pc'[q] # "idle"} = waiting \cup {p}
      BY <1>1 DEF TypeOK, Arrive, Goto
    <2>2. p \notin waiting
      BY <1>1 DEF Arrive
    <2>3. Cache!Ask(p, k)
      BY <1>1, <2>1, <2>2 DEF Arrive, world, Cache!Ask
    <2> QED
      BY <2>3 DEF Cache!Next
  <1>2. ASSUME NEW p \in Request,
               RLock(p) \/ RUnlock(p) \/ Lock(p) \/ Drain(p) \/ Fetched(p)
        PROVE  UNCHANGED Cache!vars
    <2>1. \A q \in Request : pc'[q] = "idle" <=> pc[q] = "idle"
      BY <1>2 DEF TypeOK, RLock, RUnlock, Lock, Drain, Fetched, Goto
    <2> QED
      BY <1>2, <2>1, InnerRefines DEF RLock, RUnlock, Lock, Drain, Fetched, world
  <1>3. ASSUME NEW p \in Request, CheckFresh(p)
        PROVE  [Cache!Next]_Cache!vars
    <2>1. CASE /\ entry[p] # None /\ entry[p].at + EntryTtl > now
               /\ Answer(p, entry[p].target) /\ Goto(p, "idle")
      <3>1. pc[p] = "check" /\ UNCHANGED world /\ UNCHANGED redirectMap
        BY <1>3 DEF CheckFresh
      <3>2. entry[p] = redirectMap[key[p]]
        BY <2>1, <3>1, Ages DEF CopyIsCurrent
      <3>3. ~Cache!TooOld(redirectMap[key[p]])
        BY <2>1, <3>2, Ages DEF Cache!TooOld, Cache!None, None
      <3>4. /\ pc'[p] = "idle"
            /\ \A q \in Request \ {p} : pc'[q] = "idle" <=> pc[q] = "idle"
        BY <2>1 DEF TypeOK, Goto
      <3>5. entry[p].target \in Version
        BY DEF TypeOK, Entry
      <3>6. Cache!Answer(p, redirectMap[key[p]].target)
        <4>1. TypeOK /\ pc[p] # "idle"
          BY <3>1
        <4>2. Cache!Answer(p, entry[p].target)
          BY <2>1, <3>1, <3>4, <3>5, <4>1, AnswerRefines DEF Cache!Answer
        <4> QED
          BY <3>2, <4>2 DEF Cache!Answer
      <3>7. Cache!Hit(p)
        BY <3>1, <3>3, <3>6 DEF Cache!Hit
      <3> QED
        BY <3>7 DEF Cache!Next
    <2>2. CASE Goto(p, "lock") /\ UNCHANGED <<key, entry, reply, seen, floor>>
      <3>1. \A q \in Request : pc'[q] = "idle" <=> pc[q] = "idle"
        BY <1>3, <2>2 DEF TypeOK, CheckFresh, Goto
      <3> QED
        BY <1>3, <2>2, <3>1, InnerRefines DEF CheckFresh, world
    <2> QED
      BY <1>3, <2>1, <2>2 DEF CheckFresh
  <1>4. ASSUME NEW p \in Request, Recheck(p)
        PROVE  [Cache!Next]_Cache!vars
    <2> DEFINE e == redirectMap[key[p]]
    <2>1. pc[p] = "recheck" /\ UNCHANGED world /\ UNCHANGED redirectMap
      BY <1>4 DEF Recheck
    <2>2. CASE /\ ~(e = None \/ e.at + EntryTtl < now)
               /\ Answer(p, e.target) /\ Unlock(p)
      <3>1. ~Cache!TooOld(e)
        BY <2>2 DEF Cache!TooOld, Cache!None, None
      <3>2. e.target \in Version
        BY Ages DEF Entry
      <3>3. Cache!Answer(p, e.target)
        <4>1. TypeOK /\ pc[p] # "idle"
          BY <2>1
        <4>2. /\ pc'[p] = "idle"
              /\ \A q \in Request \ {p} : pc'[q] = "idle" <=> pc[q] = "idle"
          BY <2>2, <4>1, UnlockRefines
        <4> QED
          BY <2>1, <2>2, <3>2, <4>1, <4>2, AnswerRefines DEF Cache!Answer
      <3>4. Cache!Hit(p)
        BY <2>1, <3>1, <3>3 DEF Cache!Hit
      <3> QED
        BY <3>4 DEF Cache!Next
    <2>3. CASE Goto(p, "fetch") /\ UNCHANGED <<writer, key, entry, reply, seen, floor>>
      <3>1. \A q \in Request : pc'[q] = "idle" <=> pc[q] = "idle"
        BY <2>1, <2>3 DEF TypeOK, Goto
      <3> QED
        BY <2>1, <2>3, <3>1, InnerRefines DEF world
    <2> QED
      BY <1>4, <2>2, <2>3 DEF Recheck
  <1>a. ASSUME NEW p \in Request, pc[p] \in {"fetch", "store"}
        PROVE  Cache!TooOld(redirectMap[key[p]])
    BY <1>a, Ages DEF StaleUnderLock, Cache!TooOld, Cache!None, None
  <1>5. ASSUME NEW p \in Request, NotFetched(p)
        PROVE  Cache!Next
    <2>1. /\ pc[p] = "fetch" /\ UNCHANGED world /\ UNCHANGED redirectMap
          /\ Answer(p, 0) /\ Unlock(p)
      BY <1>5 DEF NotFetched
    <2>2. Cache!Answer(p, 0)
      BY <2>1, UnlockRefines, AnswerRefines, RedirectConstants DEF Cache!Answer
    <2>3. Cache!Miss(p)
      BY <1>a, <2>1, <2>2 DEF Cache!Miss
    <2> QED
      BY <2>3 DEF Cache!Next
  <1>6. ASSUME NEW p \in Request, Store(p)
        PROVE  Cache!Next
    <2> DEFINE v == entry[p].target
    <2>1. /\ pc[p] = "store" /\ UNCHANGED world /\ Answer(p, v) /\ Unlock(p)
          /\ redirectMap' = [redirectMap EXCEPT ![key[p]] =
                               [target |-> v, at |-> now]]
      BY <1>6 DEF Store
    <2>2. v \in Version /\ v \in Nat /\ v # 0
      BY <2>1, Ages, RedirectConstants DEF Entry, CopyIsCurrent
    <2>3. Cache!Answer(p, v)
      <3>1. TypeOK /\ pc[p] # "idle"
        BY <2>1
      <3>2. /\ pc'[p] = "idle"
            /\ \A q \in Request \ {p} : pc'[q] = "idle" <=> pc[q] = "idle"
        BY <2>1, <3>1, UnlockRefines
      <3> QED
        BY <2>1, <2>2, <3>1, <3>2, AnswerRefines DEF Cache!Answer
    <2>4. /\ v \in redirectMap[key[p]].target .. target[key[p]]
          /\ v \in 1 .. target[key[p]]
      BY <2>1, <2>2, Numbers DEF OrderInv, ReadIsRecent
    <2>5. Cache!Fill(p, v)
      BY <1>a, <2>1, <2>3, <2>4 DEF Cache!Fill
    <2> QED
      BY <2>4, <2>5 DEF Cache!Next
  <1>7. ASSUME NEW k \in Key, Publish(k)
        PROVE  Cache!Next
    BY <1>7 DEF Publish, Cache!Next, Cache!Publish
  <1>8. CASE Tick
    BY <1>8 DEF Tick, Cache!Next, Cache!Tick
  <1>9. CASE UNCHANGED vars
    BY <1>9 DEF vars, Cache!vars
  <1> QED
    BY <1>1, <1>2, <1>3, <1>4, <1>5, <1>6, <1>7, <1>8, <1>9 DEF Next, Step

(* The redirect store implements a cache that is looked up and filled in one *)
(* step: with any number of requests, no answer of GetRedirectEntry comes   *)
(* from an entry that is too old, or that another request has replaced      *)
(* meanwhile (redirect_store.go:115-149).                                    *)
THEOREM AtomicLookupsAlways == Spec => AtomicLookups
  BY InitRefines, StepRefines, LookupInvariance, PTL
  DEF Spec, AtomicLookups, Cache!Spec
=============================================================================
