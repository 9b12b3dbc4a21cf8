---------------------------- MODULE RedirectStore ----------------------------
(***************************************************************************)
(* The cache of project redirects of one gateway replica                    *)
(* (internal/redirects/redirect_store.go): a map behind a RWMutex that is   *)
(* filled from the data service, one request at a time, with the write lock *)
(* held while the data service answers.                                      *)
(***************************************************************************)
EXTENDS Integers

CONSTANTS
    Request,        \* requests that may look for a redirect together
    Nobody,         \* no request
    Key,            \* project URLs
    ConfiguredTtl,  \* Gitlab.EntryTtlSeconds, 0 when it is not configured
    DefaultTtl,     \* the default that RedirectsStoreConfig.Validate sets
    CancelAllowed,  \* clients may disconnect
    FaultsAllowed,  \* a call to the data service may fail
    MaxVersion, MaxTime   \* bounds: changes of a redirect, the clock

ASSUME RedirectAssumption ==
    /\ {ConfiguredTtl, DefaultTtl, MaxVersion, MaxTime} \subseteq Nat
    /\ {CancelAllowed, FaultsAllowed} \subseteq BOOLEAN
    /\ Nobody \notin Request

\* The targets a redirect has had are numbered; 0 is "there is no redirect",
\* to the data service, to the cache and in a response (404).
Version == 0 .. MaxVersion
Entry   == [target : Version, at : Nat]
None    == [target |-> 0, at |-> 0]

VARIABLES
    now,
    target,      \* data service: the current version of each redirect
    redirectMap, \* the cache, None for a key that is not in it
    writer,      \* RWMutex: who holds it for writing, or waits for the readers
    pc, key,     \* of a request: where it is, what it looks for
    entry,       \* its local variable
    reply,       \* what it answered, 0 for 404
    seen,        \* history: the newest version that any request was redirected to
    floor        \* history: seen, for its key, when the request arrived

vars == <<now, target, redirectMap, writer, pc, key, entry, reply, seen, floor>>
world == <<now, target>>

Exclusive == {"drain", "recheck", "fetch", "store"}

TypeOK ==
    /\ now \in Nat
    /\ target \in [Key -> Version]
    /\ redirectMap \in [Key -> Entry]
    /\ writer \in Request \cup {Nobody}
    /\ pc \in [Request -> {"idle", "rlock", "read", "check", "lock"} \cup Exclusive]
    /\ key \in [Request -> Key]
    /\ entry \in [Request -> Entry]
    /\ reply \in [Request -> Version]
    /\ seen \in [Key -> Version]
    /\ floor \in [Request -> Version]

Init ==
    /\ now = 1
    /\ target \in [Key -> {0, 1} \cap Version]
    /\ redirectMap = [k \in Key |-> None]
    /\ writer = Nobody
    /\ pc = [p \in Request |-> "idle"]
    /\ key \in [Request -> Key]
    /\ entry = [p \in Request |-> None]
    /\ reply = [p \in Request |-> 0]
    /\ seen = [k \in Key |-> 0]
    /\ floor = [p \in Request |-> 0]

Goto(p, label) == pc' = [pc EXCEPT ![p] = label]

\* NewRedirectStore takes the configured value; RedirectsStoreConfig.Validate,
\* which has a default for it, is not called by Config.Validate.
EntryTtl == ConfiguredTtl

\* Config of the code plus the default, as the comment has it.
DocumentedTtl == IF ConfiguredTtl = 0 THEN DefaultTtl ELSE ConfiguredTtl

----------------------------------------------------------------------------
(* Middleware and GetRedirectEntry: first with the read lock                *)

Arrive(p, k) ==
    /\ pc[p] = "idle"
    /\ Goto(p, "rlock")
    /\ key' = [key EXCEPT ![p] = k]
    /\ reply' = [reply EXCEPT ![p] = 0]
    /\ floor' = [floor EXCEPT ![p] = seen[k]]
    /\ UNCHANGED <<world, redirectMap, writer, entry, seen>>

\* A writer, also one that still waits for the readers, keeps readers out.
RLock(p) ==
    /\ pc[p] = "rlock" /\ writer = Nobody
    /\ Goto(p, "read")
    /\ UNCHANGED <<world, redirectMap, writer, key, entry, reply, seen, floor>>

RUnlock(p) ==
    /\ pc[p] = "read"
    /\ entry' = [entry EXCEPT ![p] = redirectMap[key[p]]]
    /\ Goto(p, "check")
    /\ UNCHANGED <<world, redirectMap, writer, key, reply, seen, floor>>

\* The response: 301 to the target, or 404 for version 0.
Answer(p, version) ==
    /\ reply' = [reply EXCEPT ![p] = version]
    /\ seen' = [seen EXCEPT ![key[p]] = IF version > @ THEN version ELSE @]
    /\ entry' = [entry EXCEPT ![p] = None]
    /\ UNCHANGED <<key, floor>>

\* Mutant of CheckFresh: an entry counts whatever its age.
CheckFreshNot(p) ==
    /\ pc[p] = "check"
    /\ \/ /\ entry[p] # None
          /\ Answer(p, entry[p].target)
          /\ Goto(p, "idle")
       \/ /\ entry[p] = None
          /\ Goto(p, "lock")
          /\ UNCHANGED <<key, entry, reply, seen, floor>>
    /\ UNCHANGED <<world, redirectMap, writer>>

\* The entry counts until UpdatedAt + entryTtl is not after now.
CheckFresh(p) ==
    /\ pc[p] = "check"
    /\ \/ /\ entry[p] # None /\ entry[p].at + EntryTtl > now
          /\ Answer(p, entry[p].target)
          /\ Goto(p, "idle")
       \/ /\ ~(entry[p] # None /\ entry[p].at + EntryTtl > now)
          /\ Goto(p, "lock")
          /\ UNCHANGED <<key, entry, reply, seen, floor>>
    /\ UNCHANGED <<world, redirectMap, writer>>

----------------------------------------------------------------------------
(* Then with the write lock, during the whole call of the data service      *)

Lock(p) ==
    /\ pc[p] = "lock" /\ writer = Nobody
    /\ writer' = p
    /\ Goto(p, "drain")
    /\ UNCHANGED <<world, redirectMap, key, entry, reply, seen, floor>>

Drain(p) ==
    /\ pc[p] = "drain"
    /\ \A q \in Request : pc[q] # "read"
    /\ Goto(p, "recheck")
    /\ UNCHANGED <<world, redirectMap, writer, key, entry, reply, seen, floor>>

\* Unlock admits all the readers that wait, then the next writer.
Unlock(p) ==
    /\ writer' = Nobody
    /\ pc' = [q \in Request |-> CASE q = p -> "idle"
                                  [] q # p /\ pc[q] = "rlock" -> "read"
                                  [] OTHER -> pc[q]]

\* Mutant of Recheck: the entry is not looked at again.
RecheckNothing(p) ==
    /\ pc[p] = "recheck"
    /\ Goto(p, "fetch")
    /\ UNCHANGED <<writer, key, entry, reply, seen, floor>>
    /\ UNCHANGED <<world, redirectMap>>

\* Another request may have fetched the entry meanwhile.
Recheck(p) ==
    LET e == redirectMap[key[p]]
        stale == e = None \/ e.at + EntryTtl < now
    IN  /\ pc[p] = "recheck"
        /\ \/ /\ ~stale
              /\ Answer(p, e.target)
              /\ Unlock(p)
           \/ /\ stale
              /\ Goto(p, "fetch")
              /\ UNCHANGED <<writer, key, entry, reply, seen, floor>>
        /\ UNCHANGED <<world, redirectMap>>

\* Mutant of Fetched: the lock is let go before the answer is stored.
FetchedUnlocked(p) ==
    /\ pc[p] = "fetch"
    /\ target[key[p]] # 0
    /\ entry' = [entry EXCEPT ![p] = [target |-> target[key[p]], at |-> 0]]
    /\ writer' = Nobody
    /\ pc' = [q \in Request |-> CASE q = p -> "store"
                                  [] q # p /\ pc[q] = "rlock" -> "read"
                                  [] OTHER -> pc[q]]
    /\ UNCHANGED <<world, redirectMap, key, reply, seen, floor>>

\* The data service answers 200 with the redirect as it is now.
Fetched(p) ==
    /\ pc[p] = "fetch"
    /\ target[key[p]] # 0
    /\ entry' = [entry EXCEPT ![p] = [target |-> target[key[p]], at |-> 0]]
    /\ Goto(p, "store")
    /\ UNCHANGED <<world, redirectMap, writer, key, reply, seen, floor>>

\* Mutant of NotFetched: the error return forgets to unlock.
NotFetchedLocked(p) ==
    /\ pc[p] = "fetch"
    /\ Answer(p, 0)
    /\ Goto(p, "idle")
    /\ UNCHANGED <<world, redirectMap, writer>>

\* There is no redirect, the call fails, or the client goes away (the call is
\* made under the context of its request): 404, and nothing is remembered.
NotFetched(p) ==
    /\ pc[p] = "fetch"
    /\ target[key[p]] = 0 \/ FaultsAllowed \/ CancelAllowed
    /\ Answer(p, 0)
    /\ Unlock(p)
    /\ UNCHANGED <<world, redirectMap>>

\* Mutant of Store: the lifetime of the entry is taken off UpdatedAt.
StoreAged(p) ==
    /\ pc[p] = "store"
    /\ redirectMap' = [redirectMap EXCEPT ![key[p]] =
                         [target |-> entry[p].target, at |-> now - EntryTtl]]
    /\ Answer(p, entry[p].target)
    /\ Unlock(p)
    /\ UNCHANGED world

Store(p) ==
    /\ pc[p] = "store"
    /\ redirectMap' = [redirectMap EXCEPT ![key[p]] =
                         [target |-> entry[p].target, at |-> now]]
    /\ Answer(p, entry[p].target)
    /\ Unlock(p)
    /\ UNCHANGED world

----------------------------------------------------------------------------
(* The data service and the clock                                           *)

Publish(k) ==
    /\ target[k] < MaxVersion
    /\ target' = [target EXCEPT ![k] = @ + 1]
    /\ UNCHANGED <<now, redirectMap, writer, pc, key, entry, reply, seen, floor>>

Tick ==
    /\ now < MaxTime
    /\ now' = now + 1
    /\ UNCHANGED <<target, redirectMap, writer, pc, key, entry, reply, seen, floor>>

Step(p) ==
    \/ RLock(p)
    \/ RUnlock(p)
    \/ CheckFresh(p)
    \/ Lock(p)
    \/ Drain(p)
    \/ Recheck(p)
    \/ Fetched(p)
    \/ NotFetched(p)
    \/ Store(p)

Next ==
    \/ \E p \in Request, k \in Key : Arrive(p, k)
    \/ \E p \in Request : Step(p)
    \/ \E k \in Key : Publish(k)
    \/ Tick

Spec == Init /\ [][Next]_vars

\* Goroutines run, the data service answers or fails (the code sets no
\* timeout), and the mutex of the writers is fair (sync.Mutex hands itself to
\* a writer that has waited for a millisecond).
FairSpec == Spec /\ \A p \in Request : WF_vars(Step(p)) /\ SF_vars(Lock(p))

----------------------------------------------------------------------------
(* Properties                                                               *)

\* What a browser was redirected to once, no later request undoes: a request
\* that arrives after another was answered is not redirected to an older
\* target.  The write lock that GetRedirectEntry keeps during the call
\* (redirect_store.go:128-146) is what makes the answers of the data service
\* enter the map in the order in which they were given.
NeverBackInTime == \A p \in Request : reply[p] # 0 => reply[p] >= floor[p]

Refetched(ttl) ==
    \A k \in Key : redirectMap'[k] # redirectMap[k] /\ redirectMap[k] # None
                   => now > redirectMap[k].at + ttl

\* An entry is replaced only after it has expired, however many requests found
\* it missing or stale at once: "Re-check after acquiring the lock, since it
\* might have been updated meanwhile" (redirect_store.go:130).
RefetchedOnlyWhenStale == [][Refetched(EntryTtl)]_vars

\* The same with the lifetime the configuration documents: "default to 5
\* minutes" (config/redirects.go:24).
DefaultTtlApplies == [][Refetched(DocumentedTtl)]_vars

\* The refinement: the cache without its lock and the copies of its entries.
Cache == INSTANCE RedirectCache
           WITH Ttl <- EntryTtl, latest <- target, cache <- redirectMap,
                waiting <- {p \in Request : pc[p] # "idle"}

\* Every lookup takes effect in one step, although GetRedirectEntry decides on
\* a copy that it read before (redirect_store.go:121-126), looks a second time
\* and lets go of the lock in between: its answer is that of a cache entry
\* which is still the current one, or that of the data service.
AtomicLookups == Cache!Spec

\* Nobody waits for ever, neither for the lock nor behind the readers.
EveryLookupEnds == \A p \in Request : pc[p] # "idle" ~> pc[p] = "idle"

\* The inductive invariant behind NeverBackInTime: who is past Lock is the
\* writer; the cache is behind the data service and ahead of every answer.
LockHeld == \A p \in Request : pc[p] \in Exclusive <=> writer = p
CacheBehind ==
    \A k \in Key : /\ seen[k] <= redirectMap[k].target
                   /\ redirectMap[k].target <= target[k]
FloorBehind ==
    \A p \in Request : pc[p] # "idle" => floor[p] <= redirectMap[key[p]].target
ReadIsRecent ==
    \A p \in Request :
        /\ pc[p] = "check" => /\ entry[p].target <= redirectMap[key[p]].target
                              /\ entry[p].target >= floor[p]
        /\ pc[p] = "store" => /\ entry[p].target <= target[key[p]]
                              /\ entry[p].target >= redirectMap[key[p]].target

\* The invariant behind RefetchedOnlyWhenStale: what the holder of the lock
\* found to be stale is stale until it has stored the answer.
StaleUnderLock ==
    \A p \in Request : pc[p] \in {"fetch", "store"} =>
        LET e == redirectMap[key[p]] IN e = None \/ now > e.at + EntryTtl

\* The invariant behind AtomicLookups: the copy that a request is about to
\* check is that of the current entry, or it is too old anyway; and the holder
\* of the lock has an answer of the data service that is a redirect.
CopyIsCurrent ==
    \A p \in Request :
        /\ pc[p] = "check" => \/ entry[p] = redirectMap[key[p]]
                              \/ entry[p] = None
                              \/ now > entry[p].at + EntryTtl
        /\ pc[p] = "store" => entry[p].target # 0

OrderInv ==
    /\ LockHeld
    /\ CacheBehind
    /\ FloorBehind
    /\ ReadIsRecent
    /\ NeverBackInTime
=============================================================================
