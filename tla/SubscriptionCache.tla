------------------------- MODULE SubscriptionCache --------------------------
(***************************************************************************)
(* The cache through which the delivery pipeline sees the subscriptions    *)
(* (app/subscription_cache.go).  It is loaded from Postgres on the first   *)
(* lookup, under the write lock of an RWMutex, by two statements; Flush    *)
(* empties it after an edit.  A lookup calls load() and then takes the     *)
(* read lock again, so a Flush may fall between the two.                   *)
(*                                                                         *)
(* Sections that hold the lock without a database call are one step; the   *)
(* loader, which holds it across its statements, is `writer`.  A           *)
(* subscription's filter and max_retries are its `terms`; a subscriber's   *)
(* name, secret and max_parallel are its `settings`.                       *)
(***************************************************************************)
EXTENDS Integers, Sequences, FiniteSets

CONSTANTS
    Readers,    \* goroutines that look subscriptions up: the dispatcher, the resume
    Nobody,     \* no goroutine
    Urls, Settings, Patterns, Terms,
    Subjects,
    Matches,    \* Matches[p]: the subjects that pattern p matches
    DbMayFail   \* whether a statement may return an error

ASSUME CacheAssumption ==
    /\ Nobody \notin Readers
    /\ Matches \in [Patterns -> SUBSET Subjects]
    /\ DbMayFail \in BOOLEAN

VARIABLES
    subscribers,    \* rows of table subscribers
    subscriptions,  \* rows of table subscriptions
    loaded, cachedSubscribers, cachedSubscriptions, \* the fields of the cache
    writer,         \* the loader that holds the write lock, or Nobody
    fetched,        \* the subscribers that the loader has read so far
    at,             \* at[r]: where reader r is in its lookup
    wanted          \* wanted[r]: the subject r looks up

tables == <<subscribers, subscriptions>>
fields == <<loaded, cachedSubscribers, cachedSubscriptions>>
lookups == <<fetched, at, wanted>>
cacheVars == <<tables, fields, writer, lookups>>

SubscriberRow == [id : Nat, url : Urls, settings : Settings]
SubscriptionRow == [id : Nat, owner : Nat, pattern : Patterns, terms : Terms]

CacheInit ==
    /\ loaded = FALSE /\ cachedSubscribers = {} /\ cachedSubscriptions = {}
    /\ writer = Nobody
    /\ fetched = {}
    /\ at = [r \in Readers |-> "idle"]
    /\ wanted \in [Readers -> Subjects]

Unlocked == writer = Nobody

MatchingRows(rows, subject) == {b \in rows : subject \in Matches[b.pattern]}

-----------------------------------------------------------------------------
LookUp(r, subject) ==
    /\ at[r] = "idle"
    /\ at' = [at EXCEPT ![r] = "check"]
    /\ wanted' = [wanted EXCEPT ![r] = subject]
    /\ UNCHANGED <<tables, fields, writer, fetched>>

\* load's first look at c.loaded, under the read lock.
Check(r) ==
    /\ at[r] = "check" /\ Unlocked
    /\ at' = [at EXCEPT ![r] = IF loaded THEN "read" ELSE "lock"]
    /\ UNCHANGED <<tables, fields, writer, fetched, wanted>>

\* Mutant: the statements run without the lock.
LockNothing(r) ==
    /\ at[r] = "lock" /\ Unlocked
    /\ at' = [at EXCEPT ![r] = IF loaded THEN "read" ELSE "subscribers"]
    /\ UNCHANGED <<tables, fields, writer, fetched, wanted>>

\* The write lock is taken and c.loaded looked at again.
Lock(r) ==
    /\ at[r] = "lock" /\ Unlocked
    /\ \/ /\ loaded
          /\ at' = [at EXCEPT ![r] = "read"]
          /\ UNCHANGED writer
       \/ /\ ~loaded
          /\ at' = [at EXCEPT ![r] = "subscribers"]
          /\ writer' = r
    /\ UNCHANGED <<tables, fields, fetched, wanted>>

ListSubscribers(r) ==
    /\ at[r] = "subscribers"
    /\ fetched' = subscribers
    /\ at' = [at EXCEPT ![r] = "subscriptions"]
    /\ UNCHANGED <<tables, fields, writer, wanted>>

\* ListAllSubscriptions returns; the maps are built and the lock released.
Store(r) ==
    /\ at[r] = "subscriptions"
    /\ loaded' = TRUE
    /\ cachedSubscribers' = fetched
    /\ cachedSubscriptions' = subscriptions
    /\ writer' = Nobody
    /\ fetched' = {}
    /\ at' = [at EXCEPT ![r] = "read"]
    /\ UNCHANGED <<tables, wanted>>

\* Mutant: the error return keeps the lock.
LoadFailsLocked(r) ==
    /\ DbMayFail /\ at[r] \in {"subscribers", "subscriptions"}
    /\ fetched' = {}
    /\ at' = [at EXCEPT ![r] = "idle"]
    /\ UNCHANGED <<tables, fields, writer, wanted>>

\* A statement fails: the lock is released and the lookup returns the error.
LoadFails(r) ==
    /\ DbMayFail /\ at[r] \in {"subscribers", "subscriptions"}
    /\ writer' = Nobody
    /\ fetched' = {}
    /\ at' = [at EXCEPT ![r] = "idle"]
    /\ UNCHANGED <<tables, fields, wanted>>

\* What GetMatchingSubscriptions returns.
Answer(r) == MatchingRows(cachedSubscriptions, wanted[r])

\* The read lock is taken again and the cache, whatever it is now, searched.
Read(r) ==
    /\ at[r] = "read" /\ Unlocked
    /\ at' = [at EXCEPT ![r] = "idle"]
    /\ UNCHANGED <<tables, fields, writer, fetched, wanted>>

\* Flush: waits for the lock and empties the cache.
FlushCache ==
    /\ Unlocked
    /\ loaded' = FALSE /\ cachedSubscribers' = {} /\ cachedSubscriptions' = {}
    /\ UNCHANGED <<writer, lookups>>

Reader(r) ==
    Check(r) \/ Lock(r) \/ ListSubscribers(r) \/ Store(r) \/ LoadFails(r) \/ Read(r)

\* The write lock is held by the one reader that is loading the cache, and by nobody
\* once its load is over, failed or not: no error path keeps it.
LoaderHoldsLock ==
    \A r \in Readers : at[r] \in {"subscribers", "subscriptions"} <=> writer = r

\* The variables of the cache have their types.
CacheTypeOK ==
    /\ subscribers \subseteq SubscriberRow /\ subscriptions \subseteq SubscriptionRow
    /\ loaded \in BOOLEAN
    /\ cachedSubscribers \subseteq SubscriberRow
    /\ cachedSubscriptions \subseteq SubscriptionRow
    /\ writer \in Readers \cup {Nobody}
    /\ fetched \subseteq SubscriberRow
    /\ at \in [Readers -> {"idle", "check", "lock", "subscribers", "subscriptions", "read"}]
    /\ wanted \in [Readers -> Subjects]
=============================================================================
