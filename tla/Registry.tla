------------------------------ MODULE Registry ------------------------------
(***************************************************************************)
(* The handlers that edit subscribers and subscriptions: the admin API     *)
(* (api/subscribers.go) and the UI (views/subscribers.go), beside the      *)
(* lookups of the SubscriptionCache.  Every SQL statement is a transaction *)
(* of its own, so a handler that issues several can be interleaved with    *)
(* others after each, or give up after some of them; the last thing a      *)
(* successful handler does is to Flush the cache.                          *)
(*                                                                         *)
(* A handler whose first statement fails has changed nothing: that is a    *)
(* step that changes no variable.  DbMayFail includes the cancellation of  *)
(* a request's context by its client.                                      *)
(***************************************************************************)
EXTENDS SubscriptionCache

CONSTANTS
    Handlers,       \* goroutines that serve requests
    Registrations,  \* bodies of POST /api/subscribers: [url, settings, subs]
    Stored,         \* the subscriber and subscription rows the process starts with
    MaxRequests     \* bound: requests in a behaviour

Wishes == [pattern : Patterns, terms : Terms]

ASSUME RegistryAssumption ==
    /\ Registrations \subseteq [url : Urls, settings : Settings, subs : Seq(Wishes)]
    /\ Stored \in [subscribers : SUBSET SubscriberRow,
                   subscriptions : SUBSET SubscriptionRow, lastId : Nat]
    /\ \A s, t \in Stored.subscribers : s.id = t.id \/ s.url = t.url => s = t
    /\ \A b, c \in Stored.subscriptions : b.id = c.id => b = c
    /\ \A b \in Stored.subscriptions : \E s \in Stored.subscribers : b.owner = s.id
    /\ \A row \in Stored.subscribers \cup Stored.subscriptions : row.id <= Stored.lastId
    /\ MaxRequests \in Nat

VARIABLES
    lastId,     \* identifiers given so far, in created_at order
    attempted,  \* subscribers that rows of delivery_attempts refer to
    step,       \* step[h]: the statement handler h issues next, "flush" or "idle"
    job,        \* job[h]: its local variables
    requests,   \* requests so far
    \* history
    unflushed,  \* a handler returned between a write and its Flush, and nobody flushed since
    alone       \* alone[h]: no other request was served since h's began

handlerVars == <<step, job, requests, unflushed, alone>>
others == <<lastId, attempted, handlerVars>>
vars == <<cacheVars, others>>

Jobs == [owner : Nat, subs : Seq(Wishes), done : Nat,
         old : SUBSET SubscriptionRow, stale : SUBSET SubscriptionRow]
NoJob == [owner |-> 0, subs |-> <<>>, done |-> 0, old |-> {}, stale |-> {}]

Init ==
    /\ CacheInit
    /\ subscribers = Stored.subscribers /\ subscriptions = Stored.subscriptions
    /\ lastId = Stored.lastId
    /\ attempted = {}
    /\ step = [h \in Handlers |-> "idle"]
    /\ job = [h \in Handlers |-> NoJob]
    /\ requests = 0
    /\ unflushed = FALSE
    /\ alone = [h \in Handlers |-> FALSE]

-----------------------------------------------------------------------------
Registered(id) == \E s \in subscribers : s.id = id

Owned(id) == {b \in subscriptions : b.owner = id}

DeleteSubscription(id) == subscriptions' = {b \in subscriptions : b.id # id}

\* Also what ON DELETE CASCADE does.
DeleteSubscriptionsForSubscriber(id) == subscriptions' = subscriptions \ Owned(id)

\* A request begins and its first statement is through; `next` comes after it.
Begin(h, next, j) ==
    /\ step[h] = "idle" /\ requests < MaxRequests
    /\ requests' = requests + 1
    /\ step' = [step EXCEPT ![h] = next]
    /\ job' = [job EXCEPT ![h] = j]
    /\ alone' = [g \in Handlers |-> g = h /\ \A x \in Handlers : step[x] = "idle"]
    /\ UNCHANGED <<fields, writer, lookups, attempted, unflushed>>

Goto(h, next) ==
    /\ step' = [step EXCEPT ![h] = next]
    /\ UNCHANGED <<fields, writer, lookups, attempted, requests, unflushed, alone>>

\* The handler answers 500 without a Flush.
GiveUp(h) ==
    /\ step' = [step EXCEPT ![h] = "idle"]
    /\ job' = [job EXCEPT ![h] = NoJob]
    /\ unflushed' = (unflushed \/ step[h] # "unsubscribe")
    /\ alone' = [alone EXCEPT ![h] = FALSE]
    /\ UNCHANGED <<cacheVars, lastId, attempted, requests>>

-----------------------------------------------------------------------------
(* POST /api/subscribers, and the form for a new subscriber.               *)

\* Mutant: no ON CONFLICT.
UpsertAnew(q, id) ==
    /\ id = lastId + 1 /\ lastId' = id
    /\ subscribers' = subscribers \cup {[id |-> id, url |-> q.url, settings |-> q.settings]}
    /\ UNCHANGED subscriptions

\* The row of s gets other settings.
Reconfigure(s, settings) ==
    subscribers' = (subscribers \ {s}) \cup {[s EXCEPT !.settings = settings]}

\* UpsertSubscriber: endpoint_url is UNIQUE.
Upsert(q, id) ==
    \/ /\ \E s \in subscribers : s.url = q.url /\ id = s.id /\ Reconfigure(s, q.settings)
       /\ UNCHANGED <<subscriptions, lastId>>
    \/ /\ \A s \in subscribers : s.url # q.url
       /\ id = lastId + 1 /\ lastId' = id
       /\ subscribers' = subscribers \cup {[id |-> id, url |-> q.url, settings |-> q.settings]}
       /\ UNCHANGED subscriptions

Register(h, q) ==
    \E id \in 1..lastId + 1 :
        /\ Upsert(q, id)
        /\ Begin(h, "list", [NoJob EXCEPT !.owner = id, !.subs = q.subs])

\* The UI's form, which has no subscriptions.
CreateSubscriber(h, q) ==
    \E id \in 1..lastId + 1 : Upsert(q, id) /\ Begin(h, "flush", NoJob)

\* Mutant: existing patterns are not told from incoming ones.
ObsoleteNone(rows, subs) == {}

\* The existing subscriptions that the request does not name.
Obsolete(rows, subs) == {b \in rows : \A i \in DOMAIN subs : subs[i].pattern # b.pattern}

ListExisting(h) ==
    /\ step[h] = "list"
    /\ LET rows == Owned(job[h].owner) IN
       job' = [job EXCEPT ![h].old = rows, ![h].stale = Obsolete(rows, job[h].subs)]
    /\ Goto(h, "sync")
    /\ UNCHANGED <<tables, lastId>>

\* Mutant: the patterns are not looked up among the existing subscriptions.
ExistingNone(h, p) == {}

\* existingByPattern: of several rows with a pattern the map keeps the last.
Existing(h, p) ==
    {b \in job[h].old : b.pattern = p /\ \A c \in job[h].old : c.pattern = p => c.id <= b.id}

\* UpdateSubscription of a row that still exists.
UpdateOne(h, b, wish) ==
    /\ \E row \in subscriptions :
          /\ row.id = b.id
          /\ subscriptions' = (subscriptions \ {row}) \cup {[row EXCEPT !.terms = wish.terms]}
    /\ UNCHANGED <<subscribers, lastId>>

\* CreateSubscription for an owner that still exists.
CreateOne(id, wish) ==
    /\ Registered(id)
    /\ lastId' = lastId + 1
    /\ subscriptions' = subscriptions \cup
         {[id |-> lastId', owner |-> id, pattern |-> wish.pattern, terms |-> wish.terms]}
    /\ UNCHANGED subscribers

SyncOne(h) ==
    /\ step[h] = "sync" /\ job[h].done < Len(job[h].subs)
    /\ LET wish == job[h].subs[job[h].done + 1] IN
       \/ \E b \in Existing(h, wish.pattern) : UpdateOne(h, b, wish)
       \/ /\ Existing(h, wish.pattern) = {}
          /\ CreateOne(job[h].owner, wish)
    /\ job' = [job EXCEPT ![h].done = @ + 1]
    /\ Goto(h, "sync")

\* The row to update, or the owner of the row to create, is gone.
SyncFails(h) ==
    /\ step[h] = "sync" /\ job[h].done < Len(job[h].subs)
    /\ LET wish == job[h].subs[job[h].done + 1] IN
       \/ \E b \in Existing(h, wish.pattern) : \A row \in subscriptions : row.id # b.id
       \/ Existing(h, wish.pattern) = {} /\ ~Registered(job[h].owner)
    /\ GiveUp(h)

\* The subscriptions that are no longer wanted go one by one, the oldest first.
TrimOne(h) ==
    /\ step[h] = "sync" /\ job[h].done = Len(job[h].subs)
    /\ \E b \in job[h].stale :
          /\ \A c \in job[h].stale : b.id <= c.id
          /\ DeleteSubscription(b.id)
          /\ job' = [job EXCEPT ![h].stale = @ \ {b}]
    /\ Goto(h, "sync")
    /\ UNCHANGED <<subscribers, lastId>>

SyncEnds(h) ==
    /\ step[h] = "sync" /\ job[h].done = Len(job[h].subs) /\ job[h].stale = {}
    /\ Goto(h, "flush")
    /\ UNCHANGED <<tables, lastId, job>>

-----------------------------------------------------------------------------
(* DELETE /api/subscribers/{id}.                                           *)

\* GetSubscriberByID finds the subscriber.
Unregister(h, id) ==
    /\ Registered(id)
    /\ Begin(h, "unsubscribe", [NoJob EXCEPT !.owner = id])
    /\ UNCHANGED <<tables, lastId>>

DeleteSubscriptions(h) ==
    /\ step[h] = "unsubscribe"
    /\ DeleteSubscriptionsForSubscriber(job[h].owner)
    /\ Goto(h, "remove")
    /\ UNCHANGED <<subscribers, lastId, job>>

\* DeleteSubscriber cascades to subscriptions, but not to delivery_attempts.
DeleteSubscriber(h) ==
    /\ step[h] = "remove" /\ job[h].owner \notin attempted
    /\ subscribers' = {s \in subscribers : s.id # job[h].owner}
    /\ DeleteSubscriptionsForSubscriber(job[h].owner)
    /\ Goto(h, "flush")
    /\ UNCHANGED <<lastId, job>>

DeleteFails(h) ==
    /\ step[h] = "remove" /\ job[h].owner \in attempted
    /\ GiveUp(h)

-----------------------------------------------------------------------------
(* The forms of the UI: one statement and a Flush.                         *)

UpdateSubscriber(h, id, settings) ==
    /\ \E s \in subscribers : s.id = id /\ Reconfigure(s, settings)
    /\ Begin(h, "flush", NoJob)
    /\ UNCHANGED <<subscriptions, lastId>>

AddSubscription(h, id, wish) ==
    /\ CreateOne(id, wish)
    /\ Begin(h, "flush", NoJob)

\* The row may be gone already: DELETE of no row is no error.
DropSubscription(h, id) ==
    /\ DeleteSubscription(id)
    /\ Begin(h, "flush", NoJob)
    /\ UNCHANGED <<subscribers, lastId>>

-----------------------------------------------------------------------------
Flush(h) ==
    /\ step[h] = "flush"
    /\ FlushCache
    /\ step' = [step EXCEPT ![h] = "idle"]
    /\ job' = [job EXCEPT ![h] = NoJob]
    /\ unflushed' = FALSE
    /\ alone' = [alone EXCEPT ![h] = FALSE]
    /\ UNCHANGED <<tables, lastId, attempted, requests>>

StatementFails(h) ==
    /\ DbMayFail /\ step[h] \notin {"idle", "flush"}
    /\ GiveUp(h)

\* The pipeline, which may have looked the subscriber up long ago, records an
\* attempt to deliver to it.
Attempt(id) ==
    /\ id \notin attempted /\ Registered(id)
    /\ attempted' = attempted \cup {id}
    /\ UNCHANGED <<cacheVars, lastId, handlerVars>>

Request(h) ==
    \/ \E q \in Registrations : Register(h, q) \/ CreateSubscriber(h, q)
    \/ \E id \in 1..lastId :
        \/ Unregister(h, id) \/ DropSubscription(h, id)
        \/ \E settings \in Settings : UpdateSubscriber(h, id, settings)
        \/ \E wish \in Wishes : AddSubscription(h, id, wish)

Handler(h) ==
    \/ ListExisting(h) \/ SyncOne(h) \/ SyncFails(h) \/ TrimOne(h) \/ SyncEnds(h)
    \/ DeleteSubscriptions(h) \/ DeleteSubscriber(h) \/ DeleteFails(h)
    \/ StatementFails(h) \/ Flush(h)

Lookup(r) ==
    /\ Reader(r) \/ \E subject \in Subjects : LookUp(r, subject)
    /\ UNCHANGED others

Next ==
    \/ \E h \in Handlers : Request(h) \/ Handler(h)
    \/ \E r \in Readers : Lookup(r)
    \/ \E id \in 1..lastId : Attempt(id)

Spec == Init /\ [][Next]_vars

-----------------------------------------------------------------------------
(* Properties.                                                             *)

\* Every variable has its type; identifiers and endpoint URLs are unique, every
\* subscription has its subscriber.
TypeOK ==
    /\ CacheTypeOK
    /\ lastId \in Nat
    /\ \A s, t \in subscribers : s.id = t.id \/ s.url = t.url => s = t
    /\ \A b, c \in subscriptions : b.id = c.id => b = c
    /\ \A b \in subscriptions : Registered(b.owner)
    /\ \A row \in subscribers \cup subscriptions : row.id <= lastId
    /\ attempted \subseteq Nat
    /\ step \in [Handlers -> {"idle", "list", "sync", "unsubscribe", "remove", "flush"}]
    /\ job \in [Handlers -> Jobs]
    /\ requests \in 0..MaxRequests
    /\ unflushed \in BOOLEAN
    /\ alone \in [Handlers -> BOOLEAN]

\* Handlers that are between a write and their Flush.
Editing == {h \in Handlers : step[h] \in {"list", "sync", "remove", "flush"}}

\* A loaded cache differs from the tables only while a handler is between its
\* writes and its Flush, or after one that gave up there: no order of load,
\* writes and Flush leaves a stale cache behind.
CacheIsFresh ==
    loaded /\ Editing = {} /\ ~unflushed =>
        cachedSubscribers = subscribers /\ cachedSubscriptions = subscriptions

\* docs/api-reference.md: "On upsert, subscriptions are synced".  A registration
\* that no other request met has, when it is about to answer, a subscription as
\* wished for every pattern it names and none for any other pattern.
Synced ==
    \A h \in Handlers : step[h] = "flush" /\ alone[h] /\ job[h].subs # <<>> =>
        LET subs == job[h].subs IN
        /\ \A b \in Owned(job[h].owner) : \E i \in DOMAIN subs : subs[i].pattern = b.pattern
        /\ \A i \in DOMAIN subs :
              (\A j \in DOMAIN subs : subs[j].pattern = subs[i].pattern => j <= i) =>
                  \E b \in Owned(job[h].owner) :
                      b.pattern = subs[i].pattern /\ b.terms = subs[i].terms

\* The database lets a subscriber have two subscriptions to one pattern, of which later
\* registrations update the newer only.  The second one is the doing of the UI's form, or
\* of a registration that has met another request or names the pattern twice.
PatternsKeptApart ==
    [][\A b \in subscriptions', c \in subscriptions :
          b.id > lastId /\ b.owner = c.owner /\ b.pattern = c.pattern =>
              \E h \in Handlers :
                  \/ step[h] = "idle" /\ step'[h] = "flush"
                  \/ /\ step[h] = "sync" /\ job'[h].done = job[h].done + 1
                     /\ \/ ~alone[h]
                        \/ \E i \in 1..job[h].done : job[h].subs[i].pattern = b.pattern]_vars

\* docs/concepts.md: recorded means "No matching subscriptions exist for this
\* event's subject": a lookup that finds nothing, though the table has a matching
\* row, at least found it in a cache.
EmptyMeansNone ==
    [][\A r \in Readers : at[r] = "read" /\ at'[r] = "idle" /\ Answer(r) = {} =>
          loaded \/ MatchingRows(subscriptions, wanted[r]) = {}]_vars

\* docs/api-reference.md: DELETE is to "Delete a subscriber and all its
\* subscriptions": a handler that has begun to delete ends with the subscriber gone.
DeletionCompletes ==
    [][\A h \in Handlers : step[h] = "remove" /\ step'[h] # "remove" =>
          \A s \in subscribers' : s.id # job[h].owner]_vars
=============================================================================
