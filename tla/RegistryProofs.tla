--------------------------- MODULE RegistryProofs ---------------------------
(***************************************************************************)
(* No order of loads, writes and Flushes leaves a stale cache behind, for  *)
(* any number of handlers and readers, any requests and any failures; and  *)
(* a registration that nobody disturbed has, at every point of its list,   *)
(* brought the rows of its subscriber so far (Progress), and gives no      *)
(* pattern a second subscription (Traced).                                 *)
(***************************************************************************)
EXTENDS Registry, NaturalsInduction, WellFoundedInduction, TLAPS

Functions ==
    /\ at \in [Readers -> {"idle", "check", "lock", "subscribers", "subscriptions", "read"}]
    /\ step \in [Handlers -> {"idle", "list", "sync", "unsubscribe", "remove", "flush"}]

\* What the loader has read so far is what the table holds, unless an edit or an
\* abandoned edit will still see to a Flush, which has to wait for the loader.
FetchIsFresh ==
    (\E r \in Readers : at[r] = "subscriptions") /\ Editing = {} /\ ~unflushed =>
        fetched = subscribers

FreshInv == Functions /\ LoaderHoldsLock /\ FetchIsFresh /\ CacheIsFresh

-----------------------------------------------------------------------------
\* Steps of the handlers other than Flush: what they write, they write as editors,
\* or they leave the tables alone.
Edit ==
    /\ UNCHANGED <<fields, writer, lookups>>
    /\ \/ \E h \in Handlers :
            /\ step[h] \in {"idle", "list", "sync", "unsubscribe", "remove"}
            /\ \E next \in {"list", "sync", "remove", "flush"} :
                  step' = [step EXCEPT ![h] = next]
            /\ unflushed' = unflushed
       \/ \E h \in Handlers :
            /\ step[h] = "idle"
            /\ step' = [step EXCEPT ![h] = "unsubscribe"]
            /\ UNCHANGED <<tables, unflushed>>
       \/ \E h \in Handlers :
            /\ step[h] \in {"list", "sync", "remove", "unsubscribe"}
            /\ step' = [step EXCEPT ![h] = "idle"]
            /\ unflushed' = (unflushed \/ step[h] # "unsubscribe")
            /\ UNCHANGED tables
       \/ UNCHANGED <<tables, step, unflushed>>

LEMMA RequestsEdit ==
  ASSUME NEW h \in Handlers, Request(h)
  PROVE  Edit
<1>1. CASE \E q \in Registrations : Register(h, q) \/ CreateSubscriber(h, q)
  BY <1>1 DEF Reconfigure, Register, CreateSubscriber, Upsert, Begin, Edit, fields, lookups, tables
<1>2. CASE \E id \in 1..lastId : Unregister(h, id)
  BY <1>2 DEF Unregister, Begin, Edit, fields, lookups, tables
<1>3. CASE \E id \in 1..lastId : DropSubscription(h, id)
  BY <1>3 DEF DeleteSubscription, DropSubscription, Begin, Edit, fields, lookups, tables
<1>4. CASE \E id \in 1..lastId : \E settings \in Settings : UpdateSubscriber(h, id, settings)
  BY <1>4 DEF Reconfigure, UpdateSubscriber, Begin, Edit, fields, lookups, tables
<1>5. CASE \E id \in 1..lastId : \E wish \in Wishes : AddSubscription(h, id, wish)
  BY <1>5 DEF AddSubscription, Begin, Edit, fields, lookups, tables
<1>6. QED  BY <1>1, <1>2, <1>3, <1>4, <1>5 DEF Request

LEMMA HandlersEdit ==
  ASSUME NEW h \in Handlers, Functions, Handler(h), ~Flush(h)
  PROVE  Edit
<1>1. CASE ListExisting(h)
  BY <1>1 DEF ListExisting, Goto, Edit, fields, lookups, tables
<1>2. CASE SyncOne(h)
  BY <1>2 DEF SyncOne, Goto, Edit, fields, lookups, tables
<1>3. CASE SyncFails(h)
  BY <1>3 DEF SyncFails, GiveUp, Edit, cacheVars, fields, lookups, tables
<1>4. CASE TrimOne(h)
  BY <1>4 DEF DeleteSubscription, TrimOne, Goto, Edit, fields, lookups, tables
<1>5. CASE SyncEnds(h)
  BY <1>5 DEF SyncEnds, Goto, Edit, fields, lookups, tables
<1>6. CASE DeleteSubscriptions(h)
  BY <1>6 DEF DeleteSubscriptionsForSubscriber, DeleteSubscriptions, Goto, Edit, fields, lookups, tables
<1>7. CASE DeleteSubscriber(h)
  BY <1>7 DEF DeleteSubscriptionsForSubscriber, DeleteSubscriber, Goto, Edit, fields, lookups, tables
<1>8. CASE DeleteFails(h)
  BY <1>8 DEF DeleteFails, GiveUp, Edit, cacheVars, fields, lookups, tables
<1>9. CASE StatementFails(h)
  BY <1>9 DEF StatementFails, GiveUp, Edit, Functions, cacheVars, fields, lookups, tables
<1>10. QED  BY <1>1, <1>2, <1>3, <1>4, <1>5, <1>6, <1>7, <1>8, <1>9 DEF Handler

LEMMA EditKeepsFresh ==
  ASSUME FreshInv, Edit
  PROVE  FreshInv'
<1> USE DEF Edit, FreshInv, Functions, fields, lookups, tables
<1>1. Functions'
  OBVIOUS
<1>2. LoaderHoldsLock'
  BY DEF LoaderHoldsLock
<1>3. Editing' = {} /\ ~unflushed' => Editing = {} /\ ~unflushed /\ UNCHANGED tables
  BY DEF Editing
<1>4. FetchIsFresh' /\ CacheIsFresh'
  BY <1>3 DEF FetchIsFresh, CacheIsFresh
<1>5. QED  BY <1>1, <1>2, <1>4

LEMMA FlushKeepsFresh ==
  ASSUME FreshInv, NEW h \in Handlers, Flush(h)
  PROVE  FreshInv'
<1> USE DEF Flush, FlushCache, Unlocked, FreshInv, Functions, lookups, tables
<1>1. Functions'
  OBVIOUS
<1>2. LoaderHoldsLock'
  BY DEF LoaderHoldsLock
<1>3. \A r \in Readers : at[r] # "subscriptions"
  BY CacheAssumption DEF LoaderHoldsLock
<1>4. FetchIsFresh' /\ CacheIsFresh'
  BY <1>3 DEF FetchIsFresh, CacheIsFresh
<1>5. QED  BY <1>1, <1>2, <1>4

LEMMA LookupKeepsFresh ==
  ASSUME FreshInv, NEW r \in Readers, Lookup(r)
  PROVE  FreshInv'
<1> USE DEF FreshInv, Functions, LoaderHoldsLock, tables, fields
<1>1. UNCHANGED <<tables, step, unflushed>> /\ Editing' = Editing /\ Functions'
  BY DEF Lookup, Reader, others, handlerVars, LookUp, Check, Lock, ListSubscribers, Store,
         LoadFails, Read, Editing
<1>2. LoaderHoldsLock'
  BY CacheAssumption DEF Lookup, Reader, LookUp, Check, Lock, ListSubscribers, Store,
         LoadFails, Read, Unlocked
<1>3. CASE ListSubscribers(r)
  BY <1>1, <1>2, <1>3 DEF ListSubscribers, FetchIsFresh, CacheIsFresh
<1>4. CASE Store(r)
  <2>1. \A x \in Readers : at'[x] # "subscriptions"
    BY <1>4 DEF Store
  <2>2. CacheIsFresh'
    BY <1>1, <1>4 DEF Store, FetchIsFresh, CacheIsFresh
  <2>3. QED  BY <1>1, <1>2, <2>1, <2>2 DEF FetchIsFresh
<1>5. CASE LoadFails(r)
  <2>1. \A x \in Readers : at'[x] # "subscriptions"
    BY <1>5 DEF LoadFails
  <2>2. QED  BY <1>1, <1>2, <1>5, <2>1 DEF LoadFails, FetchIsFresh, CacheIsFresh
<1>6. CASE Check(r) \/ Lock(r) \/ Read(r) \/ \E subject \in Subjects : LookUp(r, subject)
  <2>1. /\ UNCHANGED <<fields, fetched>>
        /\ \A x \in Readers : at'[x] = "subscriptions" => at[x] = "subscriptions"
    BY <1>6 DEF Check, Lock, Read, LookUp
  <2>2. QED  BY <1>1, <1>2, <2>1 DEF FetchIsFresh, CacheIsFresh
<1>7. QED  BY <1>3, <1>4, <1>5, <1>6 DEF Lookup, Reader

LEMMA AlwaysFresh == Spec => []FreshInv
<1>1. Init => FreshInv
  BY CacheAssumption DEF Init, CacheInit, FreshInv, Functions, LoaderHoldsLock, FetchIsFresh, CacheIsFresh
<1>2. FreshInv /\ [Next]_vars => FreshInv'
  <2> SUFFICES ASSUME FreshInv, [Next]_vars PROVE FreshInv'
    OBVIOUS
  <2>1. CASE \E h \in Handlers : Request(h)
    BY <2>1, RequestsEdit, EditKeepsFresh
  <2>2. CASE \E h \in Handlers : Handler(h)
    <3>1. PICK h \in Handlers : Handler(h)
      BY <2>2
    <3>2. CASE Flush(h)
      BY <3>2, FlushKeepsFresh
    <3>3. CASE ~Flush(h)
      BY <3>1, <3>3, HandlersEdit, EditKeepsFresh DEF FreshInv
    <3>4. QED  BY <3>2, <3>3
  <2>3. CASE \E r \in Readers : Lookup(r)
    BY <2>3, LookupKeepsFresh
  <2>4. CASE \E id \in 1..lastId : Attempt(id)
    <3>1. Edit
      BY <2>4 DEF Attempt, Edit, cacheVars, handlerVars
    <3>2. QED  BY <3>1, EditKeepsFresh
  <2>5. CASE UNCHANGED vars
    <3>1. Edit
      BY <2>5 DEF vars, Edit, cacheVars, others, handlerVars
    <3>2. QED  BY <3>1, EditKeepsFresh
  <2>6. QED  BY <2>1, <2>2, <2>3, <2>4, <2>5 DEF Next
<1>3. QED  BY <1>1, <1>2, PTL DEF Spec

\* Once every edit has come to its Flush, a loaded cache is what the tables hold.
THEOREM NothingStaysStale == Spec => []CacheIsFresh
<1>1. FreshInv => CacheIsFresh
  BY DEF FreshInv
<1>2. QED  BY <1>1, AlwaysFresh, PTL

\* The lock is held by the one reader that loads, and given back however that ends.
THEOREM LockIsGivenBack == Spec => []LoaderHoldsLock
<1>1. FreshInv => LoaderHoldsLock
  BY DEF FreshInv
<1>2. QED  BY <1>1, AlwaysFresh, PTL

-----------------------------------------------------------------------------
(* Type correctness: the rows and their keys, the handlers, the readers.   *)

TablesOK ==
    /\ subscribers \subseteq SubscriberRow /\ subscriptions \subseteq SubscriptionRow
    /\ lastId \in Nat
    /\ \A s, t \in subscribers : s.id = t.id \/ s.url = t.url => s = t
    /\ \A b, c \in subscriptions : b.id = c.id => b = c
    /\ \A b \in subscriptions : Registered(b.owner)
    /\ \A row \in subscribers \cup subscriptions : row.id <= lastId

HandlersOK ==
    /\ attempted \subseteq Nat
    /\ step \in [Handlers -> {"idle", "list", "sync", "unsubscribe", "remove", "flush"}]
    /\ job \in [Handlers -> Jobs]
    /\ requests \in 0..MaxRequests
    /\ unflushed \in BOOLEAN
    /\ alone \in [Handlers -> BOOLEAN]

ReadersOK ==
    /\ loaded \in BOOLEAN
    /\ cachedSubscribers \subseteq SubscriberRow
    /\ cachedSubscriptions \subseteq SubscriptionRow
    /\ writer \in Readers \cup {Nobody}
    /\ fetched \subseteq SubscriberRow
    /\ at \in [Readers -> {"idle", "check", "lock", "subscribers", "subscriptions", "read"}]
    /\ wanted \in [Readers -> Subjects]

LEMMA TypeParts == TypeOK <=> TablesOK /\ HandlersOK /\ ReadersOK
  BY DEF TypeOK, CacheTypeOK, TablesOK, HandlersOK, ReadersOK

LEMMA TypePartsNext == TypeOK' <=> (TablesOK /\ HandlersOK /\ ReadersOK)'
  BY DEF TypeOK, CacheTypeOK, TablesOK, HandlersOK, ReadersOK

\* The statements keep keys unique and references alive.
LEMMA UpsertKeepsTables ==
  ASSUME TablesOK, NEW q \in [url : Urls, settings : Settings, subs : Seq(Wishes)],
         NEW id, Upsert(q, id)
  PROVE  TablesOK' /\ id \in Nat
<1> USE DEF TablesOK, SubscriberRow, SubscriptionRow, Registered
<1>1. CASE \E s \in subscribers :
             /\ s.url = q.url /\ id = s.id
             /\ subscribers' = (subscribers \ {s}) \cup {[s EXCEPT !.settings = q.settings]}
             /\ UNCHANGED <<subscriptions, lastId>>
  <2>1. PICK s \in subscribers :
             /\ s.url = q.url /\ id = s.id
             /\ subscribers' = (subscribers \ {s}) \cup {[s EXCEPT !.settings = q.settings]}
             /\ UNCHANGED <<subscriptions, lastId>>
    BY <1>1
  <2> DEFINE n == [s EXCEPT !.settings = q.settings]
  <2>2. n \in SubscriberRow /\ n.id = s.id /\ n.url = s.url
    OBVIOUS
  <2>3. \A t \in subscribers' : t = n \/ (t \in subscribers /\ t # s)
    BY <2>1
  <2>4. \A b \in subscriptions : \E t \in subscribers' : t.id = b.owner
    BY <2>1, <2>2
  <2> HIDE DEF n
  <2>5. \A t, u \in subscribers' : t.id = u.id \/ t.url = u.url => t = u
    BY <2>2, <2>3
  <2>6. QED  BY <2>1, <2>2, <2>3, <2>4, <2>5
<1>2. CASE /\ \A s \in subscribers : s.url # q.url
           /\ id = lastId + 1 /\ lastId' = id
           /\ subscribers' = subscribers \cup {[id |-> id, url |-> q.url, settings |-> q.settings]}
           /\ UNCHANGED subscriptions
  <2> DEFINE n == [id |-> id, url |-> q.url, settings |-> q.settings]
  <2>1. n \in SubscriberRow /\ n.id = lastId + 1 /\ n.url = q.url
    BY <1>2
  <2>2. \A t \in subscribers' : t = n \/ t \in subscribers
    BY <1>2
  <2>3. subscribers \subseteq subscribers'
    BY <1>2
  <2> HIDE DEF n
  <2>4. \A t, u \in subscribers' : t.id = u.id \/ t.url = u.url => t = u
    BY <1>2, <2>1, <2>2
  <2>5. QED  BY <1>2, <2>1, <2>2, <2>3, <2>4
<1>3. QED  BY <1>1, <1>2 DEF Reconfigure, Upsert

LEMMA UpdateKeepsTables ==
  ASSUME TablesOK, NEW h, NEW b, NEW wish \in Wishes, UpdateOne(h, b, wish)
  PROVE  TablesOK'
<1> USE DEF TablesOK, SubscriberRow, SubscriptionRow, Registered, Wishes
<1>1. PICK row \in subscriptions :
          subscriptions' = (subscriptions \ {row}) \cup {[row EXCEPT !.terms = wish.terms]}
  BY DEF UpdateOne
<1> DEFINE n == [row EXCEPT !.terms = wish.terms]
<1>2. n \in SubscriptionRow /\ n.id = row.id /\ n.owner = row.owner
  OBVIOUS
<1>3. \A c \in subscriptions' : c = n \/ (c \in subscriptions /\ c # row)
  BY <1>1
<1> HIDE DEF n
<1>4. \A c, d \in subscriptions' : c.id = d.id => c = d
  BY <1>2, <1>3
<1>5. QED  BY <1>2, <1>3, <1>4 DEF UpdateOne

LEMMA CreateKeepsTables ==
  ASSUME TablesOK, NEW id, NEW wish \in Wishes, CreateOne(id, wish)
  PROVE  TablesOK'
<1> USE DEF TablesOK, SubscriberRow, SubscriptionRow, Registered, Wishes
<1> DEFINE n == [id |-> lastId', owner |-> id, pattern |-> wish.pattern, terms |-> wish.terms]
<1>1. n \in SubscriptionRow /\ n.id = lastId + 1 /\ n.owner = id
  BY DEF CreateOne
<1>2. \A c \in subscriptions' : c = n \/ c \in subscriptions
  BY DEF CreateOne
<1> HIDE DEF n
<1>3. \A c, d \in subscriptions' : c.id = d.id => c = d
  BY <1>1, <1>2
<1>4. QED  BY <1>1, <1>2, <1>3 DEF CreateOne

\* Rows are deleted, and subscribers only with all their subscriptions.
LEMMA DeleteKeepsTables ==
  ASSUME TablesOK, subscribers' \subseteq subscribers, subscriptions' \subseteq subscriptions,
         \A s \in subscribers \ subscribers' : \A b \in subscriptions' : b.owner # s.id,
         UNCHANGED lastId
  PROVE  TablesOK'
  BY DEF TablesOK, Registered

LEMMA SettingsKeepTables ==
  ASSUME TablesOK, NEW s \in subscribers, NEW settings \in Settings,
         subscribers' = (subscribers \ {s}) \cup {[s EXCEPT !.settings = settings]},
         UNCHANGED <<subscriptions, lastId>>
  PROVE  TablesOK'
<1> USE DEF TablesOK, SubscriberRow, SubscriptionRow, Registered
<1> DEFINE n == [s EXCEPT !.settings = settings]
<1>1. n \in SubscriberRow /\ n.id = s.id /\ n.url = s.url
  OBVIOUS
<1>2. \A t \in subscribers' : t = n \/ (t \in subscribers /\ t # s)
  OBVIOUS
<1>3. \A b \in subscriptions : \E t \in subscribers' : t.id = b.owner
  BY <1>1
<1> HIDE DEF n
<1>4. \A t, u \in subscribers' : t.id = u.id \/ t.url = u.url => t = u
  BY <1>1, <1>2
<1>5. QED  BY <1>1, <1>2, <1>3, <1>4

-----------------------------------------------------------------------------
LEMMA NoJobIsJob == NoJob \in Jobs
  BY DEF NoJob, Jobs

LEMMA BeginKeepsHandlers ==
  ASSUME HandlersOK, NEW h \in Handlers, NEW j \in Jobs,
         NEW next \in {"list", "unsubscribe", "flush"}, Begin(h, next, j)
  PROVE  HandlersOK'
  BY RegistryAssumption DEF HandlersOK, Begin

LEMMA GotoKeepsHandlers ==
  ASSUME HandlersOK, NEW h \in Handlers, NEW next \in {"sync", "remove", "flush"},
         Goto(h, next), job' \in [Handlers -> Jobs]
  PROVE  HandlersOK'
  BY DEF HandlersOK, Goto

LEMMA GiveUpKeepsTypes ==
  ASSUME TypeOK, NEW h \in Handlers, GiveUp(h)
  PROVE  TypeOK'
<1>1. TablesOK'
  BY TypeParts DEF GiveUp, cacheVars, tables, TablesOK, Registered
<1>2. HandlersOK'
  BY TypeParts, NoJobIsJob DEF GiveUp, HandlersOK
<1>3. ReadersOK'
  BY TypeParts DEF GiveUp, cacheVars, fields, lookups, ReadersOK
<1>4. QED  BY <1>1, <1>2, <1>3, TypePartsNext

LEMMA BeginKeepsReaders ==
  ASSUME ReadersOK, UNCHANGED <<fields, writer, lookups>>
  PROVE  ReadersOK'
  BY DEF ReadersOK, fields, lookups

LEMMA RequestKeepsTypes ==
  ASSUME TypeOK, NEW h \in Handlers, Request(h)
  PROVE  TypeOK'
<1> USE TypeParts, NoJobIsJob
<1>1. CASE \E q \in Registrations : Register(h, q) \/ CreateSubscriber(h, q)
  <2>1. PICK q \in Registrations, id \in 1..lastId + 1 :
            /\ Upsert(q, id)
            /\ \/ Begin(h, "list", [NoJob EXCEPT !.owner = id, !.subs = q.subs])
               \/ Begin(h, "flush", NoJob)
    BY <1>1 DEF Register, CreateSubscriber
  <2>2. TablesOK' /\ id \in Nat
    BY <2>1, RegistryAssumption, UpsertKeepsTables
  <2>3. q.subs \in Seq(Wishes)
    BY RegistryAssumption
  <2>4. [NoJob EXCEPT !.owner = id, !.subs = q.subs] \in Jobs
    BY <2>2, <2>3 DEF NoJob, Jobs
  <2>5. HandlersOK'
    BY <2>1, <2>4, BeginKeepsHandlers
  <2>6. ReadersOK'
    BY <2>1, BeginKeepsReaders DEF Begin
  <2>7. QED  BY <2>2, <2>5, <2>6, TypePartsNext
<1>2. CASE \E id \in 1..lastId : Unregister(h, id)
  <2>1. PICK id \in 1..lastId : Unregister(h, id)
    BY <1>2
  <2>2. [NoJob EXCEPT !.owner = id] \in Jobs
    <3>1. id \in Nat
      BY DEF TablesOK
    <3>2. QED  BY <3>1, NoJobIsJob DEF Jobs
  <2>3. HandlersOK'
    BY <2>1, <2>2, BeginKeepsHandlers DEF Unregister
  <2>4. TablesOK' /\ ReadersOK'
    BY <2>1, BeginKeepsReaders DEF Unregister, Begin, tables, TablesOK, Registered
  <2>5. QED  BY <2>3, <2>4, TypePartsNext
<1>3. CASE \E id \in 1..lastId : DropSubscription(h, id)
  <2>1. TablesOK'
    BY <1>3, DeleteKeepsTables DEF DeleteSubscription, DropSubscription
  <2>2. HandlersOK' /\ ReadersOK'
    BY <1>3, BeginKeepsHandlers, BeginKeepsReaders DEF DeleteSubscription, DropSubscription, Begin
  <2>3. QED  BY <2>1, <2>2, TypePartsNext
<1>4. CASE \E id \in 1..lastId : \E settings \in Settings : UpdateSubscriber(h, id, settings)
  <2>1. TablesOK'
    BY <1>4, SettingsKeepTables DEF Reconfigure, UpdateSubscriber
  <2>2. HandlersOK' /\ ReadersOK'
    BY <1>4, BeginKeepsHandlers, BeginKeepsReaders DEF Reconfigure, UpdateSubscriber, Begin
  <2>3. QED  BY <2>1, <2>2, TypePartsNext
<1>5. CASE \E id \in 1..lastId : \E wish \in Wishes : AddSubscription(h, id, wish)
  <2>1. TablesOK'
    BY <1>5, CreateKeepsTables DEF AddSubscription
  <2>2. HandlersOK' /\ ReadersOK'
    BY <1>5, BeginKeepsHandlers, BeginKeepsReaders DEF AddSubscription, Begin
  <2>3. QED  BY <2>1, <2>2, TypePartsNext
<1>6. QED  BY <1>1, <1>2, <1>3, <1>4, <1>5 DEF Request

LEMMA SyncKeepsTypes ==
  ASSUME TypeOK, NEW h \in Handlers, SyncOne(h)
  PROVE  TypeOK'
<1> USE TypeParts
<1>1. job[h] \in Jobs /\ job[h].subs \in Seq(Wishes) /\ job[h].done \in Nat
  BY DEF HandlersOK, Jobs
<1>2. PICK wish : /\ wish = job[h].subs[job[h].done + 1]
                  /\ \/ \E b \in Existing(h, wish.pattern) : UpdateOne(h, b, wish)
                     \/ CreateOne(job[h].owner, wish)
  BY DEF SyncOne
<1>3. wish \in Wishes
  BY <1>1, <1>2 DEF SyncOne
<1>4. TablesOK'
  BY <1>2, <1>3, UpdateKeepsTables, CreateKeepsTables
<1>5. job' \in [Handlers -> Jobs]
  <2>1. [job[h] EXCEPT !.done = @ + 1] \in Jobs
    BY <1>1 DEF Jobs
  <2>2. job' = [job EXCEPT ![h] = [job[h] EXCEPT !.done = @ + 1]]
    BY DEF SyncOne
  <2>3. QED  BY <2>1, <2>2 DEF HandlersOK
<1>6. HandlersOK' /\ ReadersOK'
  BY <1>5, GotoKeepsHandlers, BeginKeepsReaders DEF SyncOne, Goto
<1>7. QED  BY <1>4, <1>6, TypePartsNext

LEMMA HandlerKeepsTypes ==
  ASSUME TypeOK, NEW h \in Handlers, Handler(h)
  PROVE  TypeOK'
<1> USE TypeParts
<1>0. job[h] \in Jobs
  BY DEF HandlersOK
<1>1. CASE ListExisting(h)
  <2> DEFINE rows == Owned(job[h].owner)
  <2>1. rows \subseteq SubscriptionRow /\ Obsolete(rows, job[h].subs) \subseteq SubscriptionRow
    BY DEF TablesOK, Owned, Obsolete
  <2>2. job' \in [Handlers -> Jobs]
    BY <1>0, <1>1, <2>1 DEF ListExisting, HandlersOK, Jobs
  <2>3. HandlersOK' /\ ReadersOK'
    BY <1>1, <2>2, GotoKeepsHandlers, BeginKeepsReaders DEF ListExisting, Goto
  <2>4. TablesOK'
    BY <1>1 DEF ListExisting, tables, TablesOK, Registered
  <2>5. QED  BY <2>3, <2>4, TypePartsNext
<1>2. CASE TrimOne(h)
  <2>1. job' \in [Handlers -> Jobs]
    <3>1. PICK b : job' = [job EXCEPT ![h] = [job[h] EXCEPT !.stale = @ \ {b}]]
      BY <1>2 DEF DeleteSubscription, TrimOne
    <3>2. [job[h] EXCEPT !.stale = @ \ {b}] \in Jobs
      BY <1>0 DEF Jobs
    <3>3. QED  BY <3>1, <3>2 DEF HandlersOK
  <2>2. TablesOK'
    BY <1>2, DeleteKeepsTables DEF DeleteSubscription, TrimOne
  <2>3. HandlersOK' /\ ReadersOK'
    BY <1>2, <2>1, GotoKeepsHandlers, BeginKeepsReaders DEF DeleteSubscription, TrimOne, Goto
  <2>4. QED  BY <2>2, <2>3, TypePartsNext
<1>3. CASE SyncEnds(h)
  <2>1. HandlersOK' /\ ReadersOK'
    BY <1>3, GotoKeepsHandlers, BeginKeepsReaders DEF SyncEnds, Goto, HandlersOK
  <2>2. TablesOK'
    BY <1>3 DEF SyncEnds, tables, TablesOK, Registered
  <2>3. QED  BY <2>1, <2>2, TypePartsNext
<1>4. CASE DeleteSubscriptions(h)
  <2>1. TablesOK'
    BY <1>4, DeleteKeepsTables DEF DeleteSubscriptionsForSubscriber, DeleteSubscriptions
  <2>2. HandlersOK' /\ ReadersOK'
    BY <1>4, GotoKeepsHandlers, BeginKeepsReaders DEF DeleteSubscriptionsForSubscriber, DeleteSubscriptions, Goto, HandlersOK
  <2>3. QED  BY <2>1, <2>2, TypePartsNext
<1>5. CASE DeleteSubscriber(h)
  <2>1. TablesOK'
    BY <1>5, DeleteKeepsTables DEF DeleteSubscriptionsForSubscriber, DeleteSubscriber, Owned, TablesOK, SubscriptionRow
  <2>2. HandlersOK' /\ ReadersOK'
    BY <1>5, GotoKeepsHandlers, BeginKeepsReaders DEF DeleteSubscriptionsForSubscriber, DeleteSubscriber, Goto, HandlersOK
  <2>3. QED  BY <2>1, <2>2, TypePartsNext
<1>6. CASE SyncFails(h) \/ DeleteFails(h) \/ StatementFails(h)
  BY <1>6, GiveUpKeepsTypes DEF SyncFails, DeleteFails, StatementFails
<1>7. CASE Flush(h)
  <2>1. TablesOK'
    BY <1>7 DEF Flush, tables, TablesOK, Registered
  <2>2. HandlersOK'
    BY <1>7, NoJobIsJob DEF Flush, HandlersOK
  <2>3. ReadersOK'
    BY <1>7 DEF Flush, FlushCache, lookups, ReadersOK
  <2>4. QED  BY <2>1, <2>2, <2>3, TypePartsNext
<1>8. QED  BY <1>1, <1>2, <1>3, <1>4, <1>5, <1>6, <1>7, SyncKeepsTypes DEF Handler

LEMMA LookupKeepsTypes ==
  ASSUME TypeOK, NEW r \in Readers, Lookup(r)
  PROVE  TypeOK'
<1> USE TypeParts
<1>1. TablesOK' /\ HandlersOK'
  BY DEF Lookup, Reader, others, handlerVars, tables, LookUp, Check, Lock, ListSubscribers,
         Store, LoadFails, Read, TablesOK, Registered, HandlersOK
<1>2. ReadersOK'
  BY DEF Lookup, Reader, fields, tables, LookUp, Check, Lock, ListSubscribers, Store,
         LoadFails, Read, ReadersOK, TablesOK
<1>3. QED  BY <1>1, <1>2, TypePartsNext

\* Every variable keeps its type, keys stay unique and no subscription loses its
\* subscriber.
THEOREM TypesHold == Spec => []TypeOK
<1>1. Init => TypeOK
  <2> SUFFICES ASSUME Init PROVE TypeOK
    OBVIOUS
  <2>1. TablesOK
    BY RegistryAssumption DEF Init, TablesOK, Registered
  <2>2. HandlersOK
    <3>1. job \in [Handlers -> Jobs]
      BY NoJobIsJob DEF Init
    <3>2. 0 \in 0..MaxRequests
      BY RegistryAssumption
    <3>3. QED  BY <3>1, <3>2 DEF Init, HandlersOK
  <2>3. ReadersOK
    BY DEF Init, CacheInit, ReadersOK
  <2>4. QED  BY <2>1, <2>2, <2>3, TypeParts
<1>2. TypeOK /\ [Next]_vars => TypeOK'
  <2> SUFFICES ASSUME TypeOK, [Next]_vars PROVE TypeOK'
    OBVIOUS
  <2>1. CASE \E id \in 1..lastId : Attempt(id)
    <3>1. TablesOK' /\ ReadersOK'
      BY <2>1, TypeParts DEF Attempt, cacheVars, tables, fields, lookups, TablesOK, Registered,
         ReadersOK
    <3>2. HandlersOK'
      BY <2>1, TypeParts DEF Attempt, handlerVars, HandlersOK, TablesOK
    <3>3. QED  BY <3>1, <3>2, TypePartsNext
  <2>2. CASE UNCHANGED vars
    BY <2>2 DEF vars, cacheVars, tables, fields, lookups, others, handlerVars, TypeOK,
       CacheTypeOK, Registered
  <2>3. QED  BY <2>1, <2>2, RequestKeepsTypes, HandlerKeepsTypes, LookupKeepsTypes DEF Next
<1>3. QED  BY <1>1, <1>2, PTL DEF Spec

-----------------------------------------------------------------------------
(* A registration that meets no other request.                             *)

\* While a request has been the only one, no other handler is in the middle of anything.
Quiet == \A h \in Handlers : alone[h] => \A g \in Handlers \ {h} : step[g] = "idle"

\* Only a registration wishes for subscriptions, and it begins with the first of them.
Errands ==
    \A h \in Handlers : /\ step[h] \in {"unsubscribe", "remove"} => job[h].subs = <<>>
                        /\ step[h] = "list" => job[h].done = 0

\* i names a pattern for the last time among the first n wishes.
LastOf(subs, i, n) == \A k \in 1..n : subs[k].pattern = subs[i].pattern => k <= i

Named(subs, p) == \E i \in DOMAIN subs : subs[i].pattern = p

\* How far the registration of handler h has brought the rows of its subscriber.
Progress(h) ==
    LET id == job[h].owner
        subs == job[h].subs
    IN  /\ job[h].done \in 0..Len(subs)
        /\ job[h].stale \subseteq subscriptions
        /\ \A b \in job[h].stale : ~Named(subs, b.pattern)
        /\ \A b \in Owned(id) : b \in job[h].stale \/ Named(subs, b.pattern)
        /\ \A b \in job[h].old : Named(subs, b.pattern) =>
              \E row \in Owned(id) : row.id = b.id /\ row.pattern = b.pattern
        /\ \A i \in 1..job[h].done : LastOf(subs, i, job[h].done) =>
              \E row \in Owned(id) : row.pattern = subs[i].pattern /\ row.terms = subs[i].terms

\* What Synced asks of a registration at its end.
Fulfilled(h) ==
    LET id == job[h].owner
        subs == job[h].subs
    IN  /\ \A b \in Owned(id) : Named(subs, b.pattern)
        /\ \A i \in DOMAIN subs :
              (\A j \in DOMAIN subs : subs[j].pattern = subs[i].pattern => j <= i) =>
                  \E b \in Owned(id) : b.pattern = subs[i].pattern /\ b.terms = subs[i].terms

Progressing == \A h \in Handlers : alone[h] /\ step[h] = "sync" => Progress(h)

\* A request that is alone has found no other and meets no other (Quiet); what it has
\* in hand comes from its body (Errands).
SyncInv == Quiet /\ Errands /\ Progressing /\ Synced

\* What a request begins with.
LEMMA RequestIs ==
  ASSUME TypeOK, NEW h \in Handlers, Request(h)
  PROVE  /\ \A g \in Handlers : alone'[g] => g = h /\ \A x \in Handlers : step[x] = "idle"
         /\ \A g \in Handlers \ {h} : step'[g] = step[g] /\ job'[g] = job[g]
         /\ \/ step'[h] = "list" /\ job'[h].done = 0
            \/ step'[h] \in {"unsubscribe", "flush"} /\ job'[h].subs = <<>>
<1>1. PICK next \in {"list", "unsubscribe", "flush"}, j \in Jobs :
         /\ Begin(h, next, j)
         /\ \/ next = "list" /\ j.done = 0
            \/ next \in {"unsubscribe", "flush"} /\ j.subs = <<>>
  <2>1. NoJob \in Jobs /\ NoJob.subs = <<>> /\ NoJob.done = 0
    BY NoJobIsJob DEF NoJob
  <2>2. ASSUME NEW q \in Registrations, Register(h, q) \/ CreateSubscriber(h, q)
        PROVE  \/ Begin(h, "flush", NoJob)
               \/ \E j \in Jobs : Begin(h, "list", j) /\ j.done = 0
    <3>1. PICK id \in 1..lastId + 1 :
              Begin(h, "list", [NoJob EXCEPT !.owner = id, !.subs = q.subs]) \/ Begin(h, "flush", NoJob)
      BY <2>2 DEF Register, CreateSubscriber
    <3>2. id \in Nat /\ q.subs \in Seq(Wishes)
      BY RegistryAssumption DEF TypeOK
    <3>3. /\ [NoJob EXCEPT !.owner = id, !.subs = q.subs] \in Jobs
          /\ [NoJob EXCEPT !.owner = id, !.subs = q.subs].done = 0
      BY <3>2 DEF NoJob, Jobs
    <3>4. QED  BY <3>1, <3>3
  <2>3. ASSUME NEW id \in 1..lastId, Unregister(h, id)
        PROVE  \E j \in Jobs : Begin(h, "unsubscribe", j) /\ j.subs = <<>>
    <3>1. id \in Nat
      BY DEF TypeOK
    <3>2. [NoJob EXCEPT !.owner = id] \in Jobs /\ [NoJob EXCEPT !.owner = id].subs = <<>>
      BY <3>1, NoJobIsJob DEF NoJob, Jobs
    <3>3. QED  BY <2>3, <3>2 DEF Unregister
  <2>4. QED
    BY <2>1, <2>2, <2>3 DEF Request, DropSubscription, UpdateSubscriber, AddSubscription
<1>2. step \in [Handlers -> {"idle", "list", "sync", "unsubscribe", "remove", "flush"}]
      /\ job \in [Handlers -> Jobs]
  BY DEF TypeOK
<1>3. alone' = [g \in Handlers |-> g = h /\ \A x \in Handlers : step[x] = "idle"]
  BY <1>1 DEF Begin
<1>4. \A g \in Handlers : alone'[g] => g = h /\ \A x \in Handlers : step[x] = "idle"
  BY <1>3
<1>5. QED  BY <1>1, <1>2, <1>4 DEF Begin

\* A handler goes on only if it has begun, and touches nothing of the others.
LEMMA HandlerIs ==
  ASSUME TypeOK, NEW h \in Handlers, Handler(h)
  PROVE  /\ step[h] # "idle" /\ (alone'[h] => alone[h])
         /\ \A g \in Handlers \ {h} : step'[g] = step[g] /\ job'[g] = job[g] /\ alone'[g] = alone[g]
<1>1. /\ step \in [Handlers -> {"idle", "list", "sync", "unsubscribe", "remove", "flush"}]
      /\ job \in [Handlers -> Jobs] /\ alone \in [Handlers -> BOOLEAN]
  BY DEF TypeOK
<1>2. /\ step[h] # "idle"
      /\ \E next : step' = [step EXCEPT ![h] = next]
      /\ UNCHANGED job \/ \E j : job' = [job EXCEPT ![h] = j]
      /\ UNCHANGED alone \/ alone' = [alone EXCEPT ![h] = FALSE]
  <2>1. CASE ListExisting(h) \/ SyncOne(h) \/ TrimOne(h) \/ SyncEnds(h)
             \/ DeleteSubscriptions(h) \/ DeleteSubscriber(h)
    BY <2>1 DEF ListExisting, SyncOne, TrimOne, SyncEnds, DeleteSubscriptions, DeleteSubscriber, Goto
  <2>2. CASE SyncFails(h) \/ DeleteFails(h) \/ StatementFails(h)
    BY <2>2 DEF SyncFails, DeleteFails, StatementFails, GiveUp
  <2>3. CASE Flush(h)
    BY <2>3 DEF Flush
  <2>4. QED  BY <2>1, <2>2, <2>3 DEF Handler
<1>3. \A g \in Handlers \ {h} : step'[g] = step[g] /\ job'[g] = job[g]
  BY <1>1, <1>2
<1>4. (alone'[h] => alone[h]) /\ \A g \in Handlers \ {h} : alone'[g] = alone[g]
  BY <1>1, <1>2
<1>5. QED  BY <1>2, <1>3, <1>4

\* The rows are read: those of patterns that are not named are to go.
LEMMA ListProgress ==
  ASSUME TypeOK, NEW h \in Handlers, ListExisting(h), job[h].done = 0
  PROVE  Progress(h)'
<1> DEFINE rows == Owned(job[h].owner)
           n == [job[h] EXCEPT !.old = rows, !.stale = Obsolete(rows, job[h].subs)]
<1>1. job \in [Handlers -> Jobs] /\ job[h] \in Jobs /\ job' = [job EXCEPT ![h] = n]
      /\ UNCHANGED subscriptions
  BY DEF TypeOK, ListExisting, tables
<1>2. /\ job'[h].owner = job[h].owner /\ job'[h].subs = job[h].subs /\ job'[h].done = 0
      /\ job'[h].old = rows /\ job'[h].stale = Obsolete(rows, job[h].subs)
      /\ job[h].subs \in Seq(Wishes)
  BY <1>1 DEF Jobs
<1>3. rows' = rows /\ rows \subseteq subscriptions
  BY <1>1, <1>2 DEF Owned
<1> HIDE DEF rows
<1>4. QED  BY <1>1, <1>2, <1>3 DEF Progress, Obsolete, Named, rows

\* A wish is seen to: its row is the last of its pattern, or a new one.
LEMMA SyncProgress ==
  ASSUME TypeOK, NEW h \in Handlers, SyncOne(h), Progress(h)
  PROVE  Progress(h)'
<1> DEFINE id == job[h].owner
           subs == job[h].subs
           done == job[h].done
           wish == subs[done + 1]
<1>1. /\ job \in [Handlers -> Jobs] /\ job[h] \in Jobs
      /\ job' = [job EXCEPT ![h] = [job[h] EXCEPT !.done = done + 1]]
  BY DEF TypeOK, SyncOne
<1>2. /\ job'[h].owner = id /\ job'[h].subs = subs /\ job'[h].done = done + 1
      /\ job'[h].old = job[h].old /\ job'[h].stale = job[h].stale
      /\ subs \in Seq(Wishes) /\ done \in Nat /\ Len(subs) \in Nat /\ DOMAIN subs = 1..Len(subs)
      /\ done + 1 \in DOMAIN subs /\ id \in Nat
  BY <1>1 DEF Jobs, SyncOne
<1>3. /\ \A b, c \in subscriptions : b.id = c.id => b = c
      /\ subscriptions \subseteq SubscriptionRow /\ lastId \in Nat
      /\ \A b \in subscriptions : b.id <= lastId
  BY DEF TypeOK, CacheTypeOK
<1>4. /\ done \in 0..Len(subs) /\ job[h].stale \subseteq subscriptions
      /\ \A b \in job[h].stale : ~Named(subs, b.pattern)
      /\ \A b \in Owned(id) : b \in job[h].stale \/ Named(subs, b.pattern)
      /\ \A b \in job[h].old : Named(subs, b.pattern) =>
            \E row \in Owned(id) : row.id = b.id /\ row.pattern = b.pattern
      /\ \A i \in 1..done : LastOf(subs, i, done) =>
            \E row \in Owned(id) : row.pattern = subs[i].pattern /\ row.terms = subs[i].terms
  BY DEF Progress
<1>5. Named(subs, wish.pattern) /\ wish \in Wishes
  BY <1>2 DEF Named
<1>6. \E n : /\ n.owner = id /\ n.pattern = wish.pattern /\ n.terms = wish.terms
             /\ n \in subscriptions'
             /\ \/ \E row \in subscriptions :
                      /\ row.owner = id /\ row.pattern = wish.pattern /\ n.id = row.id
                      /\ subscriptions' = (subscriptions \ {row}) \cup {n}
                \/ subscriptions' = subscriptions \cup {n}
  <2>1. CASE \E b \in Existing(h, wish.pattern) : UpdateOne(h, b, wish)
    <3>1. PICK b \in Existing(h, wish.pattern) : UpdateOne(h, b, wish)
      BY <2>1
    <3>2. b \in job[h].old /\ b.pattern = wish.pattern
      BY DEF Existing
    <3>3. PICK row \in subscriptions :
             /\ row.id = b.id
             /\ subscriptions' = (subscriptions \ {row}) \cup {[row EXCEPT !.terms = wish.terms]}
      BY <3>1 DEF UpdateOne
    <3>4. row.owner = id /\ row.pattern = wish.pattern
      BY <1>3, <1>4, <1>5, <3>2, <3>3 DEF Owned
    <3> DEFINE n == [row EXCEPT !.terms = wish.terms]
    <3>5. n.owner = id /\ n.pattern = wish.pattern /\ n.terms = wish.terms /\ n.id = row.id
      BY <1>3, <3>4 DEF SubscriptionRow
    <3>6. n \in subscriptions' /\ subscriptions' = (subscriptions \ {row}) \cup {n}
      BY <3>3
    <3> HIDE DEF n
    <3>7. QED  BY <3>4, <3>5, <3>6
  <2>2. CASE CreateOne(id, wish)
    <3> DEFINE n == [id |-> lastId', owner |-> id, pattern |-> wish.pattern, terms |-> wish.terms]
    <3>1. n.owner = id /\ n.pattern = wish.pattern /\ n.terms = wish.terms
      OBVIOUS
    <3>2. subscriptions' = subscriptions \cup {n}
      BY <2>2 DEF CreateOne
    <3> HIDE DEF n
    <3>3. QED  BY <3>1, <3>2
  <2>3. QED  BY <2>1, <2>2 DEF SyncOne
<1> HIDE DEF wish, subs, done, id
<1>7. PICK n : /\ n.owner = id /\ n.pattern = wish.pattern /\ n.terms = wish.terms
             /\ n \in subscriptions'
             /\ \/ \E row \in subscriptions :
                      /\ row.owner = id /\ row.pattern = wish.pattern /\ n.id = row.id
                      /\ subscriptions' = (subscriptions \ {row}) \cup {n}
                \/ subscriptions' = subscriptions \cup {n}
  BY <1>6
<1> DEFINE mine == {b \in subscriptions' : b.owner = id}
<1>8. /\ n \in mine
      /\ \A b \in Owned(id) : b \in mine \/ (b.pattern = wish.pattern /\ b.id = n.id)
      /\ \A b \in mine : b = n \/ b \in Owned(id)
  BY <1>7 DEF Owned
<1>9. job[h].stale \subseteq subscriptions'
  BY <1>4, <1>5, <1>7
<1>10. \A b \in mine : b \in job[h].stale \/ Named(subs, b.pattern)
  BY <1>4, <1>5, <1>7, <1>8
<1>11. \A b \in job[h].old : Named(subs, b.pattern) =>
            \E row \in mine : row.id = b.id /\ row.pattern = b.pattern
  BY <1>4, <1>7, <1>8
<1>12. ASSUME NEW i \in 1..done + 1, LastOf(subs, i, done + 1)
       PROVE  \E row \in mine : row.pattern = subs[i].pattern /\ row.terms = subs[i].terms
  <2>1. CASE i = done + 1
    BY <1>7, <1>8, <2>1 DEF wish
  <2>2. CASE i # done + 1
    <3>1. i \in 1..done /\ LastOf(subs, i, done) /\ subs[i].pattern # wish.pattern
      BY <1>2, <1>12, <2>2 DEF LastOf, wish
    <3>2. PICK row \in Owned(id) : row.pattern = subs[i].pattern /\ row.terms = subs[i].terms
      BY <1>4, <3>1
    <3>3. QED  BY <1>8, <3>1, <3>2
  <2>3. QED  BY <2>1, <2>2
<1>13. Owned(job[h].owner)' = mine
  BY <1>2 DEF Owned
<1> HIDE DEF mine
<1>14. QED
  BY <1>2, <1>4, <1>9, <1>10, <1>11, <1>12, <1>13 DEF Progress, Named, LastOf

\* A row that nobody wished for goes; the rows of the wishes stay.
LEMMA TrimProgress ==
  ASSUME TypeOK, NEW h \in Handlers, TrimOne(h), Progress(h)
  PROVE  Progress(h)'
<1> DEFINE id == job[h].owner
           subs == job[h].subs
<1>1. PICK b \in job[h].stale : /\ subscriptions' = {c \in subscriptions : c.id # b.id}
                                /\ job' = [job EXCEPT ![h] = [job[h] EXCEPT !.stale = job[h].stale \ {b}]]
  BY DEF TrimOne, DeleteSubscription
<1>2. job \in [Handlers -> Jobs] /\ job[h] \in Jobs
      /\ \A c, d \in subscriptions : c.id = d.id => c = d
  BY DEF TypeOK
<1>3. /\ job'[h].owner = id /\ job'[h].subs = subs /\ job'[h].done = job[h].done
      /\ job'[h].old = job[h].old /\ job'[h].stale = job[h].stale \ {b}
  BY <1>1, <1>2 DEF Jobs
<1>4. /\ job[h].done \in 0..Len(subs) /\ job[h].stale \subseteq subscriptions
      /\ \A c \in job[h].stale : ~Named(subs, c.pattern)
      /\ \A c \in Owned(id) : c \in job[h].stale \/ Named(subs, c.pattern)
      /\ \A c \in job[h].old : Named(subs, c.pattern) =>
            \E row \in Owned(id) : row.id = c.id /\ row.pattern = c.pattern
      /\ \A i \in 1..job[h].done : LastOf(subs, i, job[h].done) =>
            \E row \in Owned(id) : row.pattern = subs[i].pattern /\ row.terms = subs[i].terms
  BY DEF Progress
<1>5. subscriptions' = subscriptions \ {b}
  BY <1>1, <1>2, <1>4
<1>6. Owned(job[h].owner)' = Owned(id) \ {b}
  BY <1>3, <1>5 DEF Owned
<1>7. \A c \in Owned(id) : Named(subs, c.pattern) => c \in Owned(id) \ {b}
  BY <1>1, <1>4
<1>8. \A i \in 1..job[h].done : Named(subs, subs[i].pattern)
  <2>1. subs \in Seq(Wishes)
    BY <1>2 DEF Jobs
  <2>2. QED  BY <1>4, <2>1 DEF Named
<1> HIDE DEF id, subs
<1>9. /\ job[h].stale \ {b} \subseteq subscriptions'
      /\ \A c \in Owned(id) \ {b} : c \in job[h].stale \ {b} \/ Named(subs, c.pattern)
      /\ \A c \in job[h].old : Named(subs, c.pattern) =>
            \E row \in Owned(id) \ {b} : row.id = c.id /\ row.pattern = c.pattern
      /\ \A i \in 1..job[h].done : LastOf(subs, i, job[h].done) =>
            \E row \in Owned(id) \ {b} : row.pattern = subs[i].pattern /\ row.terms = subs[i].terms
  BY <1>4, <1>5, <1>7, <1>8
<1>10. QED
  BY <1>3, <1>4, <1>6, <1>9 DEF Progress, Named, LastOf

\* When nothing is left to do, the rows are those of the wishes.
LEMMA SyncDone ==
  ASSUME TypeOK, NEW h \in Handlers, SyncEnds(h), Progress(h)
  PROVE  Fulfilled(h)'
<1>1. /\ job' = job /\ UNCHANGED subscriptions /\ job[h].stale = {} /\ job[h] \in Jobs
      /\ job[h].done = Len(job[h].subs)
  BY DEF SyncEnds, tables, TypeOK
<1>2. DOMAIN job[h].subs = 1..job[h].done
  BY <1>1 DEF Jobs
<1>3. Fulfilled(h)
  BY <1>1, <1>2 DEF Progress, LastOf, Named, Fulfilled
<1>4. QED  BY <1>1, <1>3 DEF Fulfilled, Owned

LEMMA RestKeepsSync ==
  ASSUME SyncInv, UNCHANGED <<subscriptions, step, job, alone>>
  PROVE  SyncInv'
  BY DEF SyncInv, Quiet, Errands, Progressing, Progress, Synced, Owned, Named, LastOf

LEMMA RequestKeepsSync ==
  ASSUME TypeOK, SyncInv, NEW h \in Handlers, Request(h)
  PROVE  SyncInv'
<1>1. /\ \A g \in Handlers : alone'[g] => g = h /\ \A x \in Handlers : step[x] = "idle"
      /\ \A g \in Handlers \ {h} : step'[g] = step[g] /\ job'[g] = job[g]
      /\ \/ step'[h] = "list" /\ job'[h].done = 0
         \/ step'[h] \in {"unsubscribe", "flush"} /\ job'[h].subs = <<>>
  BY RequestIs
<1>2. Quiet'
  BY <1>1 DEF Quiet
<1>3. Errands'
  BY <1>1 DEF Errands, SyncInv
<1>4. Progressing'
  BY <1>1 DEF Progressing
<1>5. Synced'
  <2>1. \A g \in Handlers : ~(step'[g] = "flush" /\ alone'[g] /\ job'[g].subs # <<>>)
    BY <1>1
  <2>2. QED  BY <2>1 DEF Synced
<1>6. QED  BY <1>2, <1>3, <1>4, <1>5 DEF SyncInv

LEMMA HandlerKeepsSync ==
  ASSUME TypeOK, SyncInv, NEW h \in Handlers, Handler(h)
  PROVE  SyncInv'
<1>1. /\ step[h] # "idle" /\ (alone'[h] => alone[h])
      /\ \A g \in Handlers \ {h} : step'[g] = step[g] /\ job'[g] = job[g] /\ alone'[g] = alone[g]
  BY HandlerIs
<1>2. \A g \in Handlers \ {h} : ~alone'[g]
  BY <1>1 DEF SyncInv, Quiet
<1>3. Quiet'
  BY <1>1, <1>2 DEF SyncInv, Quiet
<1>4. /\ step \in [Handlers -> {"idle", "list", "sync", "unsubscribe", "remove", "flush"}]
      /\ job \in [Handlers -> Jobs] /\ alone \in [Handlers -> BOOLEAN]
  BY DEF TypeOK
<1>5. SUFFICES /\ step'[h] \in {"unsubscribe", "remove"} => job'[h].subs = <<>>
               /\ step'[h] # "list"
               /\ alone'[h] /\ step'[h] = "sync" => Progress(h)'
               /\ alone'[h] /\ step'[h] = "flush" /\ job'[h].subs # <<>> => Fulfilled(h)'
  <2>1. Errands'
    BY <1>1, <1>5 DEF SyncInv, Errands
  <2>2. Progressing'
    BY <1>2, <1>5 DEF Progressing
  <2>3. Synced'
    BY <1>2, <1>5 DEF Synced, Fulfilled, Named
  <2>4. QED  BY <1>3, <2>1, <2>2, <2>3 DEF SyncInv
<1>6. alone[h] /\ step[h] = "sync" => Progress(h)
  BY DEF SyncInv, Progressing
<1>7. /\ step[h] \in {"unsubscribe", "remove"} => job[h].subs = <<>>
      /\ step[h] = "list" => job[h].done = 0
  BY DEF SyncInv, Errands
<1>8. CASE ListExisting(h)
  <2>1. step'[h] = "sync" /\ step[h] = "list"
    BY <1>4, <1>8 DEF ListExisting, Goto
  <2>2. QED  BY <1>7, <1>8, <2>1, ListProgress
<1>9. CASE SyncOne(h) \/ TrimOne(h)
  <2>1. step'[h] = "sync" /\ step[h] = "sync"
    BY <1>4, <1>9 DEF SyncOne, TrimOne, Goto
  <2>2. QED  BY <1>1, <1>6, <1>9, <2>1, SyncProgress, TrimProgress
<1>10. CASE SyncEnds(h)
  <2>1. step'[h] = "flush" /\ step[h] = "sync"
    BY <1>4, <1>10 DEF SyncEnds, Goto
  <2>2. QED  BY <1>1, <1>6, <1>10, <2>1, SyncDone
<1>11. CASE DeleteSubscriptions(h) \/ DeleteSubscriber(h)
  <2>1. step'[h] \in {"remove", "flush"} /\ job'[h].subs = <<>>
    BY <1>4, <1>7, <1>11 DEF DeleteSubscriptions, DeleteSubscriber, Goto
  <2>2. QED  BY <2>1
<1>12. CASE SyncFails(h) \/ DeleteFails(h) \/ StatementFails(h) \/ Flush(h)
  <2>1. step'[h] = "idle"
    BY <1>4, <1>12 DEF SyncFails, DeleteFails, StatementFails, GiveUp, Flush
  <2>2. QED  BY <2>1
<1>13. QED  BY <1>8, <1>9, <1>10, <1>11, <1>12 DEF Handler

\* A registration that no other request met leaves, before it answers, a subscription as
\* wished for every pattern it names, and none for any other (api/subscribers.go:138-221).
THEOREM SyncedAlone == Spec => []Synced
<1>1. Init => SyncInv
  <2> SUFFICES ASSUME Init PROVE SyncInv
    OBVIOUS
  <2>1. step = [h \in Handlers |-> "idle"] /\ \A h \in Handlers : ~alone[h]
    BY DEF Init
  <2>2. QED  BY <2>1 DEF SyncInv, Quiet, Errands, Progressing, Synced
<1>2. TypeOK /\ SyncInv /\ [Next]_vars => SyncInv'
  <2> SUFFICES ASSUME TypeOK, SyncInv, [Next]_vars PROVE SyncInv'
    OBVIOUS
  <2>1. CASE \E r \in Readers : Lookup(r)
    <3>1. UNCHANGED <<subscriptions, step, job, alone>>
      BY <2>1 DEF Lookup, Reader, others, handlerVars, tables, LookUp, Check, Lock,
         ListSubscribers, Store, LoadFails, Read
    <3>2. QED  BY <3>1, RestKeepsSync
  <2>2. CASE \E id \in 1..lastId : Attempt(id)
    <3>1. UNCHANGED <<subscriptions, step, job, alone>>
      BY <2>2 DEF Attempt, cacheVars, tables, handlerVars
    <3>2. QED  BY <3>1, RestKeepsSync
  <2>3. CASE UNCHANGED vars
    <3>1. UNCHANGED <<subscriptions, step, job, alone>>
      BY <2>3 DEF vars, cacheVars, tables, others, handlerVars
    <3>2. QED  BY <3>1, RestKeepsSync
  <2>4. QED  BY <2>1, <2>2, <2>3, RequestKeepsSync, HandlerKeepsSync DEF Next
<1>3. SyncInv => Synced
  BY DEF SyncInv
<1>4. QED  BY <1>1, <1>2, <1>3, TypesHold, PTL DEF Spec

-----------------------------------------------------------------------------
(* A registration that meets no other request creates no twin of a row.    *)

\* Every row of the subscriber was there when the rows were read, or is the doing of a
\* wish seen to since.
Traced(h) ==
    LET subs == job[h].subs IN
    \A c \in Owned(job[h].owner) :
        \/ \E b \in job[h].old : b.id = c.id /\ b.pattern = c.pattern
        \/ \E i \in 1..job[h].done : subs[i].pattern = c.pattern

TwinInv ==
    \A h \in Handlers :
        alone[h] => /\ \A g \in Handlers \ {h} : step[g] = "idle"
                    /\ step[h] = "sync" => Traced(h) /\ \A b \in job[h].old : b.id <= lastId

\* Of several rows with a pattern there is a last.
LEMMA SomeExisting ==
  ASSUME NEW h, NEW p, job[h].old \subseteq SubscriptionRow, lastId \in Nat,
         \A b \in job[h].old : b.id <= lastId,
         NEW c \in job[h].old, c.pattern = p
  PROVE  Existing(h, p) # {}
<1> DEFINE rows == {b \in job[h].old : b.pattern = p}
           gaps == {lastId - b.id : b \in rows}
<1>1. \A b \in rows : b.id \in Nat /\ b.id <= lastId
  BY DEF SubscriptionRow
<1>2. gaps \subseteq Nat /\ gaps # {}
  BY <1>1
<1> HIDE DEF gaps
<1> DEFINE less == {pair \in Nat \X Nat : pair[1] < pair[2]}
<1>3. OpToRel(<, Nat) = less
  BY DEF OpToRel
<1>4. IsWellFoundedOn(less, Nat)
  BY <1>3, NatLessThanWellFounded
<1>5. PICK least \in gaps : \A gap \in gaps : <<gap, least>> \notin less
  BY <1>2, <1>4, WFMin
<1>6. ASSUME NEW gap \in gaps PROVE least <= gap
  <2>1. gap \in Nat /\ least \in Nat /\ <<gap, least>> \notin less
    BY <1>2, <1>5
  <2>2. gap < least => <<gap, least>> \in less
    BY <2>1
  <2>3. QED  BY <2>1, <2>2
<1> USE DEF gaps
<1>7. PICK b \in rows : least = lastId - b.id
  BY <1>5
<1>8. \A d \in rows : lastId - d.id \in gaps
  OBVIOUS
<1> HIDE DEF gaps
<1>9. \A d \in rows : d.id <= b.id
  BY <1>1, <1>6, <1>7, <1>8
<1>10. QED  BY <1>7, <1>9 DEF Existing

LEMMA SyncTraced ==
  ASSUME TypeOK, NEW h \in Handlers, SyncOne(h), Traced(h)
  PROVE  Traced(h)'
<1> DEFINE wish == job[h].subs[job[h].done + 1]
<1>1. /\ job \in [Handlers -> Jobs] /\ job[h] \in Jobs
      /\ job' = [job EXCEPT ![h] = [job[h] EXCEPT !.done = job[h].done + 1]]
  BY DEF TypeOK, SyncOne
<1>2. /\ job'[h].owner = job[h].owner /\ job'[h].subs = job[h].subs /\ job'[h].old = job[h].old
      /\ job'[h].done = job[h].done + 1 /\ job[h].done \in Nat
  BY <1>1 DEF Jobs
<1>3. ASSUME NEW c \in subscriptions', c.owner = job[h].owner
      PROVE  \/ \E row \in Owned(job[h].owner) : row.id = c.id /\ row.pattern = c.pattern
             \/ c.pattern = wish.pattern
  <2>1. CASE \E b \in Existing(h, wish.pattern) : UpdateOne(h, b, wish)
    <3>1. PICK row \in subscriptions :
             subscriptions' = (subscriptions \ {row}) \cup {[row EXCEPT !.terms = wish.terms]}
      BY <2>1 DEF UpdateOne
    <3> DEFINE n == [row EXCEPT !.terms = wish.terms]
    <3>2. n.id = row.id /\ n.owner = row.owner /\ n.pattern = row.pattern
      BY DEF TypeOK, CacheTypeOK, SubscriptionRow
    <3>3. c = n \/ c \in subscriptions
      BY <3>1
    <3> HIDE DEF n
    <3>4. QED  BY <1>3, <3>2, <3>3 DEF Owned
  <2>2. CASE CreateOne(job[h].owner, wish)
    BY <1>3, <2>2 DEF CreateOne, Owned
  <2>3. QED  BY <2>1, <2>2 DEF SyncOne
<1>4. Owned(job[h].owner)' = {c \in subscriptions' : c.owner = job[h].owner}
  BY <1>2 DEF Owned
<1>5. \A i \in 1..job[h].done : i \in 1..job[h].done + 1
  BY <1>2
<1>6. job[h].done + 1 \in 1..job[h].done + 1
  BY <1>2
<1>7. QED  BY <1>2, <1>3, <1>4, <1>5, <1>6 DEF Traced

LEMMA OthersTraced ==
  ASSUME TypeOK, NEW h \in Handlers, ListExisting(h) \/ (TrimOne(h) /\ Traced(h))
  PROVE  Traced(h)'
<1>1. job \in [Handlers -> Jobs] /\ job[h] \in Jobs /\ subscriptions' \subseteq subscriptions
  BY DEF TypeOK, ListExisting, TrimOne, DeleteSubscription, tables
<1>2. CASE ListExisting(h)
  <2> DEFINE rows == Owned(job[h].owner)
             n == [job[h] EXCEPT !.old = rows, !.stale = Obsolete(rows, job[h].subs)]
  <2>1. job' = [job EXCEPT ![h] = n]
    BY <1>2 DEF ListExisting
  <2>2. job'[h].owner = job[h].owner /\ job'[h].old = rows
    BY <1>1, <2>1 DEF Jobs
  <2>3. QED  BY <1>1, <2>2 DEF Traced, Owned
<1>3. CASE TrimOne(h) /\ Traced(h)
  <2>1. PICK b : job' = [job EXCEPT ![h] = [job[h] EXCEPT !.stale = job[h].stale \ {b}]]
    BY <1>3 DEF TrimOne
  <2>2. /\ job'[h].owner = job[h].owner /\ job'[h].subs = job[h].subs
        /\ job'[h].old = job[h].old /\ job'[h].done = job[h].done
    BY <1>1, <2>1 DEF Jobs
  <2>3. Owned(job[h].owner)' \subseteq Owned(job[h].owner)
    BY <1>1, <2>2 DEF Owned
  <2>4. QED  BY <1>3, <2>2, <2>3 DEF Traced
<1>4. QED  BY <1>2, <1>3

\* Identifiers that are given stay given.
LEMMA IdentifiersGrow ==
  ASSUME TypeOK, NEW h \in Handlers, Handler(h)
  PROVE  lastId' \in Nat /\ lastId <= lastId'
<1>1. CASE SyncOne(h)
  BY <1>1 DEF SyncOne, UpdateOne, CreateOne, TypeOK
<1>2. CASE ~SyncOne(h)
  BY <1>2 DEF Handler, ListExisting, SyncFails, TrimOne, SyncEnds, DeleteSubscriptions,
     DeleteSubscriber, DeleteFails, StatementFails, Flush, GiveUp, TypeOK
<1>3. QED  BY <1>1, <1>2

LEMMA HandlerKeepsTwins ==
  ASSUME TypeOK, TwinInv, NEW h \in Handlers, Handler(h)
  PROVE  TwinInv'
<1>1. /\ step[h] # "idle" /\ (alone'[h] => alone[h])
      /\ \A g \in Handlers \ {h} : step'[g] = step[g] /\ job'[g] = job[g] /\ alone'[g] = alone[g]
  BY HandlerIs
<1>2. \A g \in Handlers \ {h} : ~alone'[g]
  BY <1>1 DEF TwinInv
<1>3. SUFFICES ASSUME alone'[h], step'[h] = "sync"
               PROVE  Traced(h)' /\ \A b \in job'[h].old : b.id <= lastId'
  BY <1>1, <1>2, <1>3 DEF TwinInv
<1>4. /\ step \in [Handlers -> {"idle", "list", "sync", "unsubscribe", "remove", "flush"}]
      /\ job \in [Handlers -> Jobs] /\ job[h] \in Jobs /\ lastId \in Nat
      /\ \A b \in subscriptions : b.id \in Nat /\ b.id <= lastId
  BY DEF TypeOK, CacheTypeOK, SubscriptionRow
<1>5. lastId' \in Nat /\ lastId <= lastId'
  BY IdentifiersGrow
<1>6. CASE ListExisting(h)
  <2> DEFINE rows == Owned(job[h].owner)
             n == [job[h] EXCEPT !.old = rows, !.stale = Obsolete(rows, job[h].subs)]
  <2>1. job' = [job EXCEPT ![h] = n]
    BY <1>6 DEF ListExisting
  <2>2. job'[h].old \subseteq subscriptions
    BY <1>4, <2>1 DEF Jobs, Owned
  <2>3. Traced(h)'
    BY <1>6, OthersTraced
  <2>4. \A b \in subscriptions : b.id <= lastId'
    BY <1>4, <1>5
  <2>5. QED  BY <2>2, <2>3, <2>4
<1>7. CASE SyncOne(h) \/ TrimOne(h)
  <2>1. step[h] = "sync"
    BY <1>7 DEF SyncOne, TrimOne
  <2>2. Traced(h) /\ \A b \in job[h].old : b.id <= lastId
    BY <1>1, <1>3, <2>1 DEF TwinInv
  <2>3. job'[h].old = job[h].old
    BY <1>4, <1>7 DEF SyncOne, TrimOne, Jobs
  <2>4. \A b \in job[h].old : b.id \in Nat
    BY <1>4 DEF Jobs, SubscriptionRow
  <2>5. \A b \in job[h].old : b.id <= lastId'
    BY <1>4, <1>5, <2>2, <2>4
  <2>6. QED  BY <1>7, <2>2, <2>3, <2>5, SyncTraced, OthersTraced
<1>8. CASE SyncEnds(h) \/ DeleteSubscriptions(h) \/ DeleteSubscriber(h)
  BY <1>3, <1>4, <1>8 DEF SyncEnds, DeleteSubscriptions, DeleteSubscriber, Goto
<1>9. CASE SyncFails(h) \/ DeleteFails(h) \/ StatementFails(h) \/ Flush(h)
  BY <1>3, <1>4, <1>9 DEF SyncFails, DeleteFails, StatementFails, GiveUp, Flush
<1>10. QED  BY <1>6, <1>7, <1>8, <1>9 DEF Handler

LEMMA AlwaysTraced == Spec => []TwinInv
<1>1. Init => TwinInv
  <2> SUFFICES ASSUME Init PROVE TwinInv
    OBVIOUS
  <2>1. \A h \in Handlers : ~alone[h]
    BY DEF Init
  <2>2. QED  BY <2>1 DEF TwinInv
<1>2. TypeOK /\ TwinInv /\ [Next]_vars => TwinInv'
  <2> SUFFICES ASSUME TypeOK, TwinInv, [Next]_vars PROVE TwinInv'
    OBVIOUS
  <2>1. CASE \E h \in Handlers : Request(h)
    <3>1. PICK h \in Handlers : Request(h)
      BY <2>1
    <3>2. /\ \A g \in Handlers : alone'[g] => g = h /\ \A x \in Handlers : step[x] = "idle"
          /\ \A g \in Handlers \ {h} : step'[g] = step[g]
          /\ step'[h] # "sync"
      BY <3>1, RequestIs
    <3>3. QED  BY <3>2 DEF TwinInv
  <2>2. CASE ~ \E h \in Handlers : Request(h) \/ Handler(h)
    <3>1. UNCHANGED <<subscriptions, step, job, alone, lastId>>
      BY <2>2 DEF Next, vars, cacheVars, tables, others, handlerVars, Lookup, Reader, LookUp,
         Check, Lock, ListSubscribers, Store, LoadFails, Read, Attempt
    <3>2. QED  BY <3>1 DEF TwinInv, Traced, Owned
  <2>3. QED  BY <2>1, <2>2, HandlerKeepsTwins
<1>3. QED  BY <1>1, <1>2, TypesHold, PTL DEF Spec

\* Which steps give an identifier to a new subscription.
LEMMA NewRowsAre ==
  ASSUME TypeOK, [Next]_vars, NEW b \in subscriptions', b.id > lastId
  PROVE  \E h \in Handlers :
            \/ step[h] = "idle" /\ step'[h] = "flush"
            \/ /\ SyncOne(h) /\ b.pattern = job[h].subs[job[h].done + 1].pattern
               /\ b.owner = job[h].owner /\ Existing(h, b.pattern) = {}
<1>1. lastId \in Nat /\ \A c \in subscriptions : c.id \in Nat /\ c.id <= lastId
  BY DEF TypeOK, CacheTypeOK, SubscriptionRow
<1>2. b \notin subscriptions
  BY <1>1
<1>3. step \in [Handlers -> {"idle", "list", "sync", "unsubscribe", "remove", "flush"}]
  BY DEF TypeOK
<1>4. CASE \E h \in Handlers : Request(h)
  <2>1. PICK h \in Handlers : Request(h)
    BY <1>4
  <2>2. ~ \E q \in Registrations : Register(h, q) \/ CreateSubscriber(h, q)
    BY <1>2 DEF Register, CreateSubscriber, Upsert
  <2>3. ~ \E id \in 1..lastId : Unregister(h, id) \/ DropSubscription(h, id)
    BY <1>2 DEF Unregister, DropSubscription, DeleteSubscription, tables
  <2>4. ~ \E id \in 1..lastId, settings \in Settings : UpdateSubscriber(h, id, settings)
    BY <1>2 DEF UpdateSubscriber
  <2>5. \E id \in 1..lastId, wish \in Wishes : AddSubscription(h, id, wish)
    BY <2>1, <2>2, <2>3, <2>4 DEF Request
  <2>6. step[h] = "idle" /\ step'[h] = "flush"
    BY <1>3, <2>5 DEF AddSubscription, Begin
  <2>7. QED  BY <2>6
<1>5. CASE \E h \in Handlers : Handler(h)
  <2>1. PICK h \in Handlers : Handler(h)
    BY <1>5
  <2>2. SyncOne(h)
    BY <1>2, <2>1 DEF Handler, ListExisting, SyncFails, TrimOne, SyncEnds, DeleteSubscriptions,
       DeleteSubscriber, DeleteFails, StatementFails, Flush, GiveUp, DeleteSubscription,
       DeleteSubscriptionsForSubscriber, cacheVars, tables
  <2> DEFINE wish == job[h].subs[job[h].done + 1]
  <2>3. CASE \E c \in Existing(h, wish.pattern) : UpdateOne(h, c, wish)
    <3>1. PICK row \in subscriptions :
             subscriptions' = (subscriptions \ {row}) \cup {[row EXCEPT !.terms = wish.terms]}
      BY <2>3 DEF UpdateOne
    <3> DEFINE n == [row EXCEPT !.terms = wish.terms]
    <3>2. n.id = row.id
      BY DEF TypeOK, CacheTypeOK, SubscriptionRow
    <3>3. b = n
      BY <1>2, <3>1
    <3> HIDE DEF n
    <3>4. b.id <= lastId /\ b.id \in Nat
      BY <1>1, <3>2, <3>3
    <3>5. QED  BY <1>1, <3>4
  <2>4. CASE Existing(h, wish.pattern) = {} /\ CreateOne(job[h].owner, wish)
    <3>1. b.pattern = wish.pattern /\ b.owner = job[h].owner
      BY <1>2, <2>4 DEF CreateOne
    <3>2. QED  BY <2>2, <2>4, <3>1
  <2>5. QED  BY <2>2, <2>3, <2>4 DEF SyncOne
<1>6. CASE ~ \E h \in Handlers : Request(h) \/ Handler(h)
  BY <1>2, <1>6 DEF Next, vars, cacheVars, tables, others, handlerVars, Lookup, Reader, LookUp,
     Check, Lock, ListSubscribers, Store, LoadFails, Read, Attempt
<1>7. QED  BY <1>4, <1>5, <1>6

\* A registration that met no other request and names a pattern once makes no second
\* subscription to it (api/subscribers.go:125-183, the map existingByPattern): twins come
\* from a form, or from requests that meet.
THEOREM TwinsHaveACause == Spec => PatternsKeptApart
<1> DEFINE Cause(b) ==
      \E h \in Handlers :
          \/ step[h] = "idle" /\ step'[h] = "flush"
          \/ /\ step[h] = "sync" /\ job'[h].done = job[h].done + 1
             /\ \/ ~alone[h]
                \/ \E i \in 1..job[h].done : job[h].subs[i].pattern = b.pattern
<1>1. ASSUME TypeOK, TwinInv, [Next]_vars, NEW b \in subscriptions', NEW c \in subscriptions,
             b.id > lastId, b.owner = c.owner, b.pattern = c.pattern
      PROVE  Cause(b)
  <2>1. CASE \E h \in Handlers : step[h] = "idle" /\ step'[h] = "flush"
    BY <2>1
  <2>2. CASE \E h \in Handlers : /\ SyncOne(h) /\ b.owner = job[h].owner
                                 /\ Existing(h, b.pattern) = {}
    <3>1. PICK h \in Handlers : /\ SyncOne(h) /\ b.owner = job[h].owner
                                /\ Existing(h, b.pattern) = {}
      BY <2>2
    <3>2. job \in [Handlers -> Jobs] /\ job[h] \in Jobs /\ lastId \in Nat
          /\ subscriptions \subseteq SubscriptionRow
      BY <1>1 DEF TypeOK, CacheTypeOK
    <3>3. step[h] = "sync" /\ job'[h].done = job[h].done + 1
      BY <3>1, <3>2 DEF SyncOne, Jobs
    <3>4. ASSUME alone[h] PROVE \E i \in 1..job[h].done : job[h].subs[i].pattern = b.pattern
      <4>1. Traced(h) /\ \A d \in job[h].old : d.id <= lastId
        BY <1>1, <3>3, <3>4 DEF TwinInv
      <4>2. job[h].old \subseteq SubscriptionRow
        BY <3>2 DEF Jobs
      <4>3. \A d \in job[h].old : d.pattern # b.pattern
        BY <3>1, <3>2, <4>1, <4>2, SomeExisting
      <4>4. c \in Owned(job[h].owner)
        BY <1>1, <3>1 DEF Owned
      <4>5. QED  BY <1>1, <4>1, <4>3, <4>4 DEF Traced
    <3>5. QED  BY <3>3, <3>4
  <2>3. QED  BY <1>1, <2>1, <2>2, NewRowsAre
<1>2. TypeOK /\ TwinInv /\ [Next]_vars =>
        [\A b \in subscriptions', c \in subscriptions :
            b.id > lastId /\ b.owner = c.owner /\ b.pattern = c.pattern => Cause(b)]_vars
  BY <1>1
<1>3. QED  BY <1>2, TypesHold, AlwaysTraced, PTL DEF Spec, PatternsKeptApart
=============================================================================
