# Verification of Slurpee

Slurpee (`src/`) is an event broker in Go. Publishers POST events; the broker
stores them in Postgres, posts them to the endpoints of the subscribers whose
subscriptions match, retries what fails, and records a final status. This
directory holds TLA+ models of it, TLC configurations that check them, and
proofs that TLAPS checks.

    tlc -config Fanout.cfg MCFanout.tla     one of the runs listed below
    tlapm DeliveryProofs.tla                one of the proof modules

`PROJECT.json` lists the components, runs, mutants (plausible bugs that each
checked property detects), the source lines behind every definition, the
findings, the hazards and the theorems.

## 1. The system

| Component | State | Operations | Interacts with |
|---|---|---|---|
| Delivery pipeline, `app/delivery.go` | `DeliveryChan`, `taskQueue`, event trackers and registry, semaphores, `inflightWg`, retry timers; in Postgres the event's status and retry count and the rows of `delivery_attempts` | dispatch, deliver, record, retry, finalize, resume after a restart, shut down | API handlers send on `DeliveryChan`; looks subscriptions up in the cache; posts to endpoints; publishes to the event bus |
| Process life cycle, `main.go` | signals, HTTP server | start dispatcher, resume, serve, shut down | everything |
| Publishing API, `api/events.go` | - | validate, insert, send on `DeliveryChan` | secrets, log properties, pipeline |
| Subscription cache, `app/subscription_cache.go` | subscribers and subscriptions under an `RWMutex` | lazy load, look up, flush | read by the pipeline, flushed by the registry |
| Subscriber registry, `api/subscribers.go`, `views/subscribers.go` | tables `subscribers`, `subscriptions` | register (upsert and synchronize), delete, four UI forms | flushes the cache; foreign keys tie it to `delivery_attempts` |
| Replay, `views/events.go`, `ReplayToSubscriber` | - | replay to all (through `DeliveryChan`), replay to one (a goroutine of its own) | writes statuses beside the pipeline |
| Event bus and SSE stream, `app/eventbus.go`, `views/events.go` | a buffered channel per client, a message counter | publish without blocking, stream, count what a client missed | every status write and attempt publishes |
| Secrets and log properties, `app/secrets.go`, `app/cache.go`, `app/log_properties.go`, `views/secrets.go`, `views/logging.go` | read-through caches that also remember misses | validate, extract, edit and flush | publishing API, UI |
| Patterns and filters, `MatchLikePattern`, `matchesFilter` | - | pure functions | pipeline, scopes |
| Sessions, `app/sessions.go`, `views/login.go` | tokens with an expiry | log in, look up, log out | let the forms of the UI through |
| Configuration, HTTP plumbing, pages, generated database code, the `slurpit` client | - | - | - |

What makes it hard: a pool of workers, timers, the dispatcher, request handlers
and the start-up resume run at once and share maps, channels and a wait group;
all of it is lost in a crash, and the restart has two partial records to go by
(the status of the event and its attempts); shutdown closes two channels that
others may still send on; subscriptions change under events in flight; a cache
is loaded by two statements while they change; handlers issue several
statements without a transaction and may give up between them.

What correctness means, per component:

- Pipeline: an event in memory is unfinished in the database, so that nothing
  is lost in a crash; "delivered" and "failed" are true; final statuses stay;
  one task per event and subscriber at a time; `max_parallel` holds; queues are
  closed when nobody can send; every event settles and every stop ends.
- Cache and registry: no stale cache without an edit in progress or abandoned;
  a registration leaves what it asked for; the lock always comes back.
- Replays: they leave the pipeline's counts and queues sound; no event stays
  unfinished with nobody at work on it.
- Semaphores, when `max_parallel` changes: every slot goes back where it was
  taken, the limit holds once no older value is in use, nothing waits for good.
- Event bus and live page: publishers never wait for a page; an open stream sends
  its page what passes the filter of the stream, and counts for one that comes
  back what passes the filter of the query, unless a full buffer or a failed query
  costs it one; the pages of the list cover what was stored.
- Secret and log caches: what they hold is what the tables hold, but for edits
  in progress and look-ups that failed or were overtaken.
- Secrets: those of their subscribers whose URLs have a host share it through any
  number of edits; the pattern decides who may publish. Sessions that are over stay over.
- Patterns: `MatchLikePattern`, which backtracks, accepts what a pattern means
  where `*` stands for any string and `_` for any character.

The hazards behind these, line by line, are in `PROJECT.json`.

## 2. Modules

| Module | Models | Built on |
|---|---|---|
| `Delivery` | pipeline, life cycle, publishing | |
| `EventContract` | what is promised of an event: statuses, audience, acceptances; no processes | |
| `Replay` | replays and the form that creates events, beside the pipeline | `Delivery` |
| `Semaphores` | `getSemaphore` when `max_parallel` changes | |
| `SubscriptionCache` | the cache, its lock, its readers | |
| `Registry` | the handlers that edit subscribers and subscriptions | `SubscriptionCache` |
| `Patterns` | `MatchLikePattern`, and what a pattern means | |
| `LookupCache` | the caches of secrets and of logging properties, and the requests that read them | `Patterns` |
| `Sessions` | session store, login, middleware | |
| `Console` | the forms that edit secrets and logging properties | `LookupCache`, `Sessions` |
| `EventBus` | `Publish`, `Subscribe`, and those who publish | |
| `LiveView` | the events page: stream, reconnection, missed count, list | `EventBus` |
| `MCFanout`, `MCChurn`, `MCPipeline` | instances of `Delivery`, the last of `Replay` | |
| `MCSemaphores`, `MCRegistry`, `MCConsole`, `MCLiveView` | an instance of each of these modules | |
| `DeliveryProofs`, `DeliveryEvents`, `DeliveryContract` | proofs about `Delivery` | each extends the one before |
| `ReplayProofs` | proofs about `Replay` | `DeliveryProofs` |
| `RegistryProofs`, `SemaphoreProofs`, `ConsoleProofs`, `LiveViewProofs` | proofs about the module each is named after, with those it extends | |

### Delivery

| Variables | In the code |
|---|---|
| `status`, `retries` | `events.delivery_status`, `events.retry_count` |
| `failed`, `succeeded` | rows of `delivery_attempts`, counted per event and subscriber |
| `accepted` | what the endpoints know: an event was answered with 2xx |
| `plan` | history: the subscriptions chosen when the event was last dispatched or resumed |
| `table`, `changes` | the subscriptions as the cache shows them |
| `phase` | `down`, `booting` (resume in `main`), `serving`, `stopping` (`shutdownCtx` cancelled, `DeliveryChan` closed), `closed` (`taskQueue` closed) |
| `posting`, `feed`, `resuming`, `resumeTasks` | copies of events held by request handlers, by the resume goroutine, by `resumePartialEvent`, and its tasks |
| `chan`, `dispTasks`, `taskQueue` | `DeliveryChan`; tasks `dispatchEvent` has still to enqueue; the queue of tasks |
| `pc`, `job`, `ok` | a worker's place in `processDeliveryTask`, its task, the outcome of its POST |
| `timers`, `firing` | retries waiting in `time.AfterFunc`; callbacks past their look at `shutdownCtx` |
| `trackers`, `registry` | `eventTracker`s at their addresses, and `eventRegistry` |
| `sem`, `inflight` | tokens in the semaphores, `inflightWg` |

Every step that another goroutine can observe or a crash can follow is an
action: the insert of an event and its send; the receive of an event with the
building of its tasks, and each enqueue; a worker's take, acquire, POST, insert
of the attempt, record of the result, finalization or retry; a timer's check and
its enqueue. The `range` over a map decides the order of tasks, so tasks to
enqueue are a set. Subjects, patterns, filters and bodies are reduced to which
subscriptions accept which events; `bestMaxRetries` starts at -1 and is strictly
exceeded, so ties, zero and negative limits are as in the code. A database error
is logged and ignored exactly where the code does so. `net/http` recovers the
panic of a handler that sends on the closed channel; nothing recovers the resume
goroutine's, which ends the process.

### SubscriptionCache and Registry

A reader is a goroutine in `GetMatchingSubscriptions`: `check` (first look at
`loaded`), `lock`, then the two statements of the load while it is `writer`,
then `read`. Sections that hold the lock without a database call are one step.
A handler is at the statement it issues next; it ends with `Flush`, or gives up
without one on an error, which includes an update of a row that is gone, a
foreign key that fails, and a cancelled request. `Stored` is what the tables
hold at the start. `subscriptions` keep the order of `created_at` in their
identifiers, because `existingByPattern` keeps the last row of a pattern.

### Replay

`Replay` extends `Delivery` by two variables. "Replay to all" sends the row as
the page read it on `DeliveryChan` (`ReplayAll`) and writes nothing. "Replay to
one" is a goroutine `g` (`solo[g]`): `reset` the status to pending, `post`,
`insert` the attempt, `finish` with delivered or failed for the whole event;
`solo[g].retries` is the retry count of the row it read. The handler takes any
stored event and any stored subscriber, though the page offers a button only for
those with an attempt on record. The replay takes no slot, has no tracker, and is
not in `inflightWg`. All goroutines end with the process.

### Semaphores

`Delivery` gives each subscriber one `max_parallel`; `Semaphores` gives up the
rest of the pipeline and lets it change.

| Variables | In the code |
|---|---|
| `size`, `cache` | `max_parallel` in the row; in the subscription cache, or `Unloaded` |
| `at`, `limit`, `attempt` | where a task is; the `max_parallel` it carries; `attemptNum` |
| `sem`, `current`, `tokens` | the semaphore a worker holds on to, a record of address and size; the entry of the map; slots taken |
| `edited` | history: `max_parallel` has changed and an older value is still in use |

The write of the row (`UpdateSubscriber`), the `Flush` and the next `Load` are
steps of their own. Between write and Flush, and after a handler that returned
without one (`api/subscribers.go:117-183`), events are dispatched with the old
value; a Flush may also be that of another handler, and need not come at all.
`Settled` says that neither an unfinished task nor the cache has an older value.

### LookupCache, Sessions, Console

| Variables | In the code |
|---|---|
| `row` | tables `api_secrets` and `log_config`: the value under each key |
| `entry` | `SecretCache` and `LogConfigCache`: a value, `Nothing` (a remembered miss) or `Absent` |
| `ask` | a request at its look-up: `look` (`Get`), `query`, `store` (`Set`); `turn` is which look-up it is |
| `session`, `ended` | `SessionStore`; history: tokens whose session is over |
| `scope` | rows of `api_secret_subscribers` |
| `step`, `job` | how far a handler is, and its form: `admitted` by the middleware, `listing` the associations, `syncing` them one by one, then the Flush |
| `tainted`, `disturbed`, `revoked` | history: entries stored from a failed or outdated query; secrets whose last edit met another, an error or a restart; secrets whose deletion is complete |

A secret's value is its pattern; bcrypt is the equality of a secret with itself,
so that a request names the secret it has. A form names its subscribers in order
(`wanted`), because the check of their hosts (`HostsAgree`) keeps the first host
it meets, with "" for none yet. The endpoint URL of a subscriber is constant:
no statement changes it. The middleware's check and the form
behind it are apart, because a session may end in between.

### EventBus, LiveView

| Variables | In the code |
|---|---|
| `timestamp` | `events.timestamp`, of the server's clock or supplied by the publisher |
| `now` | the clock: one reading for each message |
| `pub` | a goroutine in `Publish`: its message, `lock` or `send`, and the channels still to serve under the read lock |
| `subscribers`, `buffer` | the map of the bus, and each channel's buffer |
| `conn` | the connection of a page: `opening` (the request), `counting` (subscribed), `open` (the loop), `lost`, `refused`, or `off` for a page that shows the list |
| `last`, `since` | time in the id of the last message received; in `Last-Event-ID` of the request served |
| `wire` | bytes written and not yet received; lost with the connection |
| `walk` | the reading of the list: page, filter asked for, filter of the present page, whether there is a next page, rows read |
| `missing`, `known`, `seen`, `told` | history: events a full buffer or failed query cost the present connection, those stored when it subscribed, those the page got a message of, those a "missed" message it got counts |

A page and its channel have one name: the channel of an old connection is taken
to be gone when the browser notices the loss. A page filters on the subject, and
three parts of the code understand its filter `f` differently: the queries of the
list and the count select `subject LIKE '%f%'` (`Selected[f]`), the stream passes
subjects that contain `f` in any case of letters (`Streamed[f]`), and a link to
another page carries `f` unencoded, to be read as `Link[f]`. Nothing relates the
three. `told` is what a "missed" message says, not what the page shows: its script
fails before it shows the count (section 5).

## 3. Runs

| Run | Instance | States | Properties |
|---|---|---|---|
| `Fanout` | one event, two subscribers (one with three subscriptions, of which two tie; one with a negative limit beside the default), two workers, a stop and a crash; fair | 109 thousand | `TypeOK` `HeldIsResumable` `FailedMeansExhausted` `OneTaskPerSubscriber` `NoRedelivery` `AttemptsBounded` `FinalIsFinal` `Settles` `StopEnds` |
| `Pipeline` | two events, four subscribers, one slot in every queue and semaphore, a stop, a replay | 1.4 million | `ReplayTypeOK` `NothingStranded` `SafeClose` `MaxParallelRespected` `RetriesCounted` |
| `Churn` | one event, four sets of subscriptions, database and cache errors, a stop and a crash | 1 million | `DeliveredToAll` `ImplementsContract` |
| `Semaphores` | three deliveries to one subscriber, two workers, two edits among -1, 1 and 2, flushed at any time or never, a restart; fair | 432 thousand | `TypeOK` `SlotPerPost` `LimitHonoured` `Completes` |
| `Registry` | two requests and two lookups at once, every statement may fail | 125 thousand | `TypeOK` `CacheIsFresh` `Synced` `LoaderHoldsLock` `PatternsKeptApart` |
| `Console` | two handlers and one request, two secrets, two patterns, errors, a restart | 3.8 million | `TypeOK` `CacheHonest` `ScopeOnOneHost` `ScopeDecides` `NoReadmission` |
| `LiveView` | three events, two publishers, one page, three filters, one slot, a restart; fair | 595 thousand | `TypeOK` `NoGap` `PagesCover` `NeverHeldUp` |
| `Drain` | `MCPipeline`, two stops | - | the findings of section 5 |
| `Overlap` | `MCSemaphores`, three workers | - | |
| `PhantomMiss`, `Unregister` | `MCRegistry` without database errors | - | |
| `Revoked` | `MCConsole`, one edit | - | |

`HeldIsResumable` is the crash-safety of the pipeline: an event somewhere in
memory is pending or partial in the database. `NothingStranded` is the converse
while the server runs, with replays that write statuses of their own.
`DeliveredToAll` and `FailedMeansExhausted` say the two statuses are true, of the
audience chosen last. `NoRedelivery` holds from the first crash, or the first lost write, on no longer:
what a crash interrupts while its event is "pending" is sent to everybody again.
`AttemptsBounded` says what restarts may cost: a resumed task starts from the
failures on record, but a subscriber with none left is posted to all the same,
and the failures of an event that was still "pending" do not count; one attempt
for each stop or crash is the most that comes of both. `RetriesCounted`: copies
of a row that are written back may lose increments of the retry count, but while
no statement fails there are never more retries than failed attempts on record.
`ImplementsContract` is a refinement: every step of every goroutine, every
restart and every crash is a step of `EventContract` or leaves its variables
alone. `Synced` says that a registration no other request met leaves exactly the
patterns it names, with the terms it names last. No constraint of the database keeps
two subscriptions of one subscriber from having one pattern; `PatternsKeptApart`
says who can make the second one: the UI's form, a registration that another
request met, or one that names the pattern twice. `LimitHonoured` holds a subscriber to its
present `max_parallel` except from a change until no older value is in use, in a
task or in the cache. `ScopeOnOneHost` says of the subscribers whose URLs have a host
that they share it.

`NoGap` is what the order "subscribe, then count" is for. It owes an open page two
kinds of events: those stored since its connection subscribed that pass the
filter of the stream (`Streams`), and those stored before that pass the filter of
the count and are later than the last message the page had (`Counts`). So an event
stored between subscription and count is in the buffer, and one stored by a
process that died before it published is in the count. An event that passes one of
the filters only is owed from one side only, and a page that comes back without
`Last-Event-ID` is owed nothing of the time before. `PagesCover` says that inserts
while somebody reads the list only push rows to later pages, never out of sight,
as long as the links lead through one and the same list.

Bounds and why they are enough. Two subscribers are needed for an event that is
partial; three subscriptions of one subscriber, with limits of zero, one and one,
and a negative one of the other, for every turn of the choice among them; two
workers for results recorded at once, two events for competition over queues,
semaphores and trackers. One slot in every queue makes every blocking send
block. One retry separates the first, the retried and the exhausted attempt. One
crash and one stop (`Fanout`, `Churn`) and two stops (`Drain`) put a
restart after every step and a second end after a resume. One change of the
subscriptions puts it between dispatch and resume, to an audience that is
smaller, filtered out, gone or empty. One replay, of either event and of either
kind, meets every stage of the pipeline. Three tasks and two workers let a slot
be awaited, and a task be dispatched before a change, between a change and its
Flush, and after both; two edits let the size go back to an old value, and every
order of a smaller, larger and refused one. Two
requests and two readers give every pair of edits with a load in progress and a
contended lock; the row that was updated or deleted is there from the start
(`Stored`). One reader of the caches is enough, because readers meet only in
`entry`, which two handlers also change. The forms of `MCConsole` name a subscriber
without a host and then one with, which pass, or three of two hosts, which do not. `MCConsole` also has TLC compare
`MatchLike` with `InLanguage` over patterns and subjects of up to four characters
(`AgreementAssumption`): a leading, inner, trailing and doubled wildcard, and a
subject that ends before, at and after it. Three
events give one before, one during and one after a lost connection, two
publishers give messages out of order; one slot makes the buffer fill; one event
to a page gives three pages. The page's filter selects two of the events in the
queries and another two in the stream, so that one passes both, one the count
only and one the stream only; of the three filters of the list one has links that
lead to another list. Channels share nothing but the lock of the bus, so
that one page is enough for what a page is promised. Workers, tracker
addresses, handlers and readers are interchangeable, which is the symmetry used;
runs with a liveness property use none. Deadlock is checked everywhere: a
server at rest has the stuttering action `Rest`.

Fairness. `Fanout`: weak fairness of the boot, of the resume, of the resume
goroutine, of the handlers, of the dispatcher, of each worker, of the timers and
of the end of the process. The Go scheduler runs a goroutine that stays
runnable, timers fire, a POST ends within the HTTP client's timeout, and a
stopped process is started again. Nothing is assumed of endpoints: a POST may
fail every time, and then the limit on attempts is what ends it. Publishing,
stopping, crashing and editing are not fair. `Semaphores`: strong fairness of
each task once it is dispatched, because a Go channel serves its blocked senders
and receivers in order; edits, restarts and new tasks are not fair. `LiveView`:
weak fairness of a goroutine inside `Publish`, and of nothing else: pages,
connections and the handlers that serve them may stop at any time.

## 4. Proofs

TLAPS proves, for every value of the constants that satisfies the assumptions
named below, every invariant and every action property of the passing runs: for
any number of events, subscribers, workers, handlers, readers, pages, slots,
crashes, requests and errors. TLC evaluates the assumptions on every run.

| Assumptions | Say |
|---|---|
| `SubscriptionAssumption`, `ConfigAssumption`, `FinitenessAssumption`, `NullAssumption` (`Delivery`), `ReplayAssumption` | types of the constants, buffers of at least one slot, finitely many workers and subscriptions, null values that are no value |
| `CacheAssumption`, `RegistryAssumption` | types; the rows at the start respect UNIQUE and REFERENCES |
| `SemaphoreAssumption` | types, finitely many tasks, an unloaded cache that is no cache |
| `LookupAssumption`, `SessionAssumption`, `ConsoleAssumption` | types; patterns and subjects are strings of characters; the keys of the two caches differ; the subscribers a secret starts with share a host, as far as their URLs have one |
| `BusAssumption`, `LiveAssumption` | types, with any sets for what queries, stream and links make of a filter; buffers and pages of at least one; null values that are no value |

| Theorem | States | Run that checks it on an instance |
|---|---|---|
| `DeliveryProofs!TasksAreTracked` | `Inv`: every task is in one place, expected by a live tracker of its event and without a result | - |
| `DeliveryProofs!TypesHold` | `TypeOK` | `Fanout` |
| `DeliveryProofs!ParallelLimit` | `MaxParallelRespected` | `Pipeline` |
| `DeliveryProofs!CloseIsSafe` | `SafeClose` | `Pipeline` |
| `DeliveryEvents!NothingIsForgotten` | `HeldIsResumable` | `Fanout` |
| `DeliveryEvents!OneTask` | `OneTaskPerSubscriber` | `Fanout` |
| `DeliveryEvents!FinalStays` | `FinalIsFinal` | `Fanout` |
| `DeliveryEvents!DeliveredOnce` | `NoRedelivery` | `Fanout` |
| `DeliveryEvents!AttemptsLimited` | `AttemptsBounded` | `Fanout` |
| `DeliveryContract!DeliveredIsTrue` | `DeliveredToAll` | `Churn` |
| `DeliveryContract!ContractIsKept` | `ImplementsContract` | `Churn` |
| `DeliveryContract!FailureIsTrue` | `FailedMeansExhausted` | `Fanout` |
| `ReplayProofs!ReplayTypesHold` | `ReplayTypeOK` | `Pipeline` |
| `ReplayProofs!ReplayParallelLimit` | `MaxParallelRespected`, beside replays | `Pipeline` |
| `ReplayProofs!ReplayCloseIsSafe` | `SafeClose`, beside replays | `Pipeline` |
| `ReplayProofs!NoneStranded` | `NothingStranded` | `Pipeline` |
| `ReplayProofs!RetriesHadFailures` | `RetriesCounted` | `Pipeline` |
| `SemaphoreProofs!TypesHold` | `TypeOK` | `Semaphores` |
| `SemaphoreProofs!SlotsAreExact` | `SlotPerPost` | `Semaphores` |
| `SemaphoreProofs!LimitsHold` | `LimitHonoured` | `Semaphores` |
| `RegistryProofs!TypesHold` | `TypeOK` | `Registry` |
| `RegistryProofs!NothingStaysStale` | `CacheIsFresh` | `Registry` |
| `RegistryProofs!LockIsGivenBack` | `LoaderHoldsLock` | `Registry` |
| `RegistryProofs!SyncedAlone` | `Synced` | `Registry` |
| `RegistryProofs!TwinsHaveACause` | `PatternsKeptApart` | `Registry` |
| `ConsoleProofs!ConsoleTypes` | `TypeOK` | `Console` |
| `ConsoleProofs!CacheIsHonest` | `CacheHonest` | `Console` |
| `ConsoleProofs!OneHost` | `ScopeOnOneHost` | `Console` |
| `ConsoleProofs!ScopesDecide` | `ScopeDecides` | `Console` |
| `ConsoleProofs!NobodyReadmitted` | `NoReadmission` | `Console` |
| `ConsoleProofs!PatternsMatch` | `MatchLike(p, v) <=> InLanguage(v, p)` for all strings | - |
| `LiveViewProofs!LiveTypes` | `TypeOK` | `LiveView` |
| `LiveViewProofs!NoEventUntold` | `NoGap` | `LiveView` |
| `LiveViewProofs!PagesMissNothing` | `PagesCover` | `LiveView` |

The argument for the pipeline. None of the properties is inductive alone: that a
worker finalizes an event nobody else holds depends on the tracker having had as
many results as tasks, hence on every task still under way having no result yet.
`Inv` says this: tasks have types (`Types`), each is in one place only
(`OnePlace`), each is awaited by its tracker (`Awaited`), and a complete tracker
is with the one worker that finalizes it (`Collected`). On top of it,
`CountInv` counts: a semaphore holds one token for each worker between
acquire and release, and `inflightWg` is the number of tasks, retries and busy
workers, so that zero means nobody is left to send. `DeliveryEvents` follows the
event: it is held as one copy, or by one live tracker and its tasks, and in both
cases it is unfinished.

Two accounts of the attempts rest on that. `Clean`, for `NoRedelivery`: while
nothing was lost, no task is for a subscriber that has the event. It takes in
what the restarts rely on: what DeliveryChan carries is pending, a pending event
without a tracker has been received by nobody, an event whose timer waits is
"partial", and a tracker that is still pending has lost no task, so that at the
end of a graceful stop there is none (`PendingTracked`). `Effort`, for
`AttemptsBounded`: a task's attempt number falls behind the failures on record by
at most the number of restarts (`Ripe`), because each restart forgets at most one
first attempt for each subscriber (`PendingFew`: no retry has happened while an
event is pending), and a task past its limit is one that a restart has made
(`Sound`).

`DeliveryContract` adds that what the pipeline says is true: the success of a
worker, of a row of `delivery_attempts` or of a collected result stands for an
answer of the endpoint (`Answered`, `OnRecord`, `TrueResults`), and a tracker
expects its event's audience except those who have the event (`Addressed`).
This is inductive because the audience of an event changes only while it is a
copy in one pair of hands, which is when no tracker has it. "delivered" follows,
and with it the refinement, one lemma per action that writes a status, an
acceptance, a plan or the table. `Tally` compares counts: a task never
counts more attempts than there are failures on record, so one that gives up has
one failure more than its limit. That holds while no insert is lost and no lookup
fails, which `FailedMeansExhausted` has as its premise.

The argument for replays. What they write is not what `CountInv` rests on, so
that it holds beside them (`ReplayedBeside`); `Hands` does not, because a
replayed event may be in two pairs of hands. For `NothingStranded` every result a
tracker misses is on its way (`AllCovered`), and every unfinished event is a
copy, or has such a tracker, or is replayed to one subscriber (`Attended`). For
`RetriesCounted` nothing that carries a retry count - row, copy, task, tracker,
replay - carries more than the failures on record, and a worker about to retry
carries less (`Counted`).

The argument for the cache. `CacheIsFresh` needs two facts more: the loader is
the holder of the lock (`LoaderHoldsLock`), and what it has read so far is
current unless an edit is still to flush (`FetchIsFresh`). A Flush waits for the
loader, so an edit that overtakes a load is flushed after the load is stored.
`Synced` needs to know at every point of a registration which rows its subscriber
has: those still to be deleted, and one with the right terms for every pattern
named so far whose last mention has been reached (`Progress`); and that nobody
else is in the middle of an edit (`Quiet`). For `PatternsKeptApart` each row of the
subscriber was there when the registration read them, or is of a pattern it has
seen to since (`Traced`); one that was there is found, because of several rows
with a pattern one is the newest (`SomeExisting`).

The argument for the semaphores. One address has one semaphore among all that
the map and the workers refer to (`OneEach`), a task's semaphore has the size the
task carries (`Fitting`). While no older value of a subscriber's `max_parallel` is
in use, its tasks carry the present size and share the semaphore of the map
(`Shared`), and a loaded cache has that size too (`Fresh`), so that the tasks still
to come do the same. Then the POSTs to it are among the holders of one semaphore
of that size. `Flush` ends a change only if no task carries an older value,
and the end of the last such task only if the cache does not.

The argument for the console. For `ScopeOnOneHost`, an edit that met no other
and no error has in the table, with what it has still to add and to remove, what
its form asked for (`Settling`), and two edits of one secret know of each other
(`Separate`). For `ScopeDecides`, a request past the check holds a pattern and a
subject that `MatchLike` accepted (`Scoped`), and `PatternsMatch` says what that
means. The latter is an induction from the end of one pattern (`Downwards`): if
the rows of the later positions are right, so is that of the position before.

The argument for the live page. `NoGap`: whatever `known` holds is stored
(`KnownStored`). What the stream owes (`ToSend`) is, from the step that inserts it,
with a publisher that has still to serve the page, in its buffer, on the connection
or with the page; what the count owes (`ToTell`) may still wait for the count
while the connection is `counting`, and the step that counts puts it into the
message, with the filter of the query and no other (`AllHeard`, by way of
`Settled`). `PagesCover`: the rank of a row in the list only grows, and no other
row has the rank of one without a tie, so that what an insertion moves from one
page to the next had been read or is still to be read; as long as the links carry
the filter asked for, every page is a window of the same list (`ReadSoFar`).

Each inductive invariant was checked with TLC on the instance of its run before
it was proved. Only model-checked are `Settles`, `StopEnds`, `Completes` and
`NeverHeldUp`: liveness under fairness is out of the prover's reach, and so is
`ENABLED`, with it the absence of deadlock. The violations of section 5 are
counterexamples, which need no proof.

## 5. Where code and documents part

Each of these has a run in which TLC finds the behaviour:

- `Drain`: a stop while the resume goroutine still feeds pending events closes
  `DeliveryChan` under it; its panic ends the process with events buffered,
  where `main.go` says the dispatcher drains.
- `PhantomMiss`: a Flush between `load` and the read lock makes a lookup return
  nothing, and the event becomes "recorded" though a subscription matches.
- `Unregister`: once a delivery to a subscriber was attempted, deleting it
  deletes its subscriptions, then fails on the foreign key of
  `delivery_attempts`, and does not flush the cache.
- `Overlap`: after a change of `max_parallel` deliveries of the old and of the new
  semaphore run at once, more than either value allows. Retries of old tasks and
  new tasks replace each other's semaphore each time, so that there is no bound.
- `Revoked`: a request that read the row of a secret before it was deleted puts
  it back into the cache after the Flush; the secret works on.

Seen while modelling, without a run of their own:

- `finalizeEvent` writes back the retry count of dispatch time
  (`delivery.go:391`), and a retry that of its own task, so the count on the
  event is neither the number of retry cycles nor monotone.
- An event whose first attempts succeed stays "pending" until the last result
  (`delivery.go:301`); after a crash those subscribers get it again.
- A first failed attempt makes the event "partial" though nobody has succeeded
  (`delivery.go:342`).
- `resumePartialEvent` makes a partial event "recorded" when no subscription
  matches any more, whoever has received it (`delivery.go:675`).
- An event whose matching subscriptions all filter it out is "failed" without an
  attempt (`delivery.go:254`).
- Two registrations of one endpoint at once, or one that names a pattern twice,
  create the pattern twice (`api/subscribers.go:158`); later registrations
  update the newer row only. `PatternsKeptApart` shows that these, and the UI's
  form, are the only ways.
- A registration that fails half-way returns without a Flush
  (`api/subscribers.go:155`): what it wrote, a new `max_parallel` included, shows up at
  the next edit by somebody. `LimitHonoured` says what holds until then.
- A subscriber that exhausted its attempts gets one more after a restart if the
  event is still partial (`delivery.go:733`; `tasks/prd-slurpee-event-broker.md:205`
  has the limit as final). `AttemptsBounded` says that it is no more than one for
  each restart.
- A partial event whose remaining subscriptions no longer qualify at the restart
  becomes "delivered" though nobody received it (`delivery.go:749`;
  `docs/concepts.md:93`).
- An event replayed to all keeps its final status while it is delivered again
  (`views/events.go:218`), so a crash loses the replay; the dialog
  (`views/event_detail.templ:85`) says "This will reset the delivery status".
- A replay to one subscriber writes "delivered" or "failed" for the whole event
  while retries to others wait; a crash then loses those. It takes no semaphore
  slot, and a shutdown does not wait for it; a crash in the middle leaves the
  event pending, and the restart sends it to everybody.
- A subscriber registered through the API with `max_parallel` 0
  (`api/subscribers.go:98`; the forms refuse it) takes one worker for each of its
  deliveries and never gives it back: in the end nobody is delivered to.
- A negative `max_parallel` panics in `make` (`delivery.go:103`), in a goroutine
  nobody recovers, again after every restart.
- A database error, or a request the client cancelled, is remembered as "no such
  secret" until the next Flush (`secrets.go:43`).
- Errors of `ListSubscribersForApiSecret` are ignored (`views/secrets.go:270`): old
  associations then stay. Two updates of one secret at once can leave subscribers
  of two hosts.
- The forms' check of the hosts takes "" for "no host yet" (`views/secrets.go:106`): a
  subscriber whose URL has no host passes beside any other if it is listed first,
  where `tasks/prd-api-secrets.md:135` (FR-17) wants one host and port for all.
- The comment at `CheckSendScope` (`secrets.go:70`) has `%` for any sequence; the
  code takes `*`, and `%` for itself. `_` matches one byte, not one character. `CheckSubscriberScope` is called by
  nobody: the associations of a secret admit nothing.
- `showMissedBanner` (`views/events.templ:447`) does not put its cell into the
  row, so that the row stays empty, the look-up of its button yields null and the
  script stops with a TypeError: the count is never shown, and the missed events
  cannot be loaded.
- After the session is lost or the server restarted, the browser's reconnection
  is sent to the login page, and an `EventSource` gives up then, although the
  comment at its `onerror` says that it reconnects.
- A page that has not received a message yet reconnects without `Last-Event-ID`,
  and is told of nothing it missed; `NoGap` asks for no more. `stopLive` loads the list without the filter.
- A `status_changed` message has no subject, so a page with a subject filter never
  sees one, and its statuses grow stale. The content and trace filters are not
  applied to the stream.
- The subject filter of the stream ignores case and takes `%` and `_` as they are
  (`views/events.go:573`); the count of missed events and the list use LIKE
  (`events.sql.go:17`). An event "Order.x" passes the filter `order` in the stream,
  but is not counted when it was missed, nor found in the list.
- Equal timestamps have no order in the list: a row may be on two pages, or on
  none. `PagesCover` excepts them.
- `filterQueryString` does not encode its values (`events_templ.go:47`): under a filter
  with `&`, `+`, `#` or `%` the link to the next page leads into another list.
- An event that was stored before the last message a page received, or with an
  older timestamp, but published after its connection broke is not counted when
  it reconnects (`views/events.go:530`; `tasks/prd-live-event-stream.md:128`).
- The count after a reconnection may include events the page has seen.

## 6. Not modelled, and what could follow

In `Delivery`: bus messages and logs (no effect on the pipeline; `EventBus` has
the messages); the moment at which a timer fires (any); the content of events,
headers and responses. What `matchesFilter`, a pure function on JSON, makes of
them is the constant `Filter`. `Known` is constant: the look-up of a subscriber fails or not for a
whole behaviour. The lookups of `Delivery` read a `table` that is one of
`Tables`; the empty one is among them in `Churn`, which covers the lookup that
`PhantomMiss` finds. In `SubscriptionCache`, `GetSubscriberByID` is not separate
from `GetMatchingSubscriptions`: it loads and reads in the same way. In
`Semaphores`, tasks wait in no order, a load of the cache is one step, and which tasks a restart takes up again is any set with the unfinished ones. In
`LiveView`, the filters on status, dates, content and trace, a filter that is changed
while the page is live (`reconnectWithFilters`, which is `stopLive` and `startLive`
with another), and the button of the banner of missed events, which the page
cannot reach. `LookupCache` does not
model the two plaintexts of a secret: a wrong one ends the request.

Left out for good: configuration, routing and middleware (no state that outlives
a request), pages, icons and styles (layout), generated database code (each
statement is modelled where it is issued). `slurpit` is a load-test client: what
it keeps are counters for its display, and nothing in the broker depends on it.
Its `bench` deletes its subscriber at the end, which fails as `Unregister` shows.

What could follow: a comparison of `matchesFilter` with its definition over small
documents.
