------------------------------ MODULE Delivery ------------------------------
(***************************************************************************)
(* The delivery pipeline of Slurpee (app/delivery.go, main.go): events are *)
(* inserted in Postgres as "pending" and sent on DeliveryChan; one         *)
(* dispatcher goroutine turns each into one task per subscriber; a fixed   *)
(* pool of workers posts the tasks, retries them from timers and writes    *)
(* the event's final status once a tracker has a result for every task.    *)
(* The process may crash or be stopped at any point; on the next start the *)
(* events still "pending" or "partial" are resumed from the database.      *)
(*                                                                         *)
(* An event's subject and data are abstracted to which subscriptions'      *)
(* patterns and filters accept it.  `table` is the set of subscriptions    *)
(* that the cache shows the pipeline; it changes while the server runs.    *)
(* Messages to the event bus and log lines are left out.                   *)
(***************************************************************************)
EXTENDS Integers, Sequences, FiniteSets

CONSTANTS
    Events,         \* events a client may publish
    Subscribers,    \* rows of table subscribers
    Subscriptions,  \* rows of table subscriptions ever, numbered in created_at order
    Owner,          \* Owner[b]: the subscriber of subscription b
    Pattern,        \* Pattern[b]: the events whose subject matches b's pattern
    Filter,         \* Filter[b]: the events whose data match b's filter
    Tables,         \* the sets of subscriptions that may be in force
    Limit,          \* Limit[b]: b's max_retries, or NoLimit for SQL NULL
    NoLimit,
    DefaultRetries, \* Config.MaxRetries
    MaxParallel,    \* MaxParallel[s]: subscriber s's max_parallel
    Known,          \* the subscribers GetSubscriberByID finds
    Workers,        \* Config.DeliveryWorkers goroutines
    Runs,           \* addresses of eventTrackers
    NoRun, NoTracker, NoTask,  \* the null values of their types
    ChanSize,       \* Config.DeliveryChanSize
    QueueSize,      \* Config.DeliveryQueueSize
    DbMayFail,      \* whether a database call may return an error
    CacheMayFail,   \* whether loading the subscription cache may return an error
    MaxStops,       \* bound: graceful stops in a behaviour
    MaxCrashes,     \* bound: crashes in a behaviour
    MaxChanges      \* bound: changes of the subscriptions in a behaviour

ASSUME SubscriptionAssumption ==
    /\ Subscriptions \subseteq Nat
    /\ Owner \in [Subscriptions -> Subscribers]
    /\ Pattern \in [Subscriptions -> SUBSET Events]
    /\ Filter \in [Subscriptions -> SUBSET Events]
    /\ Limit \in [Subscriptions -> Int \cup {NoLimit}]
    /\ NoLimit \notin Int
    /\ Known \subseteq Subscribers
    /\ Tables \subseteq SUBSET Subscriptions

ASSUME ConfigAssumption ==
    /\ DefaultRetries \in Int
    /\ MaxParallel \in [Subscribers -> Nat]
    /\ ChanSize \in Nat \ {0}
    /\ QueueSize \in Nat \ {0}
    /\ DbMayFail \in BOOLEAN
    /\ CacheMayFail \in BOOLEAN
    /\ MaxStops \in Nat
    /\ MaxCrashes \in Nat
    /\ MaxChanges \in Nat

ASSUME FinitenessAssumption ==
    /\ IsFiniteSet(Workers)
    /\ IsFiniteSet(Subscriptions)

VARIABLES
    \* Postgres
    status,     \* status[e]: events.delivery_status, "none" before the insert
    retries,    \* retries[e]: events.retry_count
    failed,     \* failed[e][s]: rows of delivery_attempts with status failed
    succeeded,  \* succeeded[e][s]: rows of delivery_attempts with status succeeded
    \* the endpoints
    accepted,   \* <<e, s>> once s has answered a POST of e with 2xx
    \* history: the subscriptions chosen when e was last dispatched or resumed
    plan,
    \* the subscriptions in force
    table,
    changes,    \* how often they changed so far
    \* the process
    phase,      \* "down", "booting", "serving", "stopping" or "closed"
    posting,    \* copies that request handlers are sending on DeliveryChan
    feed,       \* copies the resume goroutine has still to send
    resuming,   \* copies of partial events the main goroutine has still to resume
    resumeTasks,\* tasks resumePartialEvent has still to enqueue
    chan,       \* DeliveryChan
    dispTasks,  \* tasks dispatchEvent has still to enqueue
    taskQueue,
    pc, job, ok,\* per worker: program counter, its task, the outcome of its POST
    timers,     \* tasks waiting in a time.AfterFunc
    firing,     \* tasks whose callback is past its shutdown check
    trackers,   \* the eventTrackers in use
    registry,   \* eventRegistry
    sem,        \* sem[s]: tokens in subscriber s's semaphore
    inflight,   \* inflightWg
    stops,      \* graceful stops so far
    crashes     \* crashes and panics so far

db == <<status, retries, failed, succeeded>>
world == <<accepted, plan, table, changes>>
main == <<phase, resuming, resumeTasks>>
counts == <<stops, crashes>>
senders == <<posting, feed>>
queues == <<chan, dispTasks, taskQueue>>
pool == <<pc, job, ok>>
retry == <<timers, firing>>
heap == <<trackers, registry>>
limits == <<sem, inflight>>
vars == <<db, world, main, counts, senders, queues, pool, retry, heap, limits>>

-----------------------------------------------------------------------------
(* Matching and selection of subscriptions.                                *)

Copies == [event : Events, retries : Nat]
Tasks == [event : Events, sub : Subscriptions, attempt : Nat, retries : Nat, run : Runs]
Results == UNION {[S -> BOOLEAN] : S \in SUBSET Subscriptions}
Trackers == [event : Events, retries : Nat, expected : SUBSET Subscriptions,
             results : Results]

ASSUME NullAssumption ==
    /\ NoRun \notin Runs
    /\ NoTracker \notin Trackers
    /\ NoTask \notin Tasks

MaxRetries(b) == IF Limit[b] = NoLimit THEN DefaultRetries ELSE Limit[b]

Matching(e) == {b \in table : e \in Pattern[b]}

\* Every pair of b's filter is in the data of e; without a filter every event
\* passes, and a filter that does not parse lets none through (Filter[b] = {}).
matchesFilter(b, e) == e \in Filter[b]

\* The subscriptions of s that could deliver e: bestMaxRetries starts at -1 and
\* must be exceeded, so a negative limit never qualifies.
Candidates(e, s) ==
    {b \in Matching(e) : Owner[b] = s /\ matchesFilter(b, e) /\ MaxRetries(b) > -1}

\* Mutant: one task per subscription instead of one per subscriber.
SelectedAll(e, s) == Candidates(e, s)

\* The first candidate with the highest limit is the one selected.
Selected(e, s) ==
    {b \in Candidates(e, s) :
        \A c \in Candidates(e, s) \ {b} :
            \/ MaxRetries(c) < MaxRetries(b)
            \/ MaxRetries(c) = MaxRetries(b) /\ b < c}

\* One subscription for each subscriber the event is to be delivered to.
Chosen(e) == UNION {Selected(e, s) : s \in Known}

\* The subscribers that the event in hand is delivered to.
Audience(e) == {Owner[b] : b \in plan[e]}

NoPrior == [s \in Subscribers |-> 0]

TasksFor(c, r, subs, prior) ==
    {[event |-> c.event, sub |-> b, attempt |-> prior[Owner[b]],
      retries |-> c.retries, run |-> r] : b \in subs}

NewTracker(c, subs) ==
    [event |-> c.event, retries |-> c.retries, expected |-> subs,
     results |-> [b \in {} |-> FALSE]]

\* The results map after a result for b is stored.
Recorded(results, b, good) ==
    [x \in DOMAIN results \cup {b} |-> IF x = b THEN good ELSE results[x]]

\* Mutant: the first result completes the event.
CompleteEarly(t) == Cardinality(DOMAIN t.results) > 0

\* record returns TRUE: the tracker has as many results as tasks were built.
Complete(t) == Cardinality(DOMAIN t.results) = Cardinality(t.expected)

-----------------------------------------------------------------------------
Init ==
    /\ status = [e \in Events |-> "none"]
    /\ retries = [e \in Events |-> 0]
    /\ failed = [e \in Events |-> [s \in Subscribers |-> 0]]
    /\ succeeded = [e \in Events |-> [s \in Subscribers |-> 0]]
    /\ accepted = {}
    /\ plan = [e \in Events |-> {}]
    /\ table \in Tables
    /\ changes = 0
    /\ phase = "down"
    /\ stops = 0 /\ crashes = 0
    /\ posting = {} /\ feed = {} /\ resuming = {} /\ resumeTasks = {}
    /\ chan = <<>> /\ dispTasks = {} /\ taskQueue = <<>>
    /\ pc = [w \in Workers |-> "idle"]
    /\ job = [w \in Workers |-> NoTask]
    /\ ok = [w \in Workers |-> FALSE]
    /\ timers = {} /\ firing = {}
    /\ trackers = [r \in Runs |-> NoTracker]
    /\ registry = [e \in Events |-> NoRun]
    /\ sem = [s \in Subscribers |-> 0]
    /\ inflight = 0

\* The process ends: everything but the database and the endpoints is lost.
ProcessEnds ==
    /\ phase' = "down"
    /\ posting' = {} /\ feed' = {} /\ resuming' = {} /\ resumeTasks' = {}
    /\ chan' = <<>> /\ dispTasks' = {} /\ taskQueue' = <<>>
    /\ pc' = [w \in Workers |-> "idle"]
    /\ job' = [w \in Workers |-> NoTask]
    /\ ok' = [w \in Workers |-> FALSE]
    /\ timers' = {} /\ firing' = {}
    /\ trackers' = [r \in Runs |-> NoTracker]
    /\ registry' = [e \in Events |-> NoRun]
    /\ sem' = [s \in Subscribers |-> 0]
    /\ inflight' = 0
    /\ UNCHANGED <<db, world>>

\* updateEventStatus: a database error is logged and the write is lost.
UpdateEventStatus(e, rc, st) ==
    \/ /\ status' = [status EXCEPT ![e] = st]
       /\ retries' = [retries EXCEPT ![e] = rc]
    \/ /\ DbMayFail
       /\ UNCHANGED <<status, retries>>

\* Mutant: an attempt that failed is not recorded.
InsertSuccess(e, s, good) ==
    /\ succeeded' = [succeeded EXCEPT ![e][s] = @ + (IF good THEN 1 ELSE 0)]
    /\ UNCHANGED failed

\* InsertDeliveryAttempt, whose error is logged and otherwise ignored.
InsertAttempt(e, s, good) ==
    \/ /\ good
       /\ succeeded' = [succeeded EXCEPT ![e][s] = @ + 1]
       /\ UNCHANGED failed
    \/ /\ ~good
       /\ failed' = [failed EXCEPT ![e][s] = @ + 1]
       /\ UNCHANGED succeeded
    \/ /\ DbMayFail
       /\ UNCHANGED <<failed, succeeded>>

\* History: what the subscriptions in force make of e now.
Plan(e) == plan' = [plan EXCEPT ![e] = Chosen(e)]

StoredCopy(e) == [event |-> e, retries |-> retries[e]]

\* The rows of GetResumableEvents that have the status st.
Resumable(st) == {StoredCopy(e) : e \in {x \in Events : status[x] = st}}

InsertEvent(e) ==
    /\ status[e] = "none"
    /\ status' = [status EXCEPT ![e] = "pending"]

-----------------------------------------------------------------------------
(* Start-up: main calls StartDispatcher and ResumeUnfinishedDeliveries,    *)
(* then starts the HTTP server.                                            *)

Boot ==
    /\ phase = "down"
    /\ phase' = "booting"
    /\ \/ /\ feed' = Resumable("pending")
          /\ resuming' = Resumable("partial")
       \/ /\ DbMayFail
          /\ UNCHANGED <<resuming, feed>>
    /\ UNCHANGED <<db, world, resumeTasks, counts, posting, queues, pool, retry,
                   heap, limits>>

\* resumePartialEvent returns early when the summary or the subscriptions cannot
\* be read.
ResumeGivesUp(c) ==
    /\ DbMayFail \/ CacheMayFail
    /\ UNCHANGED <<status, retries, plan, resumeTasks, heap>>

\* Nothing is left to deliver: nobody matches, or every subscriber is skipped.
ResumeWithoutTasks(c, st) ==
    /\ UpdateEventStatus(c.event, c.retries, st)
    /\ Plan(c.event)
    /\ UNCHANGED <<resumeTasks, heap>>

\* Mutant: subscribers that were tried at all are skipped.
RemainingUntried(e) ==
    {b \in Chosen(e) : succeeded[e][Owner[b]] = 0 /\ failed[e][Owner[b]] = 0}

\* Mutant: nobody is skipped.
RemainingAll(e) == Chosen(e)

\* The subscriptions a partial event still needs.
Remaining(e) == {b \in Chosen(e) : succeeded[e][Owner[b]] = 0}

\* Mutant: the attempts before the restart are not counted.
ResumeUncounted(c, r) ==
    /\ trackers[r] = NoTracker
    /\ trackers' = [trackers EXCEPT ![r] = NewTracker(c, Remaining(c.event))]
    /\ registry' = [registry EXCEPT ![c.event] = r]
    /\ resumeTasks' = TasksFor(c, r, Remaining(c.event), NoPrior)
    /\ Plan(c.event)
    /\ UNCHANGED <<status, retries>>

ResumeWithTasks(c, r) ==
    /\ trackers[r] = NoTracker
    /\ trackers' = [trackers EXCEPT ![r] = NewTracker(c, Remaining(c.event))]
    /\ registry' = [registry EXCEPT ![c.event] = r]
    /\ resumeTasks' = TasksFor(c, r, Remaining(c.event), failed[c.event])
    /\ Plan(c.event)
    /\ UNCHANGED <<status, retries>>

ResumePartialEvent(c) ==
    /\ phase = "booting" /\ resumeTasks = {} /\ c \in resuming
    /\ resuming' = resuming \ {c}
    /\ \/ ResumeGivesUp(c)
       \/ /\ Matching(c.event) = {}
          /\ ResumeWithoutTasks(c, "recorded")
       \/ /\ Matching(c.event) # {} /\ Remaining(c.event) = {}
          /\ ResumeWithoutTasks(c, "delivered")
       \/ /\ Remaining(c.event) # {}
          /\ \E r \in Runs : ResumeWithTasks(c, r)
    /\ UNCHANGED <<failed, succeeded, accepted, table, changes, phase, counts,
                   senders, queues, pool, retry, limits>>

ResumeEnqueue(t) ==
    /\ t \in resumeTasks /\ Len(taskQueue) < QueueSize
    /\ resumeTasks' = resumeTasks \ {t}
    /\ taskQueue' = Append(taskQueue, t)
    /\ inflight' = inflight + 1
    /\ UNCHANGED <<db, world, phase, resuming, counts, senders, chan, dispTasks,
                   pool, retry, heap, sem>>

\* Every partial event is resumed: the HTTP server starts.
Serve ==
    /\ phase = "booting" /\ resuming = {} /\ resumeTasks = {}
    /\ phase' = "serving"
    /\ UNCHANGED <<db, world, resuming, resumeTasks, counts, senders, queues, pool,
                   retry, heap, limits>>

-----------------------------------------------------------------------------
(* DeliveryChan: the resume goroutine and the request handlers send, the   *)
(* dispatcher receives.                                                    *)

Open == phase \in {"booting", "serving"}

\* createEventHandler inserts the row and is about to send it.  A handler may
\* outlive the 30 s that Shutdown grants it.
Publish(e) ==
    /\ phase \in {"serving", "stopping"} /\ InsertEvent(e)
    /\ posting' = posting \cup {[event |-> e, retries |-> 0]}
    /\ UNCHANGED <<retries, failed, succeeded, world, main, counts, feed, queues,
                   pool, retry, heap, limits>>

HandlerSend(c) ==
    /\ Open /\ c \in posting /\ Len(chan) < ChanSize
    /\ posting' = posting \ {c}
    /\ chan' = Append(chan, c)
    /\ UNCHANGED <<db, world, main, counts, feed, dispTasks, taskQueue, pool, retry,
                   heap, limits>>

\* A send on the closed channel panics; net/http recovers the handler's panic.
HandlerPanic(c) ==
    /\ phase \in {"stopping", "closed"} /\ c \in posting
    /\ posting' = posting \ {c}
    /\ UNCHANGED <<db, world, main, counts, feed, queues, pool, retry, heap, limits>>

FeedSend(c) ==
    /\ Open /\ c \in feed /\ Len(chan) < ChanSize
    /\ feed' = feed \ {c}
    /\ chan' = Append(chan, c)
    /\ UNCHANGED <<db, world, main, counts, posting, dispTasks, taskQueue, pool,
                   retry, heap, limits>>

\* Nothing recovers the resume goroutine's panic: it ends the process.
FeedPanic ==
    /\ phase \in {"stopping", "closed"} /\ feed # {}
    /\ ProcessEnds
    /\ crashes' = crashes + 1
    /\ UNCHANGED stops

DispatchWithoutTasks(c, st) ==
    /\ UpdateEventStatus(c.event, c.retries, st)
    /\ Plan(c.event)
    /\ UNCHANGED <<dispTasks, heap>>

DispatchWithTasks(c, r) ==
    /\ trackers[r] = NoTracker
    /\ trackers' = [trackers EXCEPT ![r] = NewTracker(c, Chosen(c.event))]
    /\ registry' = [registry EXCEPT ![c.event] = r]
    /\ dispTasks' = TasksFor(c, r, Chosen(c.event), NoPrior)
    /\ Plan(c.event)
    /\ UNCHANGED <<status, retries>>

DispatchEvent ==
    /\ chan # <<>> /\ dispTasks = {}
    /\ chan' = Tail(chan)
    /\ LET c == Head(chan) IN
       \/ /\ CacheMayFail
          /\ UpdateEventStatus(c.event, c.retries, "failed")
          /\ UNCHANGED <<plan, dispTasks, heap>>
       \/ /\ Matching(c.event) = {}
          /\ DispatchWithoutTasks(c, "recorded")
       \/ /\ Matching(c.event) # {} /\ Chosen(c.event) = {}
          /\ DispatchWithoutTasks(c, "failed")
       \/ /\ Chosen(c.event) # {}
          /\ \E r \in Runs : DispatchWithTasks(c, r)
    /\ UNCHANGED <<failed, succeeded, accepted, table, changes, main, counts,
                   senders, taskQueue, pool, retry, limits>>

DispatchEnqueue(t) ==
    /\ t \in dispTasks /\ Len(taskQueue) < QueueSize
    /\ dispTasks' = dispTasks \ {t}
    /\ taskQueue' = Append(taskQueue, t)
    /\ inflight' = inflight + 1
    /\ UNCHANGED <<db, world, main, counts, senders, chan, pool, retry, heap, sem>>

-----------------------------------------------------------------------------
(* A worker: one call of processDeliveryTask is Take, Acquire, Deliver,    *)
(* RecordAttempt, then RecordResult (and perhaps FinalizeEvent) or         *)
(* ScheduleRetry.                                                          *)

Goto(w, l) == pc' = [pc EXCEPT ![w] = l]

\* The deferred inflightWg.Done, and back to the range over taskQueue.
Return(w) ==
    /\ Goto(w, "idle")
    /\ job' = [job EXCEPT ![w] = NoTask]
    /\ ok' = [ok EXCEPT ![w] = FALSE]

Take(w) ==
    /\ pc[w] = "idle" /\ taskQueue # <<>>
    /\ Goto(w, "acquire")
    /\ job' = [job EXCEPT ![w] = Head(taskQueue)]
    /\ taskQueue' = Tail(taskQueue)
    /\ UNCHANGED <<db, world, main, counts, senders, chan, dispTasks, ok, retry,
                   heap, limits>>

\* Mutant: the capacity check is off by one.
AcquireOneMore(w) ==
    /\ pc[w] = "acquire"
    /\ LET s == Owner[job[w].sub] IN
       /\ sem[s] <= MaxParallel[s]
       /\ sem' = [sem EXCEPT ![s] = @ + 1]
    /\ Goto(w, "send")
    /\ UNCHANGED <<db, world, main, counts, senders, queues, job, ok, retry, heap,
                   inflight>>

Acquire(w) ==
    /\ pc[w] = "acquire"
    /\ LET s == Owner[job[w].sub] IN
       /\ sem[s] < MaxParallel[s]
       /\ sem' = [sem EXCEPT ![s] = @ + 1]
    /\ Goto(w, "send")
    /\ UNCHANGED <<db, world, main, counts, senders, queues, job, ok, retry, heap,
                   inflight>>

\* The POST ends: 2xx, or any other answer, an error or the 30 s timeout.
Deliver(w, good) ==
    /\ pc[w] = "send"
    /\ ok' = [ok EXCEPT ![w] = good]
    /\ accepted' = IF good THEN accepted \cup {<<job[w].event, Owner[job[w].sub]>>}
                           ELSE accepted
    /\ Goto(w, "insert")
    /\ UNCHANGED <<db, plan, table, changes, main, counts, senders, queues, job,
                   retry, heap, limits>>

\* The attempt is inserted and the semaphore released.
RecordAttempt(w) ==
    /\ pc[w] = "insert"
    /\ LET s == Owner[job[w].sub] IN
       /\ InsertAttempt(job[w].event, s, ok[w])
       /\ sem' = [sem EXCEPT ![s] = @ - 1]
    /\ Goto(w, "settle")
    /\ UNCHANGED <<status, retries, world, main, counts, senders, queues, job, ok,
                   retry, heap, inflight>>

\* Mutant: one retry too few.
ExhaustedEarly(t) == t.attempt + 1 >= MaxRetries(t.sub)

Exhausted(t) == t.attempt >= MaxRetries(t.sub)

RecordResult(w) ==
    LET t == job[w]
        tracker == [trackers[t.run] EXCEPT !.results = Recorded(@, t.sub, ok[w])]
    IN  /\ pc[w] = "settle" /\ (ok[w] \/ Exhausted(t))
        /\ trackers' = [trackers EXCEPT ![t.run] = tracker]
        /\ \/ /\ Complete(tracker)
              /\ Goto(w, "finalize")
              /\ UNCHANGED <<job, ok, inflight>>
           \/ /\ ~Complete(tracker)
              /\ Return(w)
              /\ inflight' = inflight - 1
        /\ UNCHANGED <<db, world, main, counts, senders, queues, retry, registry,
                       sem>>

\* Mutant: one success is enough.
FinalStatusOfAny(t) ==
    IF \E b \in DOMAIN t.results : t.results[b] THEN "delivered" ELSE "failed"

FinalStatus(t) ==
    IF \A b \in DOMAIN t.results : t.results[b] THEN "delivered" ELSE "failed"

\* The final status is written with the retry count the tracker started from.
\* Nothing refers to the tracker any more.
FinalizeEvent(w) ==
    LET r == job[w].run
        t == trackers[r]
    IN  /\ pc[w] = "finalize"
        /\ UpdateEventStatus(t.event, t.retries, FinalStatus(t))
        /\ registry' = [registry EXCEPT ![t.event] = NoRun]
        /\ trackers' = [trackers EXCEPT ![r] = NoTracker]
        /\ Return(w)
        /\ inflight' = inflight - 1
        /\ UNCHANGED <<failed, succeeded, world, main, counts, senders, queues,
                       retry, sem>>

\* Mutant: no Add(1) for the retry.
ScheduleRetryUncounted(w) ==
    LET t == job[w] IN
    /\ pc[w] = "settle" /\ ~ok[w] /\ ~Exhausted(t)
    /\ UpdateEventStatus(t.event, t.retries + 1, "partial")
    /\ timers' = timers \cup
         {[t EXCEPT !.attempt = @ + 1, !.retries = @ + 1]}
    /\ Return(w)
    /\ inflight' = inflight - 1
    /\ UNCHANGED <<failed, succeeded, world, main, counts, senders, queues, firing,
                   heap, sem>>

\* The retry takes its own unit of inflightWg before the worker gives up its own.
ScheduleRetry(w) ==
    LET t == job[w] IN
    /\ pc[w] = "settle" /\ ~ok[w] /\ ~Exhausted(t)
    /\ UpdateEventStatus(t.event, t.retries + 1, "partial")
    /\ timers' = timers \cup
         {[t EXCEPT !.attempt = @ + 1, !.retries = @ + 1]}
    /\ Return(w)
    /\ UNCHANGED <<failed, succeeded, world, main, counts, senders, queues, firing,
                   heap, limits>>

-----------------------------------------------------------------------------
(* The callback of time.AfterFunc.                                         *)

TimerFires(t) ==
    /\ Open /\ t \in timers
    /\ timers' = timers \ {t}
    /\ firing' = firing \cup {t}
    /\ UNCHANGED <<db, world, main, counts, senders, queues, pool, heap, limits>>

\* Mutant: the callback does not look at shutdownCtx.
TimerAbandonsAnyway(t) ==
    /\ t \in timers
    /\ timers' = timers \ {t}
    /\ inflight' = inflight - 1
    /\ UNCHANGED <<db, world, main, counts, senders, queues, pool, firing, heap, sem>>

\* Mutant: an abandoned retry forgets inflightWg.Done.
TimerAbandonsUncounted(t) ==
    /\ ~Open /\ t \in timers
    /\ timers' = timers \ {t}
    /\ UNCHANGED <<db, world, main, counts, senders, queues, pool, firing, heap,
                   limits>>

\* shutdownCtx is cancelled: the retry is abandoned.
TimerAbandons(t) ==
    /\ ~Open /\ t \in timers
    /\ timers' = timers \ {t}
    /\ inflight' = inflight - 1
    /\ UNCHANGED <<db, world, main, counts, senders, queues, pool, firing, heap, sem>>

TimerSends(t) ==
    /\ t \in firing /\ Len(taskQueue) < QueueSize
    /\ firing' = firing \ {t}
    /\ taskQueue' = Append(taskQueue, t)
    /\ UNCHANGED <<db, world, main, counts, senders, chan, dispTasks, pool, timers,
                   heap, limits>>

-----------------------------------------------------------------------------
\* A subscription is added, changed or deleted through the API or the UI.
ChangeTable ==
    /\ phase = "serving" /\ changes < MaxChanges
    /\ table' \in Tables \ {table}
    /\ changes' = changes + 1
    /\ UNCHANGED <<db, accepted, plan, main, counts, senders, queues, pool, retry,
                   heap, limits>>

-----------------------------------------------------------------------------
(* Shutdown and crashes.                                                   *)

\* A signal, the end of srv.Shutdown, then stopDelivery: shutdownCtx is cancelled
\* and DeliveryChan closed.
Stop ==
    /\ phase = "serving" /\ stops < MaxStops
    /\ phase' = "stopping"
    /\ stops' = stops + 1
    /\ UNCHANGED <<db, world, resuming, resumeTasks, crashes, senders, queues, pool,
                   retry, heap, limits>>

\* Mutant: the queue is closed without waiting for inflightWg.
CloseQueueEarly ==
    /\ phase = "stopping" /\ chan = <<>> /\ dispTasks = {}
    /\ phase' = "closed"
    /\ UNCHANGED <<db, world, resuming, resumeTasks, counts, senders, queues, pool,
                   retry, heap, limits>>

\* The dispatcher has drained DeliveryChan and inflightWg.Wait returns.
CloseQueue ==
    /\ phase = "stopping" /\ chan = <<>> /\ dispTasks = {} /\ inflight = 0
    /\ phase' = "closed"
    /\ UNCHANGED <<db, world, resuming, resumeTasks, counts, senders, queues, pool,
                   retry, heap, limits>>

\* The workers' range loops end, stopDelivery returns and so does main.
Exit ==
    /\ phase = "closed" /\ taskQueue = <<>> /\ \A w \in Workers : pc[w] = "idle"
    /\ ProcessEnds
    /\ UNCHANGED counts

Crash ==
    /\ phase # "down" /\ crashes < MaxCrashes
    /\ ProcessEnds
    /\ crashes' = crashes + 1
    /\ UNCHANGED stops

\* An idle server waits for requests.
Rest ==
    /\ phase = "serving" /\ posting = {} /\ feed = {} /\ chan = <<>>
    /\ dispTasks = {} /\ inflight = 0
    /\ UNCHANGED vars

-----------------------------------------------------------------------------
Resume == (\E c \in resuming : ResumePartialEvent(c)) \/ (\E t \in resumeTasks : ResumeEnqueue(t))
Handlers == \E c \in posting : HandlerSend(c) \/ HandlerPanic(c)
Feeder == (\E c \in feed : FeedSend(c)) \/ FeedPanic
Dispatcher == DispatchEvent \/ (\E t \in dispTasks : DispatchEnqueue(t)) \/ CloseQueue
Worker(w) ==
    \/ Take(w) \/ Acquire(w) \/ (\E good \in BOOLEAN : Deliver(w, good))
    \/ RecordAttempt(w) \/ RecordResult(w) \/ FinalizeEvent(w) \/ ScheduleRetry(w)
Timers ==
    \/ \E t \in timers : TimerFires(t) \/ TimerAbandons(t)
    \/ \E t \in firing : TimerSends(t)

Next ==
    \/ Boot \/ Resume \/ Serve
    \/ \E e \in Events : Publish(e)
    \/ Handlers \/ Feeder \/ Dispatcher
    \/ \E w \in Workers : Worker(w)
    \/ Timers
    \/ ChangeTable \/ Stop \/ Exit \/ Crash \/ Rest

Spec == Init /\ [][Next]_vars

\* Goroutines are scheduled, timers fire, a POST ends within its timeout, and an
\* operator (or its supervisor) starts the process again.
Fairness ==
    /\ WF_vars(Boot) /\ WF_vars(Resume) /\ WF_vars(Serve)
    /\ WF_vars(Handlers) /\ WF_vars(Feeder) /\ WF_vars(Dispatcher)
    /\ \A w \in Workers : WF_vars(Worker(w))
    /\ WF_vars(Timers) /\ WF_vars(Exit)

FairSpec == Spec /\ Fairness

-----------------------------------------------------------------------------
(* Properties.                                                             *)

Elems(q) == {q[i] : i \in 1..Len(q)}

Busy == {w \in Workers : pc[w] # "idle"}

Unfinished == {"pending", "partial"}
Final == {"delivered", "failed", "recorded"}

\* The copies of events, and the tasks, that the process holds in memory.
HeldCopies == posting \cup feed \cup resuming \cup Elems(chan)
HeldTasks == dispTasks \cup resumeTasks \cup Elems(taskQueue) \cup timers \cup firing
               \cup {job[w] : w \in Busy}
Held(e) == (\E c \in HeldCopies : c.event = e) \/ (\E t \in HeldTasks : t.event = e)

\* Every variable has its type; DeliveryChan and taskQueue stay within their
\* buffers and inflightWg never goes below zero, which would panic.
TypeOK ==
    /\ status \in [Events -> {"none"} \cup Unfinished \cup Final]
    /\ retries \in [Events -> Nat]
    /\ failed \in [Events -> [Subscribers -> Nat]]
    /\ succeeded \in [Events -> [Subscribers -> Nat]]
    /\ accepted \subseteq Events \X Subscribers
    /\ plan \in [Events -> SUBSET Subscriptions]
    /\ table \in Tables
    /\ changes \in 0..MaxChanges
    /\ phase \in {"down", "booting", "serving", "stopping", "closed"}
    /\ posting \subseteq Copies /\ feed \subseteq Copies /\ resuming \subseteq Copies
    /\ chan \in Seq(Copies) /\ Len(chan) <= ChanSize
    /\ resumeTasks \subseteq Tasks /\ dispTasks \subseteq Tasks
    /\ taskQueue \in Seq(Tasks) /\ Len(taskQueue) <= QueueSize
    /\ pc \in [Workers -> {"idle", "acquire", "send", "insert", "settle", "finalize"}]
    /\ job \in [Workers -> Tasks \cup {NoTask}]
    /\ \A w \in Workers : pc[w] # "idle" => job[w] \in Tasks
    /\ ok \in [Workers -> BOOLEAN]
    /\ timers \subseteq Tasks /\ firing \subseteq Tasks
    /\ trackers \in [Runs -> Trackers \cup {NoTracker}]
    /\ registry \in [Events -> Runs \cup {NoRun}]
    /\ sem \in [Subscribers -> Nat]
    /\ inflight \in Nat
    /\ stops \in Nat /\ crashes \in Nat

\* What the process holds in memory is unfinished in the database, so that a crash
\* at any point leaves it to the next ResumeUnfinishedDeliveries.
HeldIsResumable == \A e \in Events : Held(e) => status[e] \in Unfinished

\* docs/concepts.md: "All matching subscribers received the event successfully."
DeliveredToAll ==
    \A e \in Events : status[e] = "delivered" =>
        \A s \in Audience(e) : <<e, s>> \in accepted

\* docs/concepts.md: a failed event has a subscriber that "exhausted all retries":
\* its attempts are on record, one more than its retry limit.
FailedMeansExhausted ==
    (~DbMayFail /\ ~CacheMayFail) =>
        \A e \in Events : status[e] = "failed" /\ plan[e] # {} =>
            \E b \in plan[e] : failed[e][Owner[b]] > MaxRetries(b)

\* Without a replay a final status is never overwritten, by a late retry's
\* "partial", by a second finalization or by a resume after a restart.
FinalIsFinal ==
    [][\A e \in Events : status[e] \in Final => status'[e] = status[e]]_vars

\* When close(taskQueue) happens nobody can still send on it (a send would panic)
\* and nobody is in the middle of a task.
SafeClose ==
    phase = "closed" =>
        /\ dispTasks = {} /\ resumeTasks = {} /\ timers = {} /\ firing = {}
        /\ taskQueue = <<>> /\ Busy = {}

\* The POSTs in progress to a subscriber are never more than its max_parallel.
MaxParallelRespected ==
    \A s \in Subscribers :
        Cardinality({w \in Busy : pc[w] \in {"send", "insert"} /\ Owner[job[w].sub] = s})
            <= MaxParallel[s]

\* An event is worked on for a subscriber by one task at a time: no copy of it is
\* dispatched twice in the life of a process, no retry overtakes its predecessor.
OneTaskPerSubscriber ==
    /\ \A t, u \in HeldTasks :
          t.event = u.event /\ Owner[t.sub] = Owner[u.sub] => t = u
    /\ \A v, w \in Busy : job[v] = job[w] => v = w

\* As long as the process has only been stopped gracefully and no write is lost, an
\* event is not posted again to a subscriber whose 2xx is on record: draining leaves
\* no event pending that somebody has already received.
NoRedelivery ==
    crashes = 0 /\ ~DbMayFail => \A w \in Busy : pc[w] \in {"send", "insert"} =>
        succeeded[job[w].event][Owner[job[w].sub]] = 0

\* A subscriber's failed attempts at an event outnumber its retry limit, with the first
\* attempt, by no more than the restarts: a task resumed from failures on record may
\* have no retry left and is posted all the same, and what failed while the event was
\* still "pending" is not counted.
AttemptsBounded ==
    ~DbMayFail => \A e \in Events, s \in Subscribers : failed[e][s] > 0 =>
        \E b \in Subscriptions :
            Owner[b] = s /\ failed[e][s] <= MaxRetries(b) + 1 + stops + crashes

\* main.go: at shutdown the "Dispatcher drains buffered events and waits for all
\* workers": a process that is not killed leaves no buffered event or task behind.
StopsDrained ==
    [][phase = "stopping" /\ phase' = "down" => chan = <<>> /\ HeldTasks = {}]_vars

\* Every event accepted by the API gets a final status.
Settles == \A e \in Events : status[e] = "pending" ~> status[e] \in Final

\* stopDelivery returns: the process ends after a graceful stop.
StopEnds == phase = "stopping" ~> phase = "down"

-----------------------------------------------------------------------------
\* What the pipeline promises, whatever crashes, restarts and errors do.
Contract == INSTANCE EventContract WITH
    audience <- [e \in Events |-> Audience(e)],
    current <- [e \in Events |-> {Owner[b] : b \in Chosen(e)}]

\* The pipeline implements the contract: every step of every goroutine, and every
\* crash, is a step of EventContract or leaves its variables alone.
ImplementsContract == Contract!Spec
=============================================================================
