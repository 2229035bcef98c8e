--------------------------- MODULE DeliveryProofs ---------------------------
(***************************************************************************)
(* Safety of the delivery pipeline for all values of its constants.        *)
(*                                                                         *)
(* The inductive invariant Inv says of every task the process holds that   *)
(* its tracker is in use and awaits it (Awaited), and that it is held in   *)
(* one place only (OnePlace); that is what makes a complete tracker one    *)
(* with no task left, so that finalizing it abandons nothing.  CountInv    *)
(* adds what the semaphores and inflightWg count: the POSTs in progress,   *)
(* and the tasks, retries and workers under way.                           *)
(***************************************************************************)
EXTENDS Delivery, FiniteSetTheorems, TLAPS

-----------------------------------------------------------------------------
(* The invariant.                                                          *)

\* TypeOK without the lower bounds of the two counters, which rest on Inv.
Types ==
    /\ status \in [Events -> {"none"} \cup Unfinished \cup Final]
    /\ retries \in [Events -> Nat]
    /\ failed \in [Events -> [Subscribers -> Nat]]
    /\ succeeded \in [Events -> [Subscribers -> Nat]]
    /\ accepted \subseteq Events \X Subscribers
    /\ plan \in [Events -> SUBSET Subscriptions]
    /\ table \in Tables
    /\ changes \in 0..MaxChanges
    /\ phase \in {"down", "booting", "serving", "stopping", "closed"}
    /\ posting \subseteq Copies /\ feed \subseteq Copies /\ resuming \subseteq Copies
    /\ chan \in Seq(Copies) /\ Len(chan) <= ChanSize
    /\ resumeTasks \subseteq Tasks /\ dispTasks \subseteq Tasks
    /\ taskQueue \in Seq(Tasks) /\ Len(taskQueue) <= QueueSize
    /\ pc \in [Workers -> {"idle", "acquire", "send", "insert", "settle", "finalize"}]
    /\ job \in [Workers -> Tasks \cup {NoTask}]
    /\ \A w \in Workers : pc[w] # "idle" => job[w] \in Tasks
    /\ ok \in [Workers -> BOOLEAN]
    /\ timers \subseteq Tasks /\ firing \subseteq Tasks
    /\ trackers \in [Runs -> Trackers \cup {NoTracker}]
    /\ registry \in [Events -> Runs \cup {NoRun}]
    /\ sem \in [Subscribers -> Int]
    /\ inflight \in Int
    /\ stops \in Nat /\ crashes \in Nat

\* Tasks are told apart by their tracker and their subscription.
Same(t, u) == t.run = u.run /\ t.sub = u.sub

Alone(A) == \A t, u \in A : Same(t, u) => t = u
Apart(A, B) == \A t \in A, u \in B : ~Same(t, u)
Distinct(q) == \A i, j \in 1..Len(q) : Same(q[i], q[j]) => i = j

Working == {job[w] : w \in Busy}
Waiting == dispTasks \cup resumeTasks \cup Elems(taskQueue) \cup timers \cup firing

\* A task is in one place: a sender's, the queue, a worker's or a timer's.
OnePlace ==
    /\ Alone(dispTasks) /\ Alone(resumeTasks) /\ Alone(timers) /\ Alone(firing)
    /\ Distinct(taskQueue)
    /\ \A v, w \in Busy : Same(job[v], job[w]) => v = w
    /\ Apart(dispTasks, resumeTasks \cup Elems(taskQueue) \cup Working \cup timers \cup firing)
    /\ Apart(resumeTasks, Elems(taskQueue) \cup Working \cup timers \cup firing)
    /\ Apart(Elems(taskQueue), Working \cup timers \cup firing)
    /\ Apart(Working, timers \cup firing)
    /\ Apart(timers, firing)

\* The tracker of a task is in use and waits for its result.
Awaited ==
    /\ \A t \in Waiting \cup Working :
          /\ trackers[t.run] # NoTracker
          /\ trackers[t.run].event = t.event
          /\ t.sub \in trackers[t.run].expected
    /\ \A t \in Waiting : t.sub \notin DOMAIN trackers[t.run].results
    /\ \A w \in Busy : pc[w] # "finalize" =>
          job[w].sub \notin DOMAIN trackers[job[w].run].results

\* A tracker collects results it expects; when it is complete one worker finalizes it.
Collected ==
    /\ \A r \in Runs : trackers[r] # NoTracker =>
          DOMAIN trackers[r].results \subseteq trackers[r].expected
    /\ \A w \in Workers : pc[w] = "finalize" =>
          DOMAIN trackers[job[w].run].results = trackers[job[w].run].expected
    /\ \A v, w \in Workers :
          pc[v] = "finalize" /\ pc[w] = "finalize" /\ job[v].run = job[w].run => v = w

Inv == Types /\ OnePlace /\ Awaited /\ Collected

-----------------------------------------------------------------------------
(* Queues as sets.                                                         *)

\* Sending on a channel adds the element.
LEMMA AppendElems ==
    ASSUME NEW S, NEW q \in Seq(S), NEW t \in S
    PROVE  /\ Append(q, t) \in Seq(S)
           /\ Len(Append(q, t)) = Len(q) + 1
           /\ Elems(Append(q, t)) = Elems(q) \cup {t}
  BY DEF Elems

\* Receiving takes the first element.
LEMMA TailElems ==
    ASSUME NEW S, NEW q \in Seq(S), q # <<>>
    PROVE  /\ Head(q) \in S /\ Tail(q) \in Seq(S)
           /\ Len(Tail(q)) = Len(q) - 1
           /\ Elems(q) = {Head(q)} \cup Elems(Tail(q))
<1>1. Head(q) = q[1] /\ Tail(q) \in Seq(S) /\ Len(Tail(q)) = Len(q) - 1 /\ Len(q) \in Nat \ {0}
  OBVIOUS
<1>2. \A i \in 1..Len(Tail(q)) : Tail(q)[i] = q[i + 1]
  OBVIOUS
<1>3. \A i \in 1..Len(q) : i = 1 \/ (i - 1 \in 1..Len(Tail(q)) /\ q[i] = Tail(q)[i - 1])
  BY <1>1, <1>2
<1>4. \A x \in Elems(q) : x \in {Head(q)} \cup Elems(Tail(q))
  BY <1>1, <1>3 DEF Elems
<1>5. \A x \in Elems(Tail(q)) : x \in Elems(q)
  <2> SUFFICES ASSUME NEW i \in 1..Len(Tail(q))
               PROVE  Tail(q)[i] \in Elems(q)
    BY DEF Elems
  <2>1. i + 1 \in 1..Len(q) /\ Tail(q)[i] = q[i + 1]
    BY <1>1, <1>2
  <2> QED
    BY <2>1 DEF Elems
<1>6. Head(q) \in Elems(q) /\ Head(q) \in S
  BY <1>1 DEF Elems
<1> QED
  BY <1>1, <1>4, <1>5, <1>6

LEMMA ElemsType ==
    ASSUME NEW S, NEW q \in Seq(S)
    PROVE  Elems(q) \subseteq S
  BY DEF Elems

\* A task unlike all that are queued may join them.
LEMMA AppendDistinct ==
    ASSUME NEW q \in Seq(Tasks), NEW t \in Tasks, Distinct(q),
           \A u \in Elems(q) : ~Same(t, u)
    PROVE  Distinct(Append(q, t))
<1>1. \A i \in 1..Len(q) : ~Same(t, q[i]) /\ ~Same(q[i], t)
  BY DEF Elems, Same
<1> QED
  BY <1>1 DEF Distinct

\* The first task differs from all the others.
LEMMA TailDistinct ==
    ASSUME NEW q \in Seq(Tasks), q # <<>>, Distinct(q)
    PROVE  /\ Distinct(Tail(q))
           /\ \A u \in Elems(Tail(q)) : ~Same(Head(q), u)
<1>1. Len(q) \in Nat \ {0} /\ Len(Tail(q)) = Len(q) - 1 /\ Head(q) = q[1]
  OBVIOUS
<1>2. \A i \in 1..Len(Tail(q)) : i + 1 \in 1..Len(q) /\ Tail(q)[i] = q[i + 1]
  BY <1>1
<1> QED
  BY <1>1, <1>2 DEF Distinct, Elems

-----------------------------------------------------------------------------
(* Types.                                                                  *)

USE DEF db, world, main, counts, senders, queues, pool, retry, heap, limits

LEMMA InitTypes == Init => Types
  BY SubscriptionAssumption, ConfigAssumption DEF Init, Types

\* The tasks built for an event are tasks, and so is its tracker a tracker.
LEMMA TasksForType ==
    ASSUME NEW c \in Copies, NEW r \in Runs, NEW S \in SUBSET Subscriptions,
           NEW prior \in [Subscribers -> Nat]
    PROVE  TasksFor(c, r, S, prior) \subseteq Tasks
  BY SubscriptionAssumption DEF TasksFor, Tasks, Copies

LEMMA NewTrackerType ==
    ASSUME NEW c \in Copies, NEW S \in SUBSET Subscriptions
    PROVE  /\ NewTracker(c, S) \in Trackers
           /\ NewTracker(c, S) # NoTracker
           /\ NewTracker(c, S).event = c.event
           /\ NewTracker(c, S).retries = c.retries
           /\ NewTracker(c, S).expected = S
           /\ DOMAIN NewTracker(c, S).results = {}
<1>1. [b \in {} |-> FALSE] \in [{} -> BOOLEAN]
  OBVIOUS
<1>2. [b \in {} |-> FALSE] \in Results
  BY <1>1 DEF Results
<1> QED
  BY <1>2, NullAssumption DEF NewTracker, Trackers, Copies

\* Recording a result keeps a tracker a tracker.
LEMMA RecordedType ==
    ASSUME NEW f \in Results, NEW b \in Subscriptions, NEW good \in BOOLEAN
    PROVE  /\ Recorded(f, b, good) \in Results
           /\ DOMAIN Recorded(f, b, good) = DOMAIN f \cup {b}
<1>1. PICK S \in SUBSET Subscriptions : f \in [S -> BOOLEAN]
  BY DEF Results
<1>2. Recorded(f, b, good) \in [S \cup {b} -> BOOLEAN]
  BY <1>1 DEF Recorded
<1> QED
  BY <1>1, <1>2 DEF Results, Recorded

\* The subscriptions chosen for an event, or still needed by it.
LEMMA ChosenType ==
    ASSUME Types, NEW e \in Events
    PROVE  /\ Chosen(e) \in SUBSET Subscriptions
           /\ Remaining(e) \in SUBSET Subscriptions
           /\ Remaining(e) \subseteq Chosen(e)
<1>1. \A s : Selected(e, s) \subseteq table
  BY DEF Selected, Candidates, Matching
<1>2. table \subseteq Subscriptions
  BY SubscriptionAssumption DEF Types
<1>3. Chosen(e) \subseteq Subscriptions
  BY <1>1, <1>2 DEF Chosen
<1> QED
  BY <1>3 DEF Remaining

LEMMA StoredCopyType ==
    ASSUME Types, NEW e \in Events
    PROVE  StoredCopy(e) \in Copies
  BY DEF Types, StoredCopy, Copies

\* A write of the status keeps the types of what it writes.
LEMMA StatusWriteType ==
    ASSUME Types, NEW e \in Events, NEW rc \in Nat,
           NEW st \in {"none"} \cup Unfinished \cup Final,
           UpdateEventStatus(e, rc, st)
    PROVE  /\ status' \in [Events -> {"none"} \cup Unfinished \cup Final]
           /\ retries' \in [Events -> Nat]
  BY DEF Types, UpdateEventStatus

\* A task returns to the pool of idle workers.
LEMMA ReturnType ==
    ASSUME Types, NEW w \in Workers, Return(w)
    PROVE  /\ pc' \in [Workers -> {"idle", "acquire", "send", "insert", "settle", "finalize"}]
           /\ job' \in [Workers -> Tasks \cup {NoTask}]
           /\ \A v \in Workers : pc'[v] # "idle" => job'[v] \in Tasks
           /\ ok' \in [Workers -> BOOLEAN]
  BY DEF Types, Return, Goto

\* A worker goes on with its task.
LEMMA GotoType ==
    ASSUME Types, NEW w \in Workers, pc[w] # "idle", UNCHANGED job,
           NEW l \in {"acquire", "send", "insert", "settle", "finalize"}, Goto(w, l)
    PROVE  /\ pc' \in [Workers -> {"idle", "acquire", "send", "insert", "settle", "finalize"}]
           /\ \A v \in Workers : pc'[v] # "idle" => job'[v] \in Tasks
  BY DEF Types, Goto

\* A semaphore takes or gives back a token.
LEMMA SemType ==
    ASSUME Types, NEW s \in Subscribers,
           sem' = [sem EXCEPT ![s] = sem[s] + 1] \/ sem' = [sem EXCEPT ![s] = sem[s] - 1]
    PROVE  sem' \in [Subscribers -> Int]
<1>1. sem \in [Subscribers -> Int] /\ sem[s] \in Int
  BY DEF Types
<1>2. sem[s] + 1 \in Int /\ sem[s] - 1 \in Int
  BY <1>1
<1> QED
  BY <1>1, <1>2

\* An attempt is counted.
LEMMA InsertAttemptType ==
    ASSUME Types, NEW e \in Events, NEW s \in Subscribers, NEW good, InsertAttempt(e, s, good)
    PROVE  /\ failed' \in [Events -> [Subscribers -> Nat]]
           /\ succeeded' \in [Events -> [Subscribers -> Nat]]
<1>1. ASSUME NEW f \in [Events -> [Subscribers -> Nat]]
      PROVE  [f EXCEPT ![e][s] = @ + 1] \in [Events -> [Subscribers -> Nat]]
  <2>1. f[e] \in [Subscribers -> Nat] /\ f[e][s] + 1 \in Nat
    OBVIOUS
  <2>2. [f[e] EXCEPT ![s] = @ + 1] \in [Subscribers -> Nat]
    BY <2>1
  <2> QED
    BY <2>2
<1>2. /\ failed \in [Events -> [Subscribers -> Nat]]
      /\ succeeded \in [Events -> [Subscribers -> Nat]]
  BY DEF Types
<1>3. /\ [failed EXCEPT ![e][s] = @ + 1] \in [Events -> [Subscribers -> Nat]]
      /\ [succeeded EXCEPT ![e][s] = @ + 1] \in [Events -> [Subscribers -> Nat]]
  BY <1>1, <1>2
<1> QED
  BY <1>2, <1>3 DEF InsertAttempt

LEMMA TypesAtStart ==
    ASSUME Inv, Boot \/ Resume \/ Serve
    PROVE  Types'
<1> USE DEF Inv
<1>1. CASE Boot
  <2>1. \A st : Resumable(st) \subseteq Copies
    BY StoredCopyType DEF Resumable
  <2> QED
    BY <1>1, <2>1 DEF Boot, Types
<1>2. CASE Serve
  BY <1>2 DEF Serve, Types
<1>3. ASSUME NEW t \in resumeTasks, ResumeEnqueue(t)
      PROVE  Types'
  <2>1. t \in Tasks /\ taskQueue \in Seq(Tasks)
    BY DEF Types
  <2>2. Append(taskQueue, t) \in Seq(Tasks) /\ Len(Append(taskQueue, t)) = Len(taskQueue) + 1
    BY <2>1, AppendElems
  <2> QED
    BY <1>3, <2>2, ConfigAssumption DEF ResumeEnqueue, Types
<1>4. ASSUME NEW c \in resuming, ResumePartialEvent(c)
      PROVE  Types'
  <2>1. c \in Copies /\ c.event \in Events /\ c.retries \in Nat
    BY DEF Types, Copies
  <2>2. Chosen(c.event) \in SUBSET Subscriptions /\ Remaining(c.event) \in SUBSET Subscriptions
    BY <2>1, ChosenType
  <2>3. resuming' \subseteq Copies
    BY <1>4 DEF ResumePartialEvent, Types
  <2>4. CASE ResumeGivesUp(c)
    BY <1>4, <2>3, <2>4 DEF ResumePartialEvent, ResumeGivesUp, Types
  <2>5. ASSUME NEW st \in {"recorded", "delivered"}, ResumeWithoutTasks(c, st)
        PROVE  Types'
    <3>1. /\ status' \in [Events -> {"none"} \cup Unfinished \cup Final]
          /\ retries' \in [Events -> Nat]
      BY <2>1, <2>5, StatusWriteType DEF ResumeWithoutTasks, Final
    <3> QED
      BY <1>4, <2>2, <2>3, <2>5, <3>1 DEF ResumePartialEvent, ResumeWithoutTasks, Plan, Types
  <2>6. ASSUME NEW r \in Runs, ResumeWithTasks(c, r)
        PROVE  Types'
    <3>1. NewTracker(c, Remaining(c.event)) \in Trackers
      BY <2>1, <2>2, NewTrackerType
    <3>2. failed[c.event] \in [Subscribers -> Nat]
      BY <2>1 DEF Types
    <3>3. TasksFor(c, r, Remaining(c.event), failed[c.event]) \subseteq Tasks
      BY <2>1, <2>2, <3>2, TasksForType
    <3> QED
      BY <1>4, <2>1, <2>2, <2>3, <2>6, <3>1, <3>3 DEF ResumePartialEvent, ResumeWithTasks, Plan, Types
  <2> QED
    BY <1>4, <2>4, <2>5, <2>6 DEF ResumePartialEvent
<1> QED
  BY <1>1, <1>2, <1>3, <1>4 DEF Resume

LEMMA TypesAtDispatch ==
    ASSUME Inv, (\E e \in Events : Publish(e)) \/ Handlers \/ Feeder \/ Dispatcher
    PROVE  Types'
<1> USE DEF Inv
<1>1. ASSUME NEW e \in Events, Publish(e)
      PROVE  Types'
  BY <1>1 DEF Publish, InsertEvent, Types, Copies, Unfinished
<1>2. ASSUME NEW c \in posting, HandlerSend(c)
      PROVE  Types'
  <2>1. c \in Copies /\ chan \in Seq(Copies)
    BY DEF Types
  <2>2. Append(chan, c) \in Seq(Copies) /\ Len(Append(chan, c)) = Len(chan) + 1
    BY <2>1, AppendElems
  <2> QED
    BY <1>2, <2>2, ConfigAssumption DEF HandlerSend, Types
<1>3. ASSUME NEW c \in posting, HandlerPanic(c)
      PROVE  Types'
  BY <1>3 DEF HandlerPanic, Types
<1>4. ASSUME NEW c \in feed, FeedSend(c)
      PROVE  Types'
  <2>1. c \in Copies /\ chan \in Seq(Copies)
    BY DEF Types
  <2>2. Append(chan, c) \in Seq(Copies) /\ Len(Append(chan, c)) = Len(chan) + 1
    BY <2>1, AppendElems
  <2> QED
    BY <1>4, <2>2, ConfigAssumption DEF FeedSend, Types
<1>5. CASE FeedPanic
  BY <1>5, ConfigAssumption DEF FeedPanic, ProcessEnds, Types
<1>6. CASE DispatchEvent
  <2> DEFINE c == Head(chan)
  <2>1. /\ c \in Copies
        /\ Tail(chan) \in Seq(Copies) /\ Len(Tail(chan)) = Len(chan) - 1
    BY <1>6, TailElems DEF DispatchEvent, Types
  <2>2. c.event \in Events /\ c.retries \in Nat
    BY <2>1 DEF Copies
  <2>3. Chosen(c.event) \in SUBSET Subscriptions
    BY <2>2, ChosenType
  <2>4. chan' \in Seq(Copies) /\ Len(chan') <= ChanSize
    BY <1>6, <2>1, ConfigAssumption DEF DispatchEvent, Types
  <2> HIDE DEF c
  <2>5. ASSUME NEW st \in {"failed", "recorded"}, UpdateEventStatus(c.event, c.retries, st)
        PROVE  /\ status' \in [Events -> {"none"} \cup Unfinished \cup Final]
               /\ retries' \in [Events -> Nat]
    BY <2>2, <2>5, StatusWriteType DEF Final
  <2>6. CASE UpdateEventStatus(c.event, c.retries, "failed") /\ UNCHANGED <<plan, dispTasks, heap>>
    BY <1>6, <2>4, <2>5, <2>6 DEF DispatchEvent, Types
  <2>7. ASSUME NEW st \in {"failed", "recorded"}, DispatchWithoutTasks(c, st)
        PROVE  Types'
    BY <1>6, <2>3, <2>4, <2>5, <2>7 DEF DispatchEvent, DispatchWithoutTasks, Plan, Types
  <2>8. ASSUME NEW r \in Runs, DispatchWithTasks(c, r)
        PROVE  Types'
    <3>1. NewTracker(c, Chosen(c.event)) \in Trackers
      BY <2>1, <2>3, NewTrackerType
    <3>2. NoPrior \in [Subscribers -> Nat]
      BY DEF NoPrior
    <3>3. TasksFor(c, r, Chosen(c.event), NoPrior) \subseteq Tasks
      BY <2>1, <2>3, <3>2, TasksForType
    <3> QED
      BY <1>6, <2>2, <2>3, <2>4, <2>8, <3>1, <3>3 DEF DispatchEvent, DispatchWithTasks, Plan, Types
  <2> QED
    BY <1>6, <2>6, <2>7, <2>8 DEF DispatchEvent, c
<1>7. ASSUME NEW t \in dispTasks, DispatchEnqueue(t)
      PROVE  Types'
  <2>1. t \in Tasks /\ taskQueue \in Seq(Tasks)
    BY DEF Types
  <2>2. Append(taskQueue, t) \in Seq(Tasks) /\ Len(Append(taskQueue, t)) = Len(taskQueue) + 1
    BY <2>1, AppendElems
  <2> QED
    BY <1>7, <2>2, ConfigAssumption DEF DispatchEnqueue, Types
<1>8. CASE CloseQueue
  BY <1>8 DEF CloseQueue, Types
<1> QED
  BY <1>1, <1>2, <1>3, <1>4, <1>5, <1>6, <1>7, <1>8 DEF Handlers, Feeder, Dispatcher

\* The tracker of a working task is in use.
LEMMA TrackerOfWork ==
    ASSUME Inv, NEW w \in Workers, pc[w] # "idle"
    PROVE  /\ job[w] \in Tasks /\ job[w] \in Working
           /\ job[w].event \in Events /\ job[w].sub \in Subscriptions
           /\ job[w].run \in Runs /\ job[w].retries \in Nat /\ job[w].attempt \in Nat
           /\ Owner[job[w].sub] \in Subscribers
           /\ trackers[job[w].run] \in Trackers
           /\ trackers[job[w].run] # NoTracker
           /\ trackers[job[w].run].event = job[w].event
           /\ trackers[job[w].run].retries \in Nat
           /\ trackers[job[w].run].results \in Results
           /\ job[w].sub \in trackers[job[w].run].expected
           /\ trackers[job[w].run].expected \in SUBSET Subscriptions
<1>1. w \in Busy /\ job[w] \in Working
  BY DEF Busy, Working
<1>2. job[w] \in Tasks
  BY DEF Inv, Types
<1>3. job[w].event \in Events /\ job[w].sub \in Subscriptions /\ job[w].run \in Runs
         /\ job[w].retries \in Nat /\ job[w].attempt \in Nat
  BY <1>2 DEF Tasks
<1>4. trackers[job[w].run] # NoTracker /\ trackers[job[w].run].event = job[w].event
         /\ job[w].sub \in trackers[job[w].run].expected
  BY <1>1 DEF Inv, Awaited
<1>5. trackers[job[w].run] \in Trackers
  BY <1>3, <1>4 DEF Inv, Types
<1> QED
  BY <1>1, <1>2, <1>3, <1>4, <1>5, SubscriptionAssumption DEF Trackers

\* The task of a retry: the same task, one attempt later.
LEMMA RetryType ==
    ASSUME NEW t \in Tasks
    PROVE  \E u \in Tasks :
              /\ u = [t EXCEPT !.attempt = @ + 1, !.retries = @ + 1]
              /\ u.event = t.event /\ u.sub = t.sub /\ u.run = t.run
              /\ u.retries = t.retries + 1 /\ u.attempt = t.attempt + 1
<1> DEFINE v == [t EXCEPT !.attempt = @ + 1]
           u == [v EXCEPT !.retries = @ + 1]
<1>1. v \in Tasks /\ v.event = t.event /\ v.sub = t.sub /\ v.run = t.run
      /\ v.retries = t.retries /\ v.attempt = t.attempt + 1
  BY DEF Tasks
<1> HIDE DEF v
<1>2. u \in Tasks /\ u.event = v.event /\ u.sub = v.sub /\ u.run = v.run
      /\ u.retries = v.retries + 1 /\ u.attempt = v.attempt
  BY <1>1 DEF Tasks
<1> USE DEF v
<1>3. u = [t EXCEPT !.attempt = @ + 1, !.retries = @ + 1]
  BY DEF Tasks
<1> HIDE DEF u, v
<1> QED
  BY <1>1, <1>2, <1>3

\* A tracker with one more result.
WithResult(t, b, good) == [t EXCEPT !.results = Recorded(@, b, good)]

LEMMA TrackerWithResult ==
    ASSUME NEW t \in Trackers, NEW b \in Subscriptions, NEW good \in BOOLEAN
    PROVE  LET u == WithResult(t, b, good)
           IN  /\ u \in Trackers /\ u # NoTracker
               /\ u.event = t.event /\ u.retries = t.retries /\ u.expected = t.expected
               /\ u.results = Recorded(t.results, b, good)
               /\ DOMAIN u.results = DOMAIN t.results \cup {b}
<1>1. t.results \in Results
  BY DEF Trackers
<1>2. Recorded(t.results, b, good) \in Results
         /\ DOMAIN Recorded(t.results, b, good) = DOMAIN t.results \cup {b}
  BY <1>1, RecordedType
<1> QED
  BY <1>2, NullAssumption DEF Trackers, WithResult

LEMMA TypesAtWork ==
    ASSUME Inv, NEW w \in Workers, Worker(w)
    PROVE  Types'
<1> USE DEF Inv
<1>1. CASE Take(w)
  <2>1. /\ Head(taskQueue) \in Tasks
        /\ Tail(taskQueue) \in Seq(Tasks) /\ Len(Tail(taskQueue)) = Len(taskQueue) - 1
    BY <1>1, TailElems DEF Take, Types
  <2> QED
    BY <1>1, <2>1, ConfigAssumption DEF Take, Goto, Types
<1>2. CASE Acquire(w)
  <2>1. Owner[job[w].sub] \in Subscribers
    BY <1>2, TrackerOfWork DEF Acquire
  <2>2. sem[Owner[job[w].sub]] \in Int
    BY <2>1 DEF Types
  <2>3. sem' = [sem EXCEPT ![Owner[job[w].sub]] = sem[Owner[job[w].sub]] + 1]
    BY <1>2 DEF Acquire
  <2>4. sem' \in [Subscribers -> Int]
    BY <2>1, <2>2, <2>3, SemType
  <2> QED
    BY <1>2, <2>4, GotoType DEF Acquire, Types
<1>3. ASSUME NEW good \in BOOLEAN, Deliver(w, good)
      PROVE  Types'
  <2>1. job[w].event \in Events /\ Owner[job[w].sub] \in Subscribers
    BY <1>3, TrackerOfWork DEF Deliver
  <2>2. accepted' \subseteq Events \X Subscribers
    BY <1>3, <2>1 DEF Deliver, Types
  <2>3. ok' \in [Workers -> BOOLEAN]
    BY <1>3 DEF Deliver, Types
  <2>4. /\ pc' \in [Workers -> {"idle", "acquire", "send", "insert", "settle", "finalize"}]
        /\ \A v \in Workers : pc'[v] # "idle" => job'[v] \in Tasks
    BY <1>3, GotoType DEF Deliver
  <2> QED
    BY <1>3, <2>2, <2>3, <2>4 DEF Deliver, Types
<1>4. CASE RecordAttempt(w)
  <2>1. job[w].event \in Events /\ Owner[job[w].sub] \in Subscribers
    BY <1>4, TrackerOfWork DEF RecordAttempt
  <2>2. /\ failed' \in [Events -> [Subscribers -> Nat]]
        /\ succeeded' \in [Events -> [Subscribers -> Nat]]
    BY <1>4, <2>1, InsertAttemptType DEF RecordAttempt
  <2>3. sem[Owner[job[w].sub]] \in Int
    BY <2>1 DEF Types
  <2>4. sem' = [sem EXCEPT ![Owner[job[w].sub]] = sem[Owner[job[w].sub]] - 1]
    BY <1>4 DEF RecordAttempt
  <2>5. sem' \in [Subscribers -> Int]
    BY <2>1, <2>3, <2>4, SemType
  <2> QED
    BY <1>4, <2>2, <2>5, GotoType DEF RecordAttempt, Types
<1>5. CASE RecordResult(w)
  <2> DEFINE tracker == WithResult(trackers[job[w].run], job[w].sub, ok[w])
  <2>1. trackers[job[w].run] \in Trackers /\ job[w].sub \in Subscriptions /\ ok[w] \in BOOLEAN
    BY <1>5, TrackerOfWork DEF RecordResult, Types
  <2>2. tracker \in Trackers
    BY <2>1, TrackerWithResult
  <2>3. trackers' = [trackers EXCEPT ![job[w].run] = tracker]
    BY <1>5 DEF RecordResult, WithResult
  <2>4. trackers' \in [Runs -> Trackers \cup {NoTracker}]
    BY <2>2, <2>3 DEF Types
  <2> HIDE DEF tracker
  <2>5. CASE Goto(w, "finalize") /\ UNCHANGED <<job, ok, inflight>>
    BY <1>5, <2>4, <2>5 DEF RecordResult, Goto, Types
  <2>6. CASE Return(w) /\ inflight' = inflight - 1
    <3>1. UNCHANGED <<db, world, main, counts, senders, queues, retry, registry, sem>>
      BY <1>5 DEF RecordResult
    <3>2. inflight' \in Int
      BY <2>6 DEF Types
    <3> QED
      BY <2>4, <2>6, <3>1, <3>2, ReturnType DEF Types
  <2> QED
    BY <1>5, <2>5, <2>6 DEF RecordResult
<1>6. CASE FinalizeEvent(w)
  <2> DEFINE t == trackers[job[w].run]
  <2>1. t.event \in Events /\ t.retries \in Nat
    BY <1>6, TrackerOfWork DEF FinalizeEvent
  <2>2. FinalStatus(t) \in Final
    BY DEF FinalStatus, Final
  <2>3. UpdateEventStatus(t.event, t.retries, FinalStatus(t))
    BY <1>6 DEF FinalizeEvent
  <2> HIDE DEF t
  <2>4. /\ status' \in [Events -> {"none"} \cup Unfinished \cup Final]
        /\ retries' \in [Events -> Nat]
    BY <2>1, <2>2, <2>3, StatusWriteType
  <2> QED
    <3>1. /\ UNCHANGED <<failed, succeeded, world, main, counts, senders, queues, retry, sem>>
          /\ Return(w)
      BY <1>6 DEF FinalizeEvent
    <3>2. /\ inflight' = inflight - 1
          /\ registry' = [registry EXCEPT ![t.event] = NoRun]
          /\ trackers' = [trackers EXCEPT ![job[w].run] = NoTracker]
      BY <1>6 DEF FinalizeEvent, t
    <3>3. inflight' \in Int
      BY <3>2 DEF Types
    <3>4. registry' \in [Events -> Runs \cup {NoRun}]
      BY <2>1, <3>2 DEF Types
    <3>5. trackers' \in [Runs -> Trackers \cup {NoTracker}]
      BY <3>2 DEF Types
    <3> QED
      BY <2>4, <3>1, <3>3, <3>4, <3>5, ReturnType DEF Types
<1>7. CASE ScheduleRetry(w)
  <2>1. job[w] \in Tasks /\ job[w].event \in Events /\ job[w].retries \in Nat
    BY <1>7, TrackerOfWork DEF ScheduleRetry
  <2>2. /\ status' \in [Events -> {"none"} \cup Unfinished \cup Final]
        /\ retries' \in [Events -> Nat]
    BY <1>7, <2>1, StatusWriteType DEF ScheduleRetry, Unfinished
  <2>3. [job[w] EXCEPT !.attempt = @ + 1, !.retries = @ + 1] \in Tasks
    BY <2>1, RetryType
  <2> QED
    BY <1>7, <2>2, <2>3, ReturnType DEF ScheduleRetry, Types
<1> QED
  BY <1>1, <1>2, <1>3, <1>4, <1>5, <1>6, <1>7 DEF Worker

LEMMA TypesElsewhere ==
    ASSUME Inv, Timers \/ ChangeTable \/ Stop \/ Exit \/ Crash \/ Rest \/ UNCHANGED vars
    PROVE  Types'
<1> USE DEF Inv
<1>1. ASSUME NEW t \in timers, TimerFires(t)
      PROVE  Types'
  BY <1>1 DEF TimerFires, Types
<1>2. ASSUME NEW t \in timers, TimerAbandons(t)
      PROVE  Types'
  BY <1>2 DEF TimerAbandons, Types
<1>3. ASSUME NEW t \in firing, TimerSends(t)
      PROVE  Types'
  <2>1. t \in Tasks /\ taskQueue \in Seq(Tasks)
    BY DEF Types
  <2>2. Append(taskQueue, t) \in Seq(Tasks) /\ Len(Append(taskQueue, t)) = Len(taskQueue) + 1
    BY <2>1, AppendElems
  <2> QED
    BY <1>3, <2>2, ConfigAssumption DEF TimerSends, Types
<1>4. CASE ChangeTable
  BY <1>4, ConfigAssumption DEF ChangeTable, Types
<1>5. CASE Stop
  BY <1>5 DEF Stop, Types
<1>6. CASE Exit
  BY <1>6, ConfigAssumption DEF Exit, ProcessEnds, Types
<1>7. CASE Crash
  BY <1>7, ConfigAssumption DEF Crash, ProcessEnds, Types
<1>8. CASE Rest \/ UNCHANGED vars
  BY <1>8 DEF Rest, vars, Types
<1> QED
  BY <1>1, <1>2, <1>3, <1>4, <1>5, <1>6, <1>7, <1>8 DEF Timers

LEMMA NextTypes == Inv /\ [Next]_vars => Types'
  BY TypesAtStart, TypesAtDispatch, TypesAtWork, TypesElsewhere DEF Next
-----------------------------------------------------------------------------
(* Tasks and trackers.                                                     *)

Tidy == OnePlace /\ Awaited /\ Collected

\* A step that leaves the tasks and the trackers alone.
LEMMA TidyUntouched ==
    ASSUME Inv, UNCHANGED <<dispTasks, resumeTasks, taskQueue, pc, job, timers, firing, trackers>>
    PROVE  Tidy'
  BY DEF Inv, Tidy, OnePlace, Awaited, Collected, Busy, Working, Waiting, Elems,
         Alone, Apart, Distinct, Same

\* The process has no task and no tracker.
LEMMA TidyEmpty ==
    ASSUME ProcessEnds
    PROVE  Tidy'
<1>1. /\ dispTasks' = {} /\ resumeTasks' = {} /\ timers' = {} /\ firing' = {}
      /\ taskQueue' = <<>>
      /\ \A w \in Workers : pc'[w] = "idle"
      /\ \A r \in Runs : trackers'[r] = NoTracker
  BY DEF ProcessEnds
<1>2. Busy' = {} /\ Working' = {} /\ Elems(taskQueue)' = {} /\ Waiting' = {}
  BY <1>1 DEF Busy, Working, Waiting, Elems
<1> QED
  BY <1>1, <1>2 DEF Tidy, OnePlace, Awaited, Collected, Alone, Apart, Distinct

LEMMA InitTidy == Init => Tidy
<1> SUFFICES ASSUME Init PROVE Tidy
  OBVIOUS
<1>1. Busy = {} /\ Working = {} /\ Elems(taskQueue) = {} /\ Waiting = {}
  BY DEF Init, Busy, Working, Waiting, Elems
<1> QED
  BY <1>1 DEF Init, Tidy, OnePlace, Awaited, Collected, Alone, Apart, Distinct

\* A worker goes on with its task.
LEMMA TidyGoesOn ==
    ASSUME Inv, NEW w \in Workers, pc[w] \notin {"idle", "finalize"},
           NEW l \in {"acquire", "send", "insert", "settle"}, Goto(w, l),
           UNCHANGED <<dispTasks, resumeTasks, taskQueue, job, timers, firing, trackers>>
    PROVE  Tidy'
<1>1. Busy' = Busy /\ Working' = Working /\ Waiting' = Waiting
  BY DEF Inv, Types, Busy, Working, Waiting, Goto, Elems
<1>2. OnePlace'
  BY <1>1 DEF Inv, OnePlace, Alone, Apart, Distinct, Same, Elems
<1>3. Awaited'
  BY <1>1 DEF Inv, Types, Awaited, Goto, Busy
<1>4. Collected'
  BY DEF Inv, Types, Collected, Goto
<1> QED
  BY <1>2, <1>3, <1>4 DEF Tidy

\* A sender, a source of tasks, hands one of them to taskQueue.
LEMMA TidyQueued ==
    ASSUME Inv, NEW t, taskQueue' = Append(taskQueue, t),
           UNCHANGED <<pc, job, trackers>>,
           \/ /\ t \in dispTasks /\ dispTasks' = dispTasks \ {t}
              /\ UNCHANGED <<resumeTasks, timers, firing>>
           \/ /\ t \in resumeTasks /\ resumeTasks' = resumeTasks \ {t}
              /\ UNCHANGED <<dispTasks, timers, firing>>
           \/ /\ t \in firing /\ firing' = firing \ {t}
              /\ UNCHANGED <<dispTasks, resumeTasks, timers>>
    PROVE  Tidy'
<1>1. t \in Tasks /\ taskQueue \in Seq(Tasks)
  BY DEF Inv, Types
<1>2. Elems(taskQueue)' = Elems(taskQueue) \cup {t}
  BY <1>1, AppendElems
<1>3. Busy' = Busy /\ Working' = Working /\ Waiting' = Waiting
  BY <1>2 DEF Busy, Working, Waiting
<1>4. \A u \in Elems(taskQueue) : ~Same(t, u)
  BY DEF Inv, OnePlace, Apart, Same
<1>5. Distinct(taskQueue')
  BY <1>1, <1>4, AppendDistinct DEF Inv, OnePlace
<1>6. OnePlace'
  <2>1. CASE t \in dispTasks /\ dispTasks' = dispTasks \ {t}
             /\ UNCHANGED <<resumeTasks, timers, firing>>
    BY <2>1, <1>2, <1>3, <1>5 DEF Inv, OnePlace, Alone, Apart, Same
  <2>2. CASE t \in resumeTasks /\ resumeTasks' = resumeTasks \ {t}
             /\ UNCHANGED <<dispTasks, timers, firing>>
    BY <2>2, <1>2, <1>3, <1>5 DEF Inv, OnePlace, Alone, Apart, Same
  <2>3. CASE t \in firing /\ firing' = firing \ {t}
             /\ UNCHANGED <<dispTasks, resumeTasks, timers>>
    BY <2>3, <1>2, <1>3, <1>5 DEF Inv, OnePlace, Alone, Apart, Same
  <2> QED
    BY <2>1, <2>2, <2>3
<1>7. Awaited' /\ Collected'
  BY <1>3 DEF Inv, Awaited, Collected
<1> QED
  BY <1>6, <1>7 DEF Tidy

\* A worker takes the first task of the queue.
LEMMA TidyTake ==
    ASSUME Inv, NEW w \in Workers, Take(w)
    PROVE  Tidy'
<1> DEFINE t == Head(taskQueue)
<1>1. /\ t \in Tasks /\ taskQueue \in Seq(Tasks)
      /\ Elems(taskQueue) = {t} \cup Elems(Tail(taskQueue))
      /\ taskQueue' = Tail(taskQueue)
  BY TailElems DEF Take, Inv, Types
<1>2. /\ Distinct(Tail(taskQueue))
      /\ \A u \in Elems(Tail(taskQueue)) : ~Same(t, u)
  BY <1>1, TailDistinct DEF Take, Inv, OnePlace
<1>3. /\ w \notin Busy /\ Busy' = Busy \cup {w}
      /\ job'[w] = t /\ \A v \in Busy : job'[v] = job[v] /\ pc'[v] = pc[v]
      /\ pc'[w] = "acquire"
  BY DEF Take, Goto, Inv, Types, Busy
<1>4. Working' = Working \cup {t}
  BY <1>3 DEF Working
<1>5. /\ Elems(taskQueue)' \subseteq Elems(taskQueue)
      /\ t \in Elems(taskQueue)
      /\ UNCHANGED <<dispTasks, resumeTasks, timers, firing, trackers>>
  BY <1>1 DEF Take
<1> HIDE DEF t
<1>6. OnePlace'
  <2>1. \A v, x \in Busy' : Same(job'[v], job'[x]) => v = x
    BY <1>3, <1>5 DEF Inv, OnePlace, Apart, Working, Same
  <2> QED
    BY <1>1, <1>2, <1>4, <1>5, <2>1 DEF Inv, OnePlace, Alone, Apart, Same
<1>7. Awaited'
  BY <1>3, <1>4, <1>5 DEF Inv, Awaited, Waiting
<1>8. Collected'
  <2>1. \A v \in Workers \ {w} : pc'[v] = pc[v] /\ job'[v] = job[v]
    BY DEF Take, Goto, Inv, Types
  <2> QED
    BY <1>3, <1>5, <2>1 DEF Inv, Collected
<1> QED
  BY <1>6, <1>7, <1>8 DEF Tidy

\* The tasks of the workers after one has returned.
LEMMA Returned ==
    ASSUME Inv, NEW w \in Workers, pc[w] # "idle", Return(w)
    PROVE  /\ Busy' = Busy \ {w}
           /\ \A v \in Workers \ {w} : pc'[v] = pc[v] /\ job'[v] = job[v]
           /\ pc'[w] = "idle"
           /\ Working' \subseteq Working
           /\ \A u \in Working' : ~Same(job[w], u)
<1>1. /\ Busy' = Busy \ {w}
      /\ \A v \in Workers \ {w} : pc'[v] = pc[v] /\ job'[v] = job[v]
      /\ pc'[w] = "idle" /\ w \in Busy
  BY DEF Return, Goto, Inv, Types, Busy
<1>2. Working' = {job[v] : v \in Busy \ {w}}
  BY <1>1 DEF Working, Busy
<1> QED
  BY <1>1, <1>2 DEF Inv, OnePlace, Working

\* A worker leaves its task to a timer.
LEMMA TidyRetry ==
    ASSUME Inv, NEW w \in Workers, ScheduleRetry(w)
    PROVE  Tidy'
<1>1. job[w] \in Tasks /\ job[w] \in Working /\ pc[w] = "settle"
  BY TrackerOfWork DEF ScheduleRetry
<1>2. PICK u \in Tasks :
          /\ timers' = timers \cup {u}
          /\ u.event = job[w].event /\ u.sub = job[w].sub /\ u.run = job[w].run
  BY <1>1, RetryType DEF ScheduleRetry
<1>3. /\ Busy' = Busy \ {w}
      /\ \A v \in Workers \ {w} : pc'[v] = pc[v] /\ job'[v] = job[v]
      /\ pc'[w] = "idle"
      /\ Working' \subseteq Working
      /\ \A x \in Working' : ~Same(job[w], x)
  BY <1>1, Returned DEF ScheduleRetry
<1>4. UNCHANGED <<dispTasks, resumeTasks, taskQueue, firing, trackers>>
  BY DEF ScheduleRetry
<1>5. UNCHANGED Elems(taskQueue)
  BY <1>4 DEF Elems
<1>6. OnePlace'
  <2>1. \A x \in dispTasks \cup resumeTasks \cup Elems(taskQueue) \cup timers \cup firing :
            ~Same(x, u) /\ ~Same(u, x)
    BY <1>1, <1>2 DEF Inv, OnePlace, Apart, Same
  <2>2. \A x \in Working' : ~Same(x, u) /\ ~Same(u, x)
    BY <1>2, <1>3 DEF Same
  <2>3. Alone(timers')
    BY <1>2, <2>1 DEF Inv, OnePlace, Alone
  <2>4. \A v, x \in Busy' : Same(job'[v], job'[x]) => v = x
    BY <1>3 DEF Inv, OnePlace, Busy
  <2> QED
    BY <1>2, <1>3, <1>4, <1>5, <2>1, <2>2, <2>3, <2>4 DEF Inv, OnePlace, Apart, Alone, Distinct
<1>7. Awaited'
  BY <1>1, <1>2, <1>3, <1>4, <1>5 DEF Inv, Awaited, Waiting, Busy
<1>8. Collected'
  BY <1>3, <1>4 DEF Inv, Collected
<1> QED
  BY <1>6, <1>7, <1>8 DEF Tidy

\* A retry leaves its timer, to be sent or to be abandoned.
LEMMA TidyTimer ==
    ASSUME Inv, NEW t \in timers, TimerFires(t) \/ TimerAbandons(t)
    PROVE  Tidy'
<1>1. /\ timers' = timers \ {t} /\ firing' \subseteq firing \cup {t}
      /\ UNCHANGED <<dispTasks, resumeTasks, taskQueue, pc, job, trackers>>
  BY DEF TimerFires, TimerAbandons
<1>2. /\ Busy' = Busy /\ Working' = Working /\ Elems(taskQueue)' = Elems(taskQueue)
      /\ Waiting' \subseteq Waiting
  BY <1>1 DEF Busy, Working, Elems, Waiting
<1>3. OnePlace'
  BY <1>1, <1>2 DEF Inv, OnePlace, Alone, Apart, Distinct, Same
<1>4. Awaited' /\ Collected'
  BY <1>1, <1>2 DEF Inv, Awaited, Collected
<1> QED
  BY <1>3, <1>4 DEF Tidy

LEMMA TaskTypes ==
    ASSUME Inv
    PROVE  \A t \in Waiting \cup Working :
              /\ t \in Tasks /\ t.run \in Runs
              /\ t.event \in Events /\ t.sub \in Subscriptions
<1>1. Elems(taskQueue) \subseteq Tasks
  BY ElemsType DEF Inv, Types
<1>2. Waiting \cup Working \subseteq Tasks
  BY <1>1 DEF Inv, Types, Waiting, Working, Busy
<1> QED
  BY <1>2 DEF Tasks

\* An address not in use is the tracker of no task.
LEMMA NobodysTracker ==
    ASSUME Inv, NEW r \in Runs, trackers[r] = NoTracker
    PROVE  \A t \in Waiting \cup Working : t.run # r
  BY DEF Inv, Awaited

\* The tasks built for an event differ, and all have its new tracker.
LEMMA TidyBuilt ==
    ASSUME Inv, NEW c \in Copies, NEW r \in Runs, NEW S \in SUBSET Subscriptions,
           NEW prior, trackers[r] = NoTracker,
           trackers' = [trackers EXCEPT ![r] = NewTracker(c, S)],
           UNCHANGED <<taskQueue, pc, job, timers, firing>>,
           \/ /\ dispTasks = {} /\ dispTasks' = TasksFor(c, r, S, prior)
              /\ UNCHANGED resumeTasks
           \/ /\ resumeTasks = {} /\ resumeTasks' = TasksFor(c, r, S, prior)
              /\ UNCHANGED dispTasks
    PROVE  Tidy'
<1> DEFINE N == TasksFor(c, r, S, prior)
<1>1. /\ \A t \in N : t.event = c.event /\ t.run = r /\ t.sub \in S
      /\ \A t, u \in N : t.sub = u.sub => t = u
  BY DEF TasksFor
<1> HIDE DEF N
<1>2. \A t \in Waiting \cup Working : t.run # r
  BY NobodysTracker
<1>3. /\ trackers'[r] = NewTracker(c, S)
      /\ \A q \in Runs \ {r} : trackers'[q] = trackers[q]
  BY DEF Inv, Types
<1>4. /\ NewTracker(c, S) # NoTracker
      /\ NewTracker(c, S).event = c.event
      /\ NewTracker(c, S).expected = S
      /\ DOMAIN NewTracker(c, S).results = {}
  BY NewTrackerType
<1>5. /\ Busy' = Busy /\ Working' = Working /\ Elems(taskQueue)' = Elems(taskQueue)
      /\ Waiting' = Waiting \cup N
  BY DEF Busy, Working, Elems, Waiting, N
<1>6. \A t \in Waiting \cup Working : t.run \in Runs
  BY TaskTypes
<1>7. OnePlace'
  <2>1. \A t \in Waiting \cup Working, u \in N : ~Same(t, u) /\ ~Same(u, t)
    BY <1>1, <1>2 DEF Same
  <2>2. Alone(N) /\ Alone({})
    BY <1>1 DEF Alone, Same
  <2>3. \/ /\ dispTasks = {} /\ dispTasks' = N /\ UNCHANGED resumeTasks
        \/ /\ resumeTasks = {} /\ resumeTasks' = N /\ UNCHANGED dispTasks
    BY DEF N
  <2> QED
    BY <1>5, <2>1, <2>2, <2>3 DEF Inv, OnePlace, Apart, Waiting, Distinct
<1>8. Awaited'
  <2>1. ASSUME NEW t \in Waiting \cup Working
        PROVE  trackers'[t.run] = trackers[t.run]
    BY <1>2, <1>3, <1>6
  <2>2. \A w \in Busy : job[w] \in Working
    BY DEF Working
  <2> QED
    BY <1>1, <1>3, <1>4, <1>5, <2>1, <2>2 DEF Inv, Awaited
<1>9. Collected'
  <2>1. \A w \in Workers : pc[w] = "finalize" =>
            job[w].run \in Runs /\ job[w].run # r
    BY <1>2, <1>6 DEF Working, Busy
  <2> QED
    BY <1>3, <1>4, <2>1 DEF Inv, Collected
<1> QED
  BY <1>7, <1>8, <1>9 DEF Tidy

\* A result is recorded; the worker that completes the tracker goes on to finalize it.
LEMMA TidyResult ==
    ASSUME Inv, NEW w \in Workers, RecordResult(w)
    PROVE  Tidy'
<1> DEFINE t == job[w]
           r == job[w].run
           u == WithResult(trackers[r], t.sub, ok[w])
<1>1. /\ t \in Working /\ pc[w] = "settle" /\ w \in Busy
      /\ r \in Runs /\ t.sub \in Subscriptions
      /\ trackers[r] \in Trackers /\ trackers[r] # NoTracker
      /\ t.sub \in trackers[r].expected
      /\ trackers[r].expected \in SUBSET Subscriptions
  BY TrackerOfWork DEF RecordResult, Busy
<1>2. ok[w] \in BOOLEAN
  BY DEF Inv, Types
<1>3. /\ u # NoTracker
      /\ u.event = trackers[r].event /\ u.expected = trackers[r].expected
      /\ DOMAIN u.results = DOMAIN trackers[r].results \cup {t.sub}
  BY <1>1, <1>2, TrackerWithResult
<1>4. /\ trackers' = [trackers EXCEPT ![r] = u]
      /\ UNCHANGED <<dispTasks, resumeTasks, taskQueue, timers, firing>>
      /\ \/ Complete(u) /\ Goto(w, "finalize") /\ UNCHANGED <<job, ok, inflight>>
         \/ ~Complete(u) /\ Return(w)
  BY DEF RecordResult, WithResult
<1> HIDE DEF u
<1>5. /\ trackers'[r] = u
      /\ \A q \in Runs \ {r} : trackers'[q] = trackers[q]
  BY <1>1, <1>4 DEF Inv, Types
<1>6. Elems(taskQueue)' = Elems(taskQueue) /\ Waiting' = Waiting
  BY <1>4 DEF Elems, Waiting
<1>7. t.sub \notin DOMAIN trackers[r].results
  BY <1>1 DEF Inv, Awaited
<1>8. \A v \in Workers : pc[v] = "finalize" => job[v].run # r
  BY <1>1, <1>7 DEF Inv, Collected
<1>9. \A x \in Waiting : ~Same(x, t)
  BY <1>1 DEF Inv, OnePlace, Apart, Waiting, Same
<1>10. \A v \in Busy \ {w} : ~Same(job[v], t)
  BY <1>1 DEF Inv, OnePlace
<1>11. DOMAIN u.results \subseteq u.expected
  BY <1>1, <1>3 DEF Inv, Collected
<1>12. \A x \in Waiting \cup Working : x.run \in Runs
  BY TaskTypes
<1>13. \A v \in Busy : job[v] \in Working
  BY DEF Working
<1>14. CASE Complete(u) /\ Goto(w, "finalize") /\ UNCHANGED job
  <2>1. /\ Busy' = Busy /\ Working' = Working
        /\ pc'[w] = "finalize" /\ \A v \in Workers \ {w} : pc'[v] = pc[v]
    BY <1>1, <1>14 DEF Goto, Busy, Working, Inv, Types
  <2>2. OnePlace'
    BY <1>4, <1>6, <1>14, <2>1 DEF Inv, OnePlace, Alone, Apart, Distinct, Same
  <2>3. Awaited'
    <3>1. \A x \in Waiting \cup Working :
              /\ trackers'[x.run] # NoTracker
              /\ trackers'[x.run].event = x.event
              /\ x.sub \in trackers'[x.run].expected
      BY <1>3, <1>5, <1>12 DEF Inv, Awaited
    <3>2. \A x \in Waiting : x.sub \notin DOMAIN trackers'[x.run].results
      BY <1>3, <1>5, <1>9, <1>12 DEF Inv, Awaited, Same
    <3>3. \A v \in Busy : pc'[v] # "finalize" =>
              job[v].sub \notin DOMAIN trackers'[job[v].run].results
      BY <1>3, <1>5, <1>10, <1>12, <1>13, <2>1 DEF Inv, Awaited, Same, Busy
    <3> QED
      BY <1>6, <1>14, <2>1, <3>1, <3>2, <3>3 DEF Awaited
  <2>4. DOMAIN u.results = u.expected
    BY <1>1, <1>3, <1>11, <1>14, FinitenessAssumption, FS_Subset DEF Complete
  <2>5. Collected'
    BY <1>3, <1>5, <1>8, <1>11, <1>12, <1>13, <1>14, <2>1, <2>4 DEF Inv, Collected, Busy
  <2> QED
    BY <2>2, <2>3, <2>5 DEF Tidy
<1>15. CASE Return(w)
  <2>1. /\ Busy' = Busy \ {w}
        /\ \A v \in Workers \ {w} : pc'[v] = pc[v] /\ job'[v] = job[v]
        /\ pc'[w] = "idle"
        /\ Working' \subseteq Working
        /\ \A x \in Working' : ~Same(t, x)
    BY <1>1, <1>15, Returned
  <2>2. OnePlace'
    BY <1>4, <1>6, <2>1 DEF Inv, OnePlace, Alone, Apart, Distinct, Same, Busy
  <2>3. Awaited'
    BY <1>3, <1>5, <1>6, <1>9, <1>10, <1>12, <1>13, <2>1 DEF Inv, Awaited, Same, Busy
  <2>4. Collected'
    BY <1>3, <1>5, <1>8, <1>11, <1>12, <1>13, <2>1 DEF Inv, Collected, Busy
  <2> QED
    BY <2>2, <2>3, <2>4 DEF Tidy
<1> QED
  BY <1>4, <1>14, <1>15

\* The tracker is complete and its last worker finalizes it: no task is left that
\* has it.
LEMMA TidyFinalized ==
    ASSUME Inv, NEW w \in Workers, FinalizeEvent(w)
    PROVE  /\ Tidy'
           /\ \A x \in (Waiting \cup Working)' : x.run # job[w].run
<1> DEFINE r == job[w].run
<1>1. /\ job[w] \in Working /\ w \in Busy /\ pc[w] = "finalize" /\ r \in Runs
  BY TrackerOfWork DEF FinalizeEvent, Busy
<1>2. /\ trackers' = [trackers EXCEPT ![r] = NoTracker]
      /\ UNCHANGED <<dispTasks, resumeTasks, taskQueue, timers, firing>>
      /\ Return(w)
  BY DEF FinalizeEvent
<1>3. \A q \in Runs \ {r} : trackers'[q] = trackers[q]
  BY <1>2 DEF Inv, Types
<1>4. trackers'[r] = NoTracker
  BY <1>1, <1>2 DEF Inv, Types
<1>5. /\ Busy' = Busy \ {w}
      /\ \A v \in Workers \ {w} : pc'[v] = pc[v] /\ job'[v] = job[v]
      /\ pc'[w] = "idle"
      /\ Working' \subseteq Working
  BY <1>1, <1>2, Returned
<1>6. Elems(taskQueue)' = Elems(taskQueue) /\ Waiting' = Waiting
  BY <1>2 DEF Elems, Waiting
<1>7. DOMAIN trackers[r].results = trackers[r].expected
  BY <1>1 DEF Inv, Collected
<1>8. \A x \in Waiting : x.run # r
  BY <1>7 DEF Inv, Awaited
<1>9. \A v \in Busy \ {w} : job[v].run # r
  <2> SUFFICES ASSUME NEW v \in Busy \ {w}, job[v].run = r
               PROVE  FALSE
    OBVIOUS
  <2>1. pc[v] # "finalize"
    BY <1>1 DEF Inv, Collected, Busy
  <2>2. job[v] \in Working
    BY DEF Working
  <2> QED
    BY <1>7, <2>1, <2>2 DEF Inv, Awaited
<1>10. Working' = {job[v] : v \in Busy \ {w}}
  BY <1>5 DEF Working, Busy
<1>11. \A x \in Waiting' \cup Working' : x.run # r /\ x.run \in Runs /\ x \in Waiting \cup Working
  BY <1>5, <1>6, <1>8, <1>9, <1>10, TaskTypes
<1>12. OnePlace'
  <2>1. \A v, x \in Busy' : job'[v] = job[v] /\ job'[x] = job[x]
    BY <1>5 DEF Busy
  <2> QED
    BY <1>2, <1>5, <1>6, <2>1 DEF Inv, OnePlace, Alone, Apart, Distinct, Same
<1>13. Awaited'
  <2>1. \A v \in Busy' : job'[v] = job[v] /\ pc'[v] = pc[v] /\ job'[v] \in Working'
                            /\ job'[v].run \in Runs \ {r}
    BY <1>5, <1>11 DEF Busy, Working
  <2> QED
    BY <1>3, <1>5, <1>6, <1>11, <2>1 DEF Inv, Awaited
<1>14. Collected'
  <2>1. \A v \in Workers : pc'[v] = "finalize" =>
            pc[v] = "finalize" /\ job'[v] = job[v] /\ job[v].run \in Runs \ {r}
    BY <1>5, <1>9, <1>11 DEF Busy, Working
  <2> QED
    BY <1>3, <1>4, <2>1 DEF Inv, Collected
<1> QED
  BY <1>11, <1>12, <1>13, <1>14 DEF Tidy

LEMMA NextTidy == Inv /\ [Next]_vars => Tidy'
<1> SUFFICES ASSUME Inv, [Next]_vars
             PROVE  Tidy'
  OBVIOUS
<1>1. CASE Boot \/ Serve \/ (\E e \in Events : Publish(e)) \/ Handlers
           \/ (\E c \in feed : FeedSend(c)) \/ CloseQueue \/ ChangeTable \/ Stop \/ Rest
           \/ UNCHANGED vars
  BY <1>1, TidyUntouched
     DEF Boot, Resumable, Serve, Publish, InsertEvent, Handlers, HandlerSend, HandlerPanic, FeedSend, CloseQueue,
         ChangeTable, Stop, Rest, vars
<1>2. CASE FeedPanic \/ Exit \/ Crash
  BY <1>2, TidyEmpty DEF FeedPanic, Exit, Crash
<1>3. ASSUME NEW c \in resuming, ResumePartialEvent(c)
      PROVE  Tidy'
  <2>1. c \in Copies /\ c.event \in Events
    BY DEF Inv, Types, Copies
  <2>2. CASE ResumeGivesUp(c) \/ \E st \in {"recorded", "delivered"} : ResumeWithoutTasks(c, st)
    BY <1>3, <2>2, TidyUntouched DEF ResumePartialEvent, ResumeGivesUp, ResumeWithoutTasks
  <2>3. ASSUME NEW r \in Runs, ResumeWithTasks(c, r)
        PROVE  Tidy'
    <3>1. Remaining(c.event) \in SUBSET Subscriptions
      BY <2>1, ChosenType DEF Inv
    <3>2. /\ resumeTasks = {}
          /\ UNCHANGED <<taskQueue, pc, job, timers, firing, dispTasks>>
      BY <1>3 DEF ResumePartialEvent
    <3> QED
      BY <2>1, <2>3, <3>1, <3>2, TidyBuilt DEF ResumeWithTasks
  <2> QED
    BY <1>3, <2>2, <2>3 DEF ResumePartialEvent
<1>4. ASSUME NEW t, (t \in resumeTasks /\ ResumeEnqueue(t)) \/ (t \in dispTasks /\ DispatchEnqueue(t))
                       \/ (t \in firing /\ TimerSends(t))
      PROVE  Tidy'
  BY <1>4, TidyQueued DEF ResumeEnqueue, DispatchEnqueue, TimerSends
<1>5. CASE DispatchEvent
  <2> DEFINE c == Head(chan)
  <2>1. c \in Copies /\ c.event \in Events
    <3>1. chan \in Seq(Copies) /\ chan # <<>>
      BY <1>5 DEF DispatchEvent, Inv, Types
    <3>2. c \in Copies
      BY <3>1, TailElems
    <3> QED
      BY <3>2 DEF Copies
  <2>2. UNCHANGED <<taskQueue, pc, job, timers, firing, resumeTasks>> /\ dispTasks = {}
    BY <1>5 DEF DispatchEvent
  <2> HIDE DEF c
  <2>3. CASE UNCHANGED <<dispTasks, heap>>
    BY <2>2, <2>3, TidyUntouched
  <2>4. ASSUME NEW r \in Runs, DispatchWithTasks(c, r)
        PROVE  Tidy'
    <3>1. Chosen(c.event) \in SUBSET Subscriptions
      BY <2>1, ChosenType DEF Inv
    <3> QED
      BY <2>1, <2>2, <2>4, <3>1, TidyBuilt DEF DispatchWithTasks
  <2> QED
    BY <1>5, <2>3, <2>4 DEF DispatchEvent, DispatchWithoutTasks, c
<1>6. ASSUME NEW w \in Workers, Worker(w)
      PROVE  Tidy'
  <2>1. CASE Acquire(w)
    BY <2>1, TidyGoesOn DEF Acquire
  <2>2. ASSUME NEW good \in BOOLEAN, Deliver(w, good)
        PROVE  Tidy'
    BY <2>2, TidyGoesOn DEF Deliver
  <2>3. CASE RecordAttempt(w)
    BY <2>3, TidyGoesOn DEF RecordAttempt
  <2> QED
    BY <1>6, <2>1, <2>2, <2>3, TidyTake, TidyResult, TidyFinalized, TidyRetry DEF Worker
<1>7. ASSUME NEW t \in timers, TimerFires(t) \/ TimerAbandons(t)
      PROVE  Tidy'
  BY <1>7, TidyTimer
<1> QED
  BY <1>1, <1>2, <1>3, <1>4, <1>5, <1>6, <1>7
     DEF Next, Resume, Feeder, Dispatcher, Timers

\* Every task in memory is in one place and its tracker awaits it, in every state
\* of the pipeline.
THEOREM TasksAreTracked == Spec => []Inv
<1>1. Init => Inv
  BY InitTypes, InitTidy DEF Inv, Tidy
<1>2. Inv /\ [Next]_vars => Inv'
  BY NextTypes, NextTidy DEF Inv, Tidy
<1> QED
  BY <1>1, <1>2, PTL DEF Spec

-----------------------------------------------------------------------------
(* The counters count what they are meant to: a subscriber's semaphore the *)
(* POSTs in progress to it, and inflightWg the tasks that are queued,      *)
(* worked on or waiting for a retry.  Hence the limits they enforce, and   *)
(* that close(taskQueue) happens when nobody can send on it any more.      *)

Posters(s) == {w \in Busy : pc[w] \in {"send", "insert"} /\ Owner[job[w].sub] = s}

\* A semaphore holds a token for every POST in progress, and no more than it has room for.
SemCounts ==
    \A s \in Subscribers : sem[s] = Cardinality(Posters(s)) /\ sem[s] <= MaxParallel[s]

\* inflightWg counts the tasks that left their sender and are not settled.
InflightCounts ==
    /\ IsFiniteSet(timers) /\ IsFiniteSet(firing)
    /\ inflight = Len(taskQueue) + Cardinality(Busy) + Cardinality(timers) + Cardinality(firing)

\* Only a booting process resumes; once taskQueue is closed nothing is left to send.
Quiet ==
    /\ phase # "booting" => resuming = {} /\ resumeTasks = {}
    /\ phase = "closed" => chan = <<>> /\ dispTasks = {} /\ inflight = 0

CountInv == Inv /\ SemCounts /\ InflightCounts /\ Quiet

-----------------------------------------------------------------------------
(* Finite sets.                                                            *)

LEMMA WorkersFinite ==
    /\ IsFiniteSet(Busy) /\ Cardinality(Busy) \in Nat
    /\ \A s : IsFiniteSet(Posters(s)) /\ Cardinality(Posters(s)) \in Nat
<1>1. Busy \subseteq Workers /\ \A s : Posters(s) \subseteq Workers
  BY DEF Busy, Posters
<1>2. \A S \in SUBSET Workers : IsFiniteSet(S) /\ Cardinality(S) \in Nat
  BY FinitenessAssumption, FS_Subset, FS_CardinalityType
<1> QED
  BY <1>1, <1>2

LEMMA AddOne ==
    ASSUME NEW S, IsFiniteSet(S), NEW x, x \notin S
    PROVE  IsFiniteSet(S \cup {x}) /\ Cardinality(S \cup {x}) = Cardinality(S) + 1
                                   /\ Cardinality(S) \in Nat
  BY FS_AddElement, FS_CardinalityType

LEMMA RemoveOne ==
    ASSUME NEW S, IsFiniteSet(S), NEW x \in S
    PROVE  IsFiniteSet(S \ {x}) /\ Cardinality(S \ {x}) = Cardinality(S) - 1
                                /\ Cardinality(S) \in Nat
  BY FS_RemoveElement, FS_CardinalityType

LEMMA NoneBusy == Busy = {} => Cardinality(Busy) = 0 /\ \A s : Posters(s) = {} /\ Cardinality(Posters(s)) = 0
  BY FS_EmptySet DEF Posters

-----------------------------------------------------------------------------
(* Start and end of the process.                                           *)

LEMMA InitCounts == Init => SemCounts /\ InflightCounts /\ Quiet
<1> SUFFICES ASSUME Init
             PROVE  SemCounts /\ InflightCounts /\ Quiet
  OBVIOUS
<1>1. Busy = {}
  BY DEF Init, Busy
<1>2. Cardinality(Busy) = 0 /\ \A s : Cardinality(Posters(s)) = 0
  BY <1>1, NoneBusy
<1>3. SemCounts
  BY <1>2, ConfigAssumption DEF Init, SemCounts
<1>4. InflightCounts
  BY <1>2, FS_EmptySet DEF Init, InflightCounts
<1>5. Quiet
  BY DEF Init, Quiet
<1> QED
  BY <1>3, <1>4, <1>5

LEMMA EndCounts == ProcessEnds => (SemCounts /\ InflightCounts /\ Quiet)'
<1> SUFFICES ASSUME ProcessEnds
             PROVE  (SemCounts /\ InflightCounts /\ Quiet)'
  OBVIOUS
<1>1. Busy' = {}
  BY DEF ProcessEnds, Busy
<1>2. Cardinality(Busy') = 0 /\ \A s : Cardinality(Posters(s)') = 0
  BY <1>1, FS_EmptySet DEF Posters
<1>3. SemCounts'
  BY <1>2, ConfigAssumption DEF ProcessEnds, SemCounts
<1>4. InflightCounts'
  BY <1>2, FS_EmptySet DEF ProcessEnds, InflightCounts
<1>5. Quiet'
  BY DEF ProcessEnds, Quiet
<1> QED
  BY <1>3, <1>4, <1>5

-----------------------------------------------------------------------------
(* The semaphores.                                                         *)

LEMMA SemUntouched ==
    ASSUME SemCounts, UNCHANGED <<sem, pc, job>>
    PROVE  SemCounts'
<1>1. \A s : Posters(s)' = Posters(s)
  BY DEF Posters, Busy
<1> QED
  BY <1>1 DEF SemCounts

\* A worker that neither starts nor ends a POST.
LEMMA SemElsewhere ==
    ASSUME SemCounts, NEW w \in Workers, UNCHANGED sem,
           \A v \in Workers \ {w} : pc'[v] = pc[v] /\ job'[v] = job[v],
           \/ pc[w] \notin {"send", "insert"} /\ pc'[w] \notin {"send", "insert"}
           \/ pc[w] = "send" /\ pc'[w] = "insert" /\ job'[w] = job[w]
    PROVE  SemCounts'
<1>1. \A s : Posters(s)' = Posters(s)
  BY DEF Posters, Busy
<1> QED
  BY <1>1 DEF SemCounts

LEMMA SemAcquire ==
    ASSUME Inv, SemCounts, NEW w \in Workers, Acquire(w)
    PROVE  SemCounts'
<1>0. PICK s \in Subscribers : s = Owner[job[w].sub]
  BY TrackerOfWork DEF Acquire
<1>1. sem[s] < MaxParallel[s]
  BY <1>0 DEF Acquire
<1>2. sem' = [sem EXCEPT ![s] = sem[s] + 1] /\ UNCHANGED job
  BY <1>0 DEF Acquire
<1>3. /\ pc[w] = "acquire" /\ pc'[w] = "send" 
      /\ \A v \in Workers \ {w} : pc'[v] = pc[v]
  BY DEF Acquire, Goto, Inv, Types
<1>4. Posters(s)' = Posters(s) \cup {w} /\ w \notin Posters(s)
  BY <1>0, <1>2, <1>3 DEF Posters, Busy
<1>5. \A t \in Subscribers \ {s} : Posters(t)' = Posters(t)
  BY <1>0, <1>2, <1>3 DEF Posters, Busy
<1>6. Cardinality(Posters(s)') = Cardinality(Posters(s)) + 1
  BY <1>4, AddOne, WorkersFinite
<1>7. sem \in [Subscribers -> Int] /\ MaxParallel \in [Subscribers -> Nat]
  BY ConfigAssumption DEF Inv, Types
<1> QED
  BY <1>1, <1>2, <1>5, <1>6, <1>7 DEF SemCounts

LEMMA SemRelease ==
    ASSUME Inv, SemCounts, NEW w \in Workers, RecordAttempt(w)
    PROVE  SemCounts'
<1>1. PICK s \in Subscribers : s = Owner[job[w].sub]
  BY TrackerOfWork DEF RecordAttempt
<1>2. sem' = [sem EXCEPT ![s] = sem[s] - 1] /\ UNCHANGED job
  BY <1>1 DEF RecordAttempt
<1>3. /\ pc[w] = "insert" /\ pc'[w] = "settle"
      /\ \A v \in Workers \ {w} : pc'[v] = pc[v]
  BY DEF RecordAttempt, Goto, Inv, Types
<1>4. Posters(s)' = Posters(s) \ {w} /\ w \in Posters(s)
  BY <1>1, <1>2, <1>3 DEF Posters, Busy
<1>5. \A t \in Subscribers \ {s} : Posters(t)' = Posters(t)
  BY <1>1, <1>2, <1>3 DEF Posters, Busy
<1>6. Cardinality(Posters(s)') = Cardinality(Posters(s)) - 1
  BY <1>4, RemoveOne, WorkersFinite
<1>7. sem \in [Subscribers -> Int] /\ MaxParallel \in [Subscribers -> Nat]
  BY ConfigAssumption DEF Inv, Types
<1> QED
  BY <1>1, <1>2, <1>5, <1>6, <1>7 DEF SemCounts

LEMMA SemReturn ==
    ASSUME Inv, SemCounts, NEW w \in Workers, pc[w] \in {"settle", "finalize"}, Return(w),
           UNCHANGED sem
    PROVE  SemCounts'
<1>1. /\ \A v \in Workers \ {w} : pc'[v] = pc[v] /\ job'[v] = job[v]
      /\ pc'[w] = "idle"
  BY Returned
<1> QED
  BY <1>1, SemElsewhere

LEMMA SemAtWork ==
    ASSUME Inv, SemCounts, NEW w \in Workers, Worker(w)
    PROVE  SemCounts'
<1>1. CASE Take(w)
  <2>1. /\ \A v \in Workers \ {w} : pc'[v] = pc[v] /\ job'[v] = job[v]
        /\ pc[w] = "idle" /\ pc'[w] = "acquire" /\ UNCHANGED sem
    BY <1>1 DEF Take, Goto, Inv, Types
  <2> QED
    BY <2>1, SemElsewhere
<1>2. ASSUME NEW good \in BOOLEAN, Deliver(w, good)
      PROVE  SemCounts'
  <2>1. /\ \A v \in Workers \ {w} : pc'[v] = pc[v] /\ job'[v] = job[v]
        /\ pc[w] = "send" /\ pc'[w] = "insert" /\ job'[w] = job[w] /\ UNCHANGED sem
    BY <1>2 DEF Deliver, Goto, Inv, Types
  <2> QED
    BY <2>1, SemElsewhere
<1>3. CASE RecordResult(w)
  <2>1. pc[w] = "settle" /\ UNCHANGED sem
    BY <1>3 DEF RecordResult
  <2>2. CASE Goto(w, "finalize") /\ UNCHANGED job
    <3>1. /\ \A v \in Workers \ {w} : pc'[v] = pc[v] /\ job'[v] = job[v]
          /\ pc'[w] = "finalize"
      BY <2>2 DEF Goto, Inv, Types
    <3> QED
      BY <2>1, <3>1, SemElsewhere
  <2>3. CASE Return(w)
    BY <2>1, <2>3, SemReturn
  <2> QED
    BY <1>3, <2>2, <2>3 DEF RecordResult
<1>4. CASE FinalizeEvent(w)
  BY <1>4, SemReturn DEF FinalizeEvent
<1>5. CASE ScheduleRetry(w)
  BY <1>5, SemReturn DEF ScheduleRetry
<1> QED
  BY <1>1, <1>2, <1>3, <1>4, <1>5, SemAcquire, SemRelease DEF Worker

-----------------------------------------------------------------------------
(* inflightWg.                                                             *)

LEMMA InflightUntouched ==
    ASSUME InflightCounts, UNCHANGED <<inflight, taskQueue, pc, timers, firing>>
    PROVE  InflightCounts'
<1>1. Busy' = Busy
  BY DEF Busy
<1> QED
  BY <1>1 DEF InflightCounts

\* A sender adds one before it sends.
LEMMA InflightAdd ==
    ASSUME Inv, InflightCounts, NEW t \in Tasks, taskQueue' = Append(taskQueue, t),
           inflight' = inflight + 1, UNCHANGED <<pc, timers, firing>>
    PROVE  InflightCounts'
<1>1. Busy' = Busy
  BY DEF Busy
<1>2. taskQueue \in Seq(Tasks)
  BY DEF Inv, Types
<1>3. Len(taskQueue') = Len(taskQueue) + 1 /\ Len(taskQueue) \in Nat
  BY <1>2
<1>4. Cardinality(Busy) \in Nat /\ Cardinality(timers) \in Nat /\ Cardinality(firing) \in Nat
  BY WorkersFinite, FS_CardinalityType DEF InflightCounts
<1> QED
  BY <1>1, <1>3, <1>4 DEF InflightCounts

LEMMA InflightTake ==
    ASSUME Inv, InflightCounts, NEW w \in Workers, Take(w)
    PROVE  InflightCounts'
<1>1. Busy' = Busy \cup {w} /\ w \notin Busy
  BY DEF Take, Goto, Inv, Types, Busy
<1>2. Cardinality(Busy') = Cardinality(Busy) + 1 /\ Cardinality(Busy) \in Nat
  BY <1>1, AddOne, WorkersFinite
<1>3. taskQueue \in Seq(Tasks) /\ taskQueue # <<>> /\ taskQueue' = Tail(taskQueue)
      /\ UNCHANGED <<inflight, timers, firing>>
  BY DEF Take, Inv, Types
<1>4. Len(taskQueue') = Len(taskQueue) - 1 /\ Len(taskQueue) \in Nat
  BY <1>3, TailElems
<1>5. Cardinality(timers) \in Nat /\ Cardinality(firing) \in Nat
  BY FS_CardinalityType DEF InflightCounts
<1> QED
  BY <1>2, <1>3, <1>4, <1>5 DEF InflightCounts

\* The deferred Done of a worker that keeps no retry.
LEMMA InflightDone ==
    ASSUME Inv, InflightCounts, NEW w \in Workers, pc[w] # "idle", Return(w),
           inflight' = inflight - 1, UNCHANGED <<taskQueue, timers, firing>>
    PROVE  InflightCounts'
<1>1. Busy' = Busy \ {w} /\ w \in Busy
  BY Returned DEF Busy
<1>2. Cardinality(Busy') = Cardinality(Busy) - 1 /\ Cardinality(Busy) \in Nat
  BY <1>1, RemoveOne, WorkersFinite
<1>3. Len(taskQueue) \in Nat
  BY DEF Inv, Types
<1>4. Cardinality(timers) \in Nat /\ Cardinality(firing) \in Nat
  BY FS_CardinalityType DEF InflightCounts
<1> QED
  BY <1>2, <1>3, <1>4 DEF InflightCounts

\* The retry, which no timer waits for yet, takes over the unit of its worker.
LEMMA InflightRetry ==
    ASSUME Inv, InflightCounts, NEW w \in Workers, ScheduleRetry(w)
    PROVE  InflightCounts'
<1>1. job[w] \in Tasks /\ job[w] \in Working /\ w \in Busy /\ pc[w] # "idle"
  BY TrackerOfWork DEF ScheduleRetry, Busy
<1>2. PICK u \in Tasks :
          /\ timers' = timers \cup {u}
          /\ u.event = job[w].event /\ u.sub = job[w].sub /\ u.run = job[w].run
  BY <1>1, RetryType DEF ScheduleRetry
<1>3. u \notin timers
  BY <1>1, <1>2 DEF Inv, OnePlace, Apart, Same
<1>4. /\ IsFiniteSet(timers') /\ Cardinality(timers') = Cardinality(timers) + 1
      /\ Cardinality(timers) \in Nat
  BY <1>2, <1>3, AddOne DEF InflightCounts
<1>5. Busy' = Busy \ {w} /\ UNCHANGED <<taskQueue, firing, inflight>>
  BY <1>1, Returned DEF ScheduleRetry
<1>6. Cardinality(Busy') = Cardinality(Busy) - 1 /\ Cardinality(Busy) \in Nat
  BY <1>1, <1>5, RemoveOne, WorkersFinite
<1>7. Len(taskQueue) \in Nat /\ Cardinality(firing) \in Nat
  BY FS_CardinalityType DEF Inv, Types, InflightCounts
<1> QED
  BY <1>4, <1>5, <1>6, <1>7 DEF InflightCounts

LEMMA InflightTimers ==
    ASSUME Inv, InflightCounts, Timers
    PROVE  InflightCounts'
<1>1. Busy' = Busy /\ Cardinality(Busy) \in Nat
  BY WorkersFinite DEF Timers, TimerFires, TimerAbandons, TimerSends, Busy
<1>2. /\ taskQueue \in Seq(Tasks) /\ Len(taskQueue) \in Nat
      /\ Cardinality(timers) \in Nat /\ Cardinality(firing) \in Nat
  BY FS_CardinalityType DEF Inv, Types, InflightCounts
<1>3. ASSUME NEW t \in timers, TimerFires(t)
      PROVE  InflightCounts'
  <2>1. t \notin firing
    BY DEF Inv, OnePlace, Apart, Same
  <2>2. /\ IsFiniteSet(timers') /\ Cardinality(timers') = Cardinality(timers) - 1
        /\ IsFiniteSet(firing') /\ Cardinality(firing') = Cardinality(firing) + 1
        /\ UNCHANGED <<taskQueue, inflight>>
    BY <1>3, <2>1, AddOne, RemoveOne DEF TimerFires, InflightCounts
  <2> QED
    BY <1>1, <1>2, <2>2 DEF InflightCounts
<1>4. ASSUME NEW t \in timers, TimerAbandons(t)
      PROVE  InflightCounts'
  <2>1. /\ IsFiniteSet(timers') /\ Cardinality(timers') = Cardinality(timers) - 1
        /\ UNCHANGED <<taskQueue, firing>> /\ inflight' = inflight - 1
    BY <1>4, RemoveOne DEF TimerAbandons, InflightCounts
  <2> QED
    BY <1>1, <1>2, <2>1 DEF InflightCounts
<1>5. ASSUME NEW t \in firing, TimerSends(t)
      PROVE  InflightCounts'
  <2>1. t \in Tasks
    BY DEF Inv, Types
  <2>2. /\ IsFiniteSet(firing') /\ Cardinality(firing') = Cardinality(firing) - 1
        /\ UNCHANGED <<timers, inflight>>
    BY <1>5, RemoveOne DEF TimerSends, InflightCounts
  <2>3. Len(taskQueue') = Len(taskQueue) + 1
    BY <1>5, <1>2, <2>1 DEF TimerSends
  <2> QED
    BY <1>1, <1>2, <2>2, <2>3 DEF InflightCounts
<1> QED
  BY <1>3, <1>4, <1>5 DEF Timers

LEMMA InflightAtWork ==
    ASSUME Inv, InflightCounts, NEW w \in Workers, Worker(w)
    PROVE  InflightCounts'
<1>1. ASSUME Acquire(w) \/ (\E good \in BOOLEAN : Deliver(w, good)) \/ RecordAttempt(w)
                \/ (RecordResult(w) /\ Goto(w, "finalize") /\ UNCHANGED inflight)
      PROVE  InflightCounts'
  <2>1. /\ Busy' = Busy /\ UNCHANGED <<inflight, taskQueue, timers, firing>>
    BY <1>1 DEF Acquire, Deliver, RecordAttempt, RecordResult, Goto, Inv, Types, Busy
  <2> QED
    BY <2>1 DEF InflightCounts
<1>2. CASE RecordResult(w)
  BY <1>1, <1>2, InflightDone DEF RecordResult
<1>3. CASE FinalizeEvent(w)
  BY <1>3, InflightDone DEF FinalizeEvent
<1> QED
  BY <1>1, <1>2, <1>3, InflightTake, InflightRetry DEF Worker

-----------------------------------------------------------------------------
(* Closing taskQueue.                                                      *)

\* Once inflightWg.Wait has returned nobody sends, works or waits.
LEMMA ClosedIsEmpty ==
    ASSUME Inv, InflightCounts, Quiet, phase = "closed"
    PROVE  /\ taskQueue = <<>> /\ Busy = {} /\ timers = {} /\ firing = {}
           /\ chan = <<>> /\ dispTasks = {} /\ resumeTasks = {} /\ resuming = {}
<1>1. /\ Len(taskQueue) + Cardinality(Busy) + Cardinality(timers) + Cardinality(firing) = 0
      /\ chan = <<>> /\ dispTasks = {} /\ resumeTasks = {} /\ resuming = {}
  BY DEF InflightCounts, Quiet
<1>2. /\ Len(taskQueue) \in Nat /\ Cardinality(Busy) \in Nat
      /\ Cardinality(timers) \in Nat /\ Cardinality(firing) \in Nat
  BY WorkersFinite, FS_CardinalityType DEF InflightCounts, Inv, Types
<1>3. /\ Len(taskQueue) = 0 /\ Cardinality(Busy) = 0
      /\ Cardinality(timers) = 0 /\ Cardinality(firing) = 0
  BY <1>1, <1>2
<1>4. Busy = {} /\ timers = {} /\ firing = {}
  BY <1>3, WorkersFinite, FS_EmptySet DEF InflightCounts
<1>5. taskQueue = <<>>
  BY <1>3 DEF Inv, Types
<1> QED
  BY <1>1, <1>4, <1>5

LEMMA NextQuiet == CountInv /\ [Next]_vars => Quiet'
<1> SUFFICES ASSUME CountInv, [Next]_vars
             PROVE  Quiet'
  OBVIOUS
<1> USE DEF CountInv
<1>1. CASE Boot
  BY <1>1 DEF Boot, Resumable, Quiet
<1>2. CASE Resume
  <2>1. phase = "booting" /\ phase' = "booting"
    BY <1>2 DEF Resume, ResumePartialEvent, ResumeEnqueue, Quiet
  <2> QED
    BY <2>1 DEF Quiet
<1>3. CASE Serve \/ Stop \/ ChangeTable \/ Rest \/ (\E e \in Events : Publish(e)) \/ UNCHANGED vars
  BY <1>3 DEF Serve, Stop, ChangeTable, Rest, Publish, InsertEvent, vars, Quiet
<1>4. CASE Handlers \/ (\E c \in feed : FeedSend(c))
  BY <1>4 DEF Handlers, HandlerSend, HandlerPanic, FeedSend, Open, Quiet
<1>5. CASE FeedPanic \/ Exit \/ Crash
  BY <1>5, EndCounts DEF FeedPanic, Exit, Crash
<1>6. CASE DispatchEvent \/ (\E t \in dispTasks : DispatchEnqueue(t))
  <2>1. phase # "closed" /\ UNCHANGED <<phase, resuming, resumeTasks>>
    BY <1>6 DEF DispatchEvent, DispatchEnqueue, Quiet
  <2> QED
    BY <2>1 DEF Quiet
<1>7. CASE CloseQueue
  BY <1>7 DEF CloseQueue, Quiet
<1>8. CASE Timers
  <2>1. phase # "closed" /\ UNCHANGED <<phase, resuming, resumeTasks>>
    BY <1>8, ClosedIsEmpty DEF Timers, TimerFires, TimerAbandons, TimerSends
  <2> QED
    BY <2>1 DEF Quiet
<1>9. ASSUME NEW w \in Workers, Worker(w)
      PROVE  Quiet'
  <2>1. /\ taskQueue # <<>> \/ w \in Busy
        /\ UNCHANGED <<phase, resuming, resumeTasks>>
    BY <1>9 DEF Worker, Take, Acquire, Deliver, RecordAttempt, RecordResult, FinalizeEvent,
                ScheduleRetry, Busy
  <2>2. phase # "closed"
    BY <2>1, ClosedIsEmpty
  <2> QED
    BY <2>1, <2>2 DEF Quiet
<1> QED
  BY <1>1, <1>2, <1>3, <1>4, <1>5, <1>6, <1>7, <1>8, <1>9 DEF Next, Feeder, Dispatcher

LEMMA NextCounts == CountInv /\ [Next]_vars => SemCounts' /\ InflightCounts'
<1> SUFFICES ASSUME CountInv, [Next]_vars
             PROVE  SemCounts' /\ InflightCounts'
  OBVIOUS
<1> USE DEF CountInv
<1>1. CASE UNCHANGED <<sem, inflight, taskQueue, pc, job, timers, firing>>
  BY <1>1, SemUntouched, InflightUntouched
<1>2. CASE Boot \/ Serve \/ (\E e \in Events : Publish(e)) \/ Handlers
           \/ (\E c \in feed : FeedSend(c)) \/ DispatchEvent \/ CloseQueue \/ ChangeTable
           \/ (\E c \in resuming : ResumePartialEvent(c)) \/ Stop \/ Rest \/ UNCHANGED vars
  BY <1>1, <1>2
     DEF Boot, Resumable, Serve, Publish, InsertEvent, Handlers, HandlerSend, HandlerPanic, FeedSend, DispatchEvent,
         CloseQueue, ChangeTable, ResumePartialEvent, Stop, Rest, vars
<1>3. CASE FeedPanic \/ Exit \/ Crash
  BY <1>3, EndCounts DEF FeedPanic, Exit, Crash
<1>4. ASSUME NEW t, (t \in resumeTasks /\ ResumeEnqueue(t)) \/ (t \in dispTasks /\ DispatchEnqueue(t))
      PROVE  SemCounts' /\ InflightCounts'
  <2>1. t \in Tasks
    BY <1>4 DEF Inv, Types
  <2>2. /\ taskQueue' = Append(taskQueue, t) /\ inflight' = inflight + 1
        /\ UNCHANGED <<sem, pc, job, timers, firing>>
    BY <1>4 DEF ResumeEnqueue, DispatchEnqueue
  <2> QED
    BY <2>1, <2>2, SemUntouched, InflightAdd
<1>5. CASE Timers
  <2>1. UNCHANGED <<sem, pc, job>>
    BY <1>5 DEF Timers, TimerFires, TimerAbandons, TimerSends
  <2> QED
    BY <1>5, <2>1, SemUntouched, InflightTimers
<1>6. ASSUME NEW w \in Workers, Worker(w)
      PROVE  SemCounts' /\ InflightCounts'
  BY <1>6, SemAtWork, InflightAtWork
<1> QED
  BY <1>2, <1>3, <1>4, <1>5, <1>6 DEF Next, Resume, Feeder, Dispatcher

LEMMA CountInit == Init => CountInv
  BY InitTypes, InitTidy, InitCounts DEF Inv, Tidy, CountInv

LEMMA CountNext == CountInv /\ [Next]_vars => CountInv'
  BY NextTypes, NextTidy, NextCounts, NextQuiet DEF CountInv, Inv, Tidy

LEMMA CountsHold == Spec => []CountInv
  BY CountInit, CountNext, PTL DEF Spec

-----------------------------------------------------------------------------
(* Results.                                                                *)

\* The counters are never negative.
LEMMA CountedTypes == CountInv => TypeOK
<1> SUFFICES ASSUME CountInv
             PROVE  TypeOK
  OBVIOUS
<1>1. sem \in [Subscribers -> Nat]
  BY WorkersFinite DEF CountInv, SemCounts, Inv, Types
<1>2. inflight \in Nat
  BY WorkersFinite, FS_CardinalityType DEF CountInv, InflightCounts, Inv, Types
<1> QED
  BY <1>1, <1>2 DEF CountInv, Inv, Types, TypeOK

\* The tokens of a semaphore are the POSTs in progress.
LEMMA CountedPosts == CountInv => MaxParallelRespected
<1> SUFFICES ASSUME CountInv, NEW s \in Subscribers
             PROVE  Cardinality(Posters(s)) <= MaxParallel[s]
  BY DEF MaxParallelRespected, Posters
<1> QED
  BY DEF CountInv, SemCounts

\* Once inflightWg is at zero and the senders are done, the process holds no task.
LEMMA CountedClose == CountInv => SafeClose
  BY ClosedIsEmpty DEF CountInv, SafeClose

\* Every variable keeps its type: in particular no worker gives back a token its
\* subscriber's semaphore does not hold (it would block for ever) and inflightWg
\* never becomes negative (it would panic).
THEOREM TypesHold == Spec => []TypeOK
  BY CountedTypes, CountsHold, PTL

\* However many workers there are, the POSTs in progress to a subscriber never exceed
\* its max_parallel.
THEOREM ParallelLimit == Spec => []MaxParallelRespected
  BY CountedPosts, CountsHold, PTL

\* stopDelivery closes taskQueue when no goroutine or timer can send on it any more.
THEOREM CloseIsSafe == Spec => []SafeClose
  BY CountedClose, CountsHold, PTL

-----------------------------------------------------------------------------
(* No result is waited for in vain: a tracker that misses one has a task   *)
(* that will bring it, except when a retry was abandoned at shutdown.      *)

Missing(r) == trackers[r].expected \ DOMAIN trackers[r].results

Covered(r, b) == \E t \in Waiting \cup Working : t.run = r /\ t.sub = b

\* The result that completed the tracker was recorded by a worker that finalizes it.
Concluding(r) == \E w \in Workers : pc[w] = "finalize" /\ job[w].run = r

\* A worker's task is among the working ones as long as it keeps it.
LEMMA OthersWork ==
    ASSUME Inv, NEW w \in Workers, pc[w] # "idle", Return(w)
    PROVE  \A t \in Working \ {job[w]} : t \in Working'
<1> SUFFICES ASSUME NEW v \in Busy, job[v] # job[w]
             PROVE  job[v] \in Working'
  BY DEF Working
<1>1. v \in Workers \ {w} /\ pc'[v] = pc[v] /\ job'[v] = job[v] /\ pc[v] # "idle"
  BY Returned DEF Busy
<1> QED
  BY <1>1 DEF Working, Busy

\* A task goes on, as it is or as its own retry, until its result is recorded, its
\* timer is abandoned or the process ends.
LEMMA TaskStays ==
    ASSUME Inv, [Next]_vars, NEW t \in Waiting \cup Working
    PROVE  \/ \E u \in (Waiting \cup Working)' : Same(t, u) /\ u.event = t.event
           \/ t \in timers /\ TimerAbandons(t)
           \/ \E w \in Workers : job[w] = t /\ (RecordResult(w) \/ FinalizeEvent(w))
           \/ ProcessEnds
<1> DEFINE Goal == \/ \E u \in (Waiting \cup Working)' : Same(t, u) /\ u.event = t.event
                   \/ t \in timers /\ TimerAbandons(t)
                   \/ \E w \in Workers : job[w] = t /\ (RecordResult(w) \/ FinalizeEvent(w))
                   \/ ProcessEnds
<1>1. ASSUME t \in (Waiting \cup Working)'
      PROVE  Goal
  BY <1>1 DEF Same
<1> SUFFICES Goal
  OBVIOUS
<1> HIDE DEF Goal
<1>2. CASE UNCHANGED <<dispTasks, resumeTasks, taskQueue, pc, job, timers, firing>>
  BY <1>1, <1>2 DEF Waiting, Working, Busy, Elems
<1>3. CASE Boot \/ Serve \/ (\E e \in Events : Publish(e)) \/ Handlers
           \/ (\E c \in feed : FeedSend(c)) \/ CloseQueue \/ ChangeTable \/ Stop \/ Rest
           \/ UNCHANGED vars
  BY <1>2, <1>3
     DEF Boot, Resumable, Serve, Publish, InsertEvent, Handlers, HandlerSend, HandlerPanic,
         FeedSend, CloseQueue, ChangeTable, Stop, Rest, vars
<1>4. CASE FeedPanic \/ Exit \/ Crash
  BY <1>4 DEF FeedPanic, Exit, Crash, Goal
<1>5. CASE DispatchEvent \/ \E c \in resuming : ResumePartialEvent(c)
  <2>1. /\ dispTasks = {} \/ UNCHANGED dispTasks
        /\ resumeTasks = {} \/ UNCHANGED resumeTasks
        /\ UNCHANGED <<taskQueue, pc, job, timers, firing>>
    BY <1>5 DEF DispatchEvent, ResumePartialEvent
  <2> QED
    BY <1>1, <2>1 DEF Waiting, Working, Busy, Elems
<1>6. ASSUME NEW q, (q \in resumeTasks /\ ResumeEnqueue(q)) \/ (q \in dispTasks /\ DispatchEnqueue(q))
                       \/ (q \in firing /\ TimerSends(q))
      PROVE  Goal
  <2>1. /\ q \in Tasks /\ taskQueue \in Seq(Tasks)
        /\ taskQueue' = Append(taskQueue, q) /\ UNCHANGED <<pc, job, timers>>
        /\ dispTasks \subseteq dispTasks' \cup {q} /\ resumeTasks \subseteq resumeTasks' \cup {q}
        /\ firing \subseteq firing' \cup {q}
    BY <1>6 DEF ResumeEnqueue, DispatchEnqueue, TimerSends, Inv, Types
  <2>2. Elems(taskQueue)' = Elems(taskQueue) \cup {q}
    BY <2>1, AppendElems
  <2> QED
    BY <1>1, <2>1, <2>2 DEF Waiting, Working, Busy
<1>7. ASSUME NEW q \in timers, TimerFires(q) \/ TimerAbandons(q)
      PROVE  Goal
  <2>1. UNCHANGED <<dispTasks, resumeTasks, taskQueue, pc, job>> /\ timers' = timers \ {q}
        /\ firing \subseteq firing'
    BY <1>7 DEF TimerFires, TimerAbandons
  <2>2. CASE t = q /\ TimerAbandons(q)
    BY <2>2 DEF Goal
  <2>3. CASE t = q /\ TimerFires(q)
    BY <1>1, <2>3 DEF TimerFires, Waiting
  <2>4. CASE t # q
    BY <1>1, <2>1, <2>4 DEF Waiting, Working, Busy, Elems
  <2> QED
    BY <1>7, <2>2, <2>3, <2>4
<1>8. ASSUME NEW w \in Workers, Worker(w)
      PROVE  Goal
  <2>1. CASE Take(w)
    <3>1. /\ taskQueue \in Seq(Tasks) /\ taskQueue # <<>> /\ taskQueue' = Tail(taskQueue)
          /\ UNCHANGED <<dispTasks, resumeTasks, timers, firing>>
      BY <2>1 DEF Take, Inv, Types
    <3>2. Elems(taskQueue) = {Head(taskQueue)} \cup Elems(taskQueue)'
      BY <3>1, TailElems
    <3>3. /\ job'[w] = Head(taskQueue) /\ pc'[w] = "acquire" /\ w \notin Busy
          /\ \A v \in Workers \ {w} : pc'[v] = pc[v] /\ job'[v] = job[v]
      BY <2>1 DEF Take, Goto, Inv, Types, Busy
    <3>4. Working \subseteq Working' /\ Head(taskQueue) \in Working'
      BY <3>3 DEF Working, Busy
    <3> QED
      BY <1>1, <3>1, <3>2, <3>4 DEF Waiting
  <2>2. CASE Acquire(w) \/ (\E good \in BOOLEAN : Deliver(w, good)) \/ RecordAttempt(w)
    <3>1. Busy' = Busy /\ UNCHANGED <<dispTasks, resumeTasks, taskQueue, job, timers, firing>>
      BY <2>2 DEF Acquire, Deliver, RecordAttempt, Goto, Inv, Types, Busy
    <3> QED
      BY <1>1, <3>1 DEF Waiting, Working, Elems
  <2>3. CASE RecordResult(w) \/ FinalizeEvent(w)
    <3>1. /\ UNCHANGED <<dispTasks, resumeTasks, taskQueue, timers, firing>>
          /\ pc[w] # "idle"
          /\ Return(w) \/ (Goto(w, "finalize") /\ UNCHANGED job)
      BY <2>3 DEF RecordResult, FinalizeEvent
    <3>2. CASE job[w] = t
      BY <2>3, <3>2 DEF Goal
    <3>3. CASE t \in Working \ {job[w]} /\ Return(w)
      BY <1>1, <3>1, <3>3, OthersWork
    <3>4. CASE t \in Working /\ Goto(w, "finalize") /\ UNCHANGED job
      <4>1. Working' = Working
        BY <3>1, <3>4 DEF Goto, Working, Busy, Inv, Types
      <4> QED
        BY <1>1, <3>4, <4>1
    <3>5. CASE t \in Waiting
      BY <1>1, <3>1, <3>5 DEF Waiting, Elems
    <3> QED
      BY <3>1, <3>2, <3>3, <3>4, <3>5
  <2>4. CASE ScheduleRetry(w)
    <3>1. /\ UNCHANGED <<dispTasks, resumeTasks, taskQueue, firing>>
          /\ timers \subseteq timers' /\ pc[w] # "idle" /\ Return(w)
      BY <2>4 DEF ScheduleRetry
    <3>2. CASE t = job[w]
      <4>1. t \in Tasks
        BY <2>4, <3>2, TrackerOfWork DEF ScheduleRetry
      <4>2. PICK u \in Tasks :
                /\ u = [t EXCEPT !.attempt = @ + 1, !.retries = @ + 1]
                /\ u.event = t.event /\ u.sub = t.sub /\ u.run = t.run
        BY <4>1, RetryType
      <4>3. u \in Waiting'
        BY <2>4, <3>2, <4>2 DEF ScheduleRetry, Waiting
      <4> QED
        BY <4>2, <4>3 DEF Goal, Same
    <3>3. CASE t \in Working \ {job[w]}
      BY <1>1, <3>1, <3>3, OthersWork
    <3>4. CASE t \in Waiting
      BY <1>1, <3>1, <3>4 DEF Waiting, Elems
    <3> QED
      BY <3>2, <3>3, <3>4
  <2> QED
    BY <1>8, <2>1, <2>2, <2>3, <2>4 DEF Worker
<1> QED
  BY <1>3, <1>4, <1>5, <1>6, <1>7, <1>8 DEF Next, Resume, Feeder, Dispatcher, Timers

\* What a step makes of a tracker in use: nothing, one more result, or a new tracker
\* of which every expected subscription has its task.
LEMMA TrackerStays ==
    ASSUME Inv, [Next]_vars, NEW r \in Runs, trackers'[r] # NoTracker
    PROVE  \/ trackers'[r] = trackers[r]
           \/ \E w \in Workers :
                 /\ RecordResult(w) /\ job[w].run = r
                 /\ trackers'[r].event = trackers[r].event
                 /\ trackers'[r].expected = trackers[r].expected
                 /\ DOMAIN trackers'[r].results = DOMAIN trackers[r].results \cup {job[w].sub}
           \/ /\ trackers[r] = NoTracker /\ Missing(r)' # {}
              /\ \A b \in Missing(r)' : Covered(r, b)'
<1> DEFINE Built == trackers[r] = NoTracker /\ Missing(r)' # {} /\ \A b \in Missing(r)' : Covered(r, b)'
<1>1. CASE trackers' = trackers
  BY <1>1
<1>2. ASSUME NEW c \in Copies, NEW q \in Runs, NEW S \in SUBSET Subscriptions, NEW prior, S # {},
             trackers[q] = NoTracker,
             trackers' = [trackers EXCEPT ![q] = NewTracker(c, S)],
             dispTasks' = TasksFor(c, q, S, prior) \/ resumeTasks' = TasksFor(c, q, S, prior)
      PROVE  trackers'[r] = trackers[r] \/ Built
  <2>1. CASE r # q
    BY <1>2, <2>1 DEF Inv, Types
  <2>2. CASE r = q
    <3>1. trackers'[r] = NewTracker(c, S)
      BY <1>2, <2>2 DEF Inv, Types
    <3>2. Missing(r)' = S
      BY <3>1, NewTrackerType DEF Missing
    <3>3. ASSUME NEW b \in S
          PROVE  \E t \in TasksFor(c, r, S, prior) : t.run = r /\ t.sub = b
      <4>1. PICK t : t = [event |-> c.event, sub |-> b, attempt |-> prior[Owner[b]],
                          retries |-> c.retries, run |-> r]
        OBVIOUS
      <4>2. t \in TasksFor(c, r, S, prior) /\ t.run = r /\ t.sub = b
        BY <4>1 DEF TasksFor
      <4> QED
        BY <4>2
    <3>4. TasksFor(c, r, S, prior) \subseteq (Waiting \cup Working)'
      BY <1>2, <2>2 DEF Waiting
    <3>5. \A b \in S : Covered(r, b)'
      BY <3>3, <3>4 DEF Covered
    <3> QED
      BY <1>2, <3>2, <3>5
  <2> QED
    BY <2>1, <2>2
<1>3. ASSUME NEW c \in resuming, ResumePartialEvent(c)
      PROVE  trackers'[r] = trackers[r] \/ Built
  <2>1. c \in Copies /\ c.event \in Events
    BY DEF Inv, Types, Copies
  <2>2. CASE UNCHANGED heap
    BY <1>1, <2>2
  <2>3. ASSUME NEW q \in Runs, ResumeWithTasks(c, q), Remaining(c.event) # {}
        PROVE  trackers'[r] = trackers[r] \/ Built
    BY <1>2, <2>1, <2>3, ChosenType DEF ResumeWithTasks, Inv
  <2> QED
    BY <1>3, <2>2, <2>3 DEF ResumePartialEvent, ResumeGivesUp, ResumeWithoutTasks
<1>4. CASE DispatchEvent
  <2> DEFINE c == Head(chan)
  <2>1. c \in Copies /\ c.event \in Events
    <3>1. chan \in Seq(Copies) /\ chan # <<>>
      BY <1>4 DEF DispatchEvent, Inv, Types
    <3>2. c \in Copies
      BY <3>1, TailElems
    <3> QED
      BY <3>2 DEF Copies
  <2> HIDE DEF c
  <2>2. CASE UNCHANGED heap
    BY <1>1, <2>2
  <2>3. ASSUME NEW q \in Runs, DispatchWithTasks(c, q), Chosen(c.event) # {}
        PROVE  trackers'[r] = trackers[r] \/ Built
    BY <1>2, <2>1, <2>3, ChosenType DEF DispatchWithTasks, Inv
  <2> QED
    BY <1>4, <2>2, <2>3 DEF DispatchEvent, DispatchWithoutTasks, c
<1>5. ASSUME NEW w \in Workers, RecordResult(w)
      PROVE  \/ trackers'[r] = trackers[r]
             \/ /\ job[w].run = r
                /\ trackers'[r].event = trackers[r].event
                /\ trackers'[r].expected = trackers[r].expected
                /\ DOMAIN trackers'[r].results = DOMAIN trackers[r].results \cup {job[w].sub}
  <2> DEFINE u == WithResult(trackers[job[w].run], job[w].sub, ok[w])
  <2>1. /\ trackers[job[w].run] \in Trackers /\ job[w].sub \in Subscriptions
        /\ ok[w] \in BOOLEAN /\ job[w].run \in Runs
    BY <1>5, TrackerOfWork DEF RecordResult, Inv, Types
  <2>2. /\ u.event = trackers[job[w].run].event /\ u.expected = trackers[job[w].run].expected
        /\ DOMAIN u.results = DOMAIN trackers[job[w].run].results \cup {job[w].sub}
    BY <2>1, TrackerWithResult
  <2>3. trackers' = [trackers EXCEPT ![job[w].run] = u]
    BY <1>5 DEF RecordResult, WithResult
  <2> HIDE DEF u
  <2> QED
    BY <2>1, <2>2, <2>3 DEF Inv, Types
<1>6. ASSUME NEW w \in Workers, FinalizeEvent(w)
      PROVE  trackers'[r] = trackers[r]
  <2>1. trackers' = [trackers EXCEPT ![job[w].run] = NoTracker] /\ job[w].run \in Runs
    BY <1>6, TrackerOfWork DEF FinalizeEvent
  <2> QED
    BY <2>1 DEF Inv, Types
<1>7. CASE FeedPanic \/ Exit \/ Crash
  BY <1>7 DEF FeedPanic, Exit, Crash, ProcessEnds
<1>8. CASE Boot \/ Serve \/ (\E e \in Events : Publish(e)) \/ Handlers
           \/ (\E c \in feed : FeedSend(c)) \/ CloseQueue \/ ChangeTable \/ Stop \/ Rest
           \/ Timers \/ (\E t \in resumeTasks : ResumeEnqueue(t))
           \/ (\E t \in dispTasks : DispatchEnqueue(t)) \/ UNCHANGED vars
  BY <1>1, <1>8
     DEF Boot, Resumable, Serve, Publish, InsertEvent, Handlers, HandlerSend, HandlerPanic,
         FeedSend, CloseQueue, ChangeTable, Stop, Rest, vars, Timers, TimerFires, TimerAbandons,
         TimerSends, ResumeEnqueue, DispatchEnqueue
<1>9. ASSUME NEW w \in Workers,
             Take(w) \/ Acquire(w) \/ (\E good \in BOOLEAN : Deliver(w, good))
                     \/ RecordAttempt(w) \/ ScheduleRetry(w)
      PROVE  trackers'[r] = trackers[r]
  BY <1>1, <1>9 DEF Take, Acquire, Deliver, RecordAttempt, ScheduleRetry
<1> QED
  BY <1>3, <1>4, <1>5, <1>6, <1>7, <1>8, <1>9 DEF Next, Resume, Feeder, Dispatcher, Worker

\* A result that is missed is covered, unless the timer of its retry was just abandoned.
LEMMA StillCovered ==
    ASSUME Inv, [Next]_vars, NEW r \in Runs, trackers'[r] # NoTracker, NEW b \in Missing(r)',
           trackers[r] # NoTracker /\ b \in Missing(r) => Covered(r, b)
    PROVE  \/ Covered(r, b)'
           \/ \E t \in timers : t.run = r /\ t.sub = b /\ TimerAbandons(t)
<1>0. CASE \A x \in Missing(r)' : Covered(r, x)'
  BY <1>0
<1>1. SUFFICES ASSUME trackers[r] # NoTracker, b \in Missing(r), ~Covered(r, b)'
               PROVE  \E t \in timers : t.run = r /\ t.sub = b /\ TimerAbandons(t)
  <2>1. ASSUME NEW w \in Workers, RecordResult(w), job[w].run = r
        PROVE  trackers[r] # NoTracker
    BY <2>1, TrackerOfWork DEF RecordResult
  <2>2. \/ Covered(r, b)'
        \/ trackers[r] # NoTracker /\ b \in Missing(r)
    BY <1>0, <2>1, TrackerStays DEF Missing
  <2> QED
    BY <2>2
<1>2. PICK t \in Waiting \cup Working : t.run = r /\ t.sub = b
  BY <1>1 DEF Covered
<1>3. ~\E u \in (Waiting \cup Working)' : Same(t, u)
  BY <1>1, <1>2 DEF Covered, Same
<1>4. ASSUME NEW w \in Workers, job[w] = t, RecordResult(w)
      PROVE  FALSE
  <2> DEFINE u == WithResult(trackers[r], b, ok[w])
  <2>1. /\ trackers[r] \in Trackers /\ b \in Subscriptions /\ ok[w] \in BOOLEAN
    BY <1>2, <1>4, TrackerOfWork DEF RecordResult, Inv, Types
  <2>2. b \in DOMAIN u.results
    BY <2>1, TrackerWithResult
  <2>3. trackers' = [trackers EXCEPT ![r] = u]
    BY <1>2, <1>4 DEF RecordResult, WithResult
  <2>4. trackers'[r] = u
    BY <2>3 DEF Inv, Types
  <2> QED
    BY <2>2, <2>4 DEF Missing
<1>5. ASSUME NEW w \in Workers, job[w] = t, FinalizeEvent(w)
      PROVE  FALSE
  BY <1>2, <1>5 DEF FinalizeEvent, Inv, Types
<1>6. ~ProcessEnds
  BY DEF ProcessEnds
<1> QED
  BY <1>2, <1>3, <1>4, <1>5, <1>6, TaskStays

\* A complete tracker has a worker that finalizes it.
LEMMA StillConcluding ==
    ASSUME Inv, [Next]_vars, NEW r \in Runs, trackers'[r] # NoTracker, Missing(r)' = {},
           trackers[r] # NoTracker /\ Missing(r) = {} => Concluding(r)
    PROVE  Concluding(r)'
<1>1. CASE trackers'[r] = trackers[r]
  <2>1. PICK w \in Workers : pc[w] = "finalize" /\ job[w].run = r
    BY <1>1 DEF Missing, Concluding
  <2>2. ~FinalizeEvent(w)
    BY <2>1 DEF FinalizeEvent, Inv, Types
  <2>3. ~ProcessEnds
    BY DEF ProcessEnds
  <2>4. pc'[w] = pc[w] /\ job'[w] = job[w]
    <3>1. ASSUME NEW v \in Workers, Worker(v)
          PROVE  pc'[w] = pc[w] /\ job'[w] = job[w]
      BY <2>1, <2>2, <3>1 DEF Worker, Take, Acquire, Deliver, RecordAttempt, RecordResult,
                              FinalizeEvent, ScheduleRetry, Goto, Return, Inv, Types
    <3>2. CASE Boot \/ Resume \/ Serve \/ (\E e \in Events : Publish(e)) \/ Handlers
               \/ (\E c \in feed : FeedSend(c)) \/ Dispatcher \/ Timers \/ ChangeTable \/ Stop
               \/ Rest \/ UNCHANGED vars
      BY <3>2 DEF Boot, Resumable, Resume, ResumePartialEvent, ResumeEnqueue, Serve, Publish,
                  InsertEvent, Handlers, HandlerSend, HandlerPanic, FeedSend, Dispatcher,
                  DispatchEvent, DispatchEnqueue, CloseQueue, Timers, TimerFires, TimerAbandons,
                  TimerSends, ChangeTable, Stop, Rest, vars
    <3> QED
      BY <2>3, <3>1, <3>2 DEF Next, Feeder, FeedPanic, Exit, Crash
  <2> QED
    BY <2>1, <2>4 DEF Concluding
<1>2. ASSUME NEW w \in Workers, RecordResult(w), job[w].run = r
      PROVE  Concluding(r)'
  <2> DEFINE u == WithResult(trackers[r], job[w].sub, ok[w])
  <2>1. /\ trackers[r] \in Trackers /\ job[w].sub \in Subscriptions /\ ok[w] \in BOOLEAN
        /\ trackers[r].expected \in SUBSET Subscriptions /\ job[w].sub \in trackers[r].expected
        /\ trackers[r] # NoTracker
    BY <1>2, TrackerOfWork DEF RecordResult, Inv, Types
  <2>2. /\ u.expected = trackers[r].expected
        /\ DOMAIN u.results = DOMAIN trackers[r].results \cup {job[w].sub}
    BY <2>1, TrackerWithResult
  <2>3. trackers' = [trackers EXCEPT ![r] = u]
    BY <1>2 DEF RecordResult, WithResult
  <2>4. trackers'[r] = u
    BY <2>3 DEF Inv, Types
  <2>5. DOMAIN u.results = u.expected
    BY <2>1, <2>2, <2>4 DEF Missing, Inv, Collected
  <2>6. Complete(u)
    BY <2>5 DEF Complete
  <2> HIDE DEF u
  <2>7. Goto(w, "finalize") /\ UNCHANGED job
    BY <1>2, <2>6 DEF RecordResult, WithResult, u
  <2> QED
    BY <1>2, <2>7 DEF Goto, Concluding, Inv, Types
<1> QED
  BY <1>1, <1>2, TrackerStays
=============================================================================
