---------------------------- MODULE ReplayProofs ----------------------------
(***************************************************************************)
(* Safety of the pipeline beside replays, for all values of the constants. *)
(*                                                                         *)
(* What replays write - the posting handlers' copies, statuses, attempts,  *)
(* the endpoints' answers - is not what the invariant of the pipeline      *)
(* alone, CountInv, rests on (ReplayedBeside).  On top of it stands what   *)
(* keeps an unfinished event in somebody's hands: every result that a      *)
(* tracker misses is on its way (AllCovered).  A retry count is written    *)
(* from a copy, a tracker or a task, none of which has counted more than   *)
(* the failed attempts on record (Counted).                                *)
(***************************************************************************)
EXTENDS Replay, DeliveryProofs

USE DEF db, world, main, counts, senders, queues, pool, retry, heap, limits

-----------------------------------------------------------------------------
(* Types.                                                                  *)

SoloTypes ==
    /\ solo \in [Goroutines -> Replays \cup {NoReplay}]
    /\ replays \in 0..MaxReplays

BesideInv == CountInv /\ SoloTypes

\* Replays leave the tasks, the workers, the semaphores and inflightWg alone.
LEMMA ReplayedBeside ==
    ASSUME CountInv, Types', UNCHANGED <<main, queues, pool, retry, heap, limits>>
    PROVE  CountInv'
<1>1. Inv'
  BY TidyUntouched DEF CountInv, Inv, Tidy
<1>2. SemCounts' /\ InflightCounts'
  BY SemUntouched, InflightUntouched DEF CountInv
<1>3. Quiet'
  BY DEF CountInv, Quiet
<1> QED
  BY <1>1, <1>2, <1>3 DEF CountInv

\* A goroutine at work holds a replay.
LEMMA ReplayAt ==
    ASSUME SoloTypes, NEW g \in Goroutines, NEW point, At(g, point)
    PROVE  /\ solo[g] \in Replays
           /\ solo[g].event \in Events /\ solo[g].to \in Subscribers
           /\ solo[g].retries \in Nat /\ solo[g].good \in BOOLEAN
  BY DEF SoloTypes, At, Replays

\* A replay goes on.
LEMMA ReplayGoesOn ==
    ASSUME NEW p \in Replays, NEW point \in {"reset", "post", "insert", "finish"},
           NEW good \in BOOLEAN
    PROVE  /\ [p EXCEPT !.at = point] \in Replays
           /\ [p EXCEPT !.at = point].event = p.event
           /\ [p EXCEPT !.at = point, !.good = good] \in Replays
           /\ [p EXCEPT !.at = point, !.good = good].event = p.event
  BY DEF Replays

LEMMA SoloStep ==
    ASSUME BesideInv, NEW g \in Goroutines, ReplayToSubscriber(g)
    PROVE  BesideInv'
<1> USE DEF BesideInv
<1>0. PICK point : At(g, point)
  BY DEF ReplayToSubscriber, ResetStatus, Post, RecordReplay, EndReplay
<1>1. /\ solo[g] \in Replays /\ solo[g] # NoReplay
      /\ solo[g].event \in Events /\ solo[g].to \in Subscribers
      /\ solo[g].retries \in Nat /\ solo[g].good \in BOOLEAN
  BY <1>0, ReplayAt DEF At
<1>2. SoloTypes'
  <2>1. \E p \in Replays \cup {NoReplay} : solo' = [solo EXCEPT ![g] = p]
    <3>1. CASE ResetStatus(g)
      BY <1>1, <3>1, ReplayGoesOn DEF ResetStatus
    <3>2. ASSUME NEW good \in BOOLEAN, Post(g, good)
          PROVE  \E p \in Replays \cup {NoReplay} : solo' = [solo EXCEPT ![g] = p]
      <4>1. solo' = [solo EXCEPT ![g] = [solo[g] EXCEPT !.at = "insert", !.good = good]]
        BY <3>2 DEF Post
      <4> QED
        BY <1>1, <4>1, ReplayGoesOn
    <3>3. CASE RecordReplay(g)
      BY <1>1, <3>3, ReplayGoesOn DEF RecordReplay
    <3>4. CASE EndReplay(g)
      BY <3>4 DEF EndReplay
    <3> QED
      BY <3>1, <3>2, <3>3, <3>4 DEF ReplayToSubscriber
  <2>2. UNCHANGED replays
    BY DEF ReplayToSubscriber, ResetStatus, Post, RecordReplay, EndReplay
  <2> QED
    BY <2>1, <2>2 DEF SoloTypes
<1>3. UNCHANGED <<main, counts, senders, queues, pool, retry, heap, limits>>
  BY DEF ReplayToSubscriber, ResetStatus, Post, RecordReplay, EndReplay
<1>4. Types'
  <2>1. ASSUME NEW st \in Unfinished \cup Final,
               UpdateEventStatus(solo[g].event, solo[g].retries, st),
               UNCHANGED <<failed, succeeded, world>>
        PROVE  Types'
    <3>1. /\ status' \in [Events -> {"none"} \cup Unfinished \cup Final]
          /\ retries' \in [Events -> Nat]
      BY <1>1, <2>1, StatusWriteType DEF CountInv, Inv
    <3> QED
      BY <1>3, <2>1, <3>1 DEF CountInv, Inv, Types
  <2>2. CASE ResetStatus(g)
    <3>1. /\ UpdateEventStatus(solo[g].event, solo[g].retries, "pending")
          /\ UNCHANGED <<failed, succeeded, world>>
      BY <2>2 DEF ResetStatus
    <3>2. "pending" \in Unfinished \cup Final
      BY DEF Unfinished
    <3> QED
      BY <2>1, <3>1, <3>2
  <2>3. ASSUME NEW good \in BOOLEAN, Post(g, good)
        PROVE  Types'
    <3>1. accepted \subseteq Events \X Subscribers
      BY DEF CountInv, Inv, Types
    <3>2. accepted' \subseteq Events \X Subscribers /\ UNCHANGED <<db, plan, table, changes>>
      BY <1>1, <2>3, <3>1 DEF Post
    <3> QED
      BY <1>3, <3>2 DEF CountInv, Inv, Types
  <2>4. CASE RecordReplay(g)
    <3>1. /\ failed' \in [Events -> [Subscribers -> Nat]]
          /\ succeeded' \in [Events -> [Subscribers -> Nat]]
      BY <1>1, <2>4, InsertAttemptType DEF RecordReplay, CountInv, Inv
    <3>2. UNCHANGED <<status, retries, world>>
      BY <2>4 DEF RecordReplay
    <3> QED
      BY <1>3, <3>1, <3>2 DEF CountInv, Inv, Types
  <2>5. CASE EndReplay(g)
    BY <1>1, <2>1, <2>5 DEF EndReplay, Final
  <2> QED
    BY <2>2, <2>3, <2>4, <2>5 DEF ReplayToSubscriber
<1> QED
  BY <1>2, <1>3, <1>4, ReplayedBeside

\* The requests: replay to all, replay to one subscriber.
LEMMA AskStep ==
    ASSUME BesideInv,
           \/ \E e \in Events : ReplayAll(e)
           \/ \E g \in Goroutines, e \in Events, s \in Subscribers : ReplaySubscriber(g, e, s)
    PROVE  BesideInv'
<1> USE DEF BesideInv
<1>0. replays < MaxReplays /\ replays' = replays + 1 => replays' \in 0..MaxReplays
  BY ReplayAssumption DEF SoloTypes
<1>1. ASSUME NEW e \in Events, ReplayAll(e)
      PROVE  BesideInv'
  <2>1. Types'
    BY <1>1, StoredCopyType DEF ReplayAll, CountInv, Inv, Types
  <2>2. SoloTypes'
    BY <1>0, <1>1 DEF ReplayAll, SoloTypes
  <2> QED
    BY <1>1, <2>1, <2>2, ReplayedBeside DEF ReplayAll
<1>2. ASSUME NEW g \in Goroutines, NEW e \in Events, NEW s \in Subscribers,
             ReplaySubscriber(g, e, s)
      PROVE  BesideInv'
  <2>1. [at |-> "reset", event |-> e, to |-> s, retries |-> retries[e], good |-> FALSE] \in Replays
    BY DEF Replays, CountInv, Inv, Types
  <2>2. SoloTypes'
    BY <1>0, <1>2, <2>1 DEF ReplaySubscriber, SoloTypes
  <2>3. Types'
    BY <1>2 DEF ReplaySubscriber, vars, CountInv, Inv, Types
  <2> QED
    BY <1>2, <2>2, <2>3, ReplayedBeside DEF ReplaySubscriber, vars
<1> QED
  BY <1>1, <1>2

LEMMA BesideNext == BesideInv /\ [ReplayNext]_replayVars => BesideInv'
<1> SUFFICES ASSUME BesideInv, [ReplayNext]_replayVars
             PROVE  BesideInv'
  OBVIOUS
<1>1. CASE Pipeline
  <2>1. SoloTypes'
    BY <1>1 DEF Pipeline, BesideInv, SoloTypes
  <2> QED
    BY <1>1, <2>1, CountNext DEF Pipeline, BesideInv
<1>2. ASSUME NEW e \in Events, EventCreateSubmit(e)
      PROVE  BesideInv'
  <2>1. [Next]_vars
    BY <1>2 DEF EventCreateSubmit, Next
  <2>2. SoloTypes'
    BY <1>2 DEF EventCreateSubmit, soloVars, BesideInv, SoloTypes
  <2> QED
    BY <2>1, <2>2, CountNext DEF BesideInv
<1>3. CASE UNCHANGED replayVars
  <2>1. SoloTypes'
    BY <1>3 DEF replayVars, soloVars, BesideInv, SoloTypes
  <2> QED
    BY <1>3, <2>1, CountNext DEF replayVars, BesideInv
<1> QED
  BY <1>1, <1>2, <1>3, SoloStep, AskStep DEF ReplayNext

LEMMA BesideInit == ReplayInit => BesideInv
  BY CountInit, ReplayAssumption DEF ReplayInit, BesideInv, SoloTypes

LEMMA BesideHolds == ReplaySpec => []BesideInv
  BY BesideInit, BesideNext, PTL DEF ReplaySpec

-----------------------------------------------------------------------------
(* What holds of the pipeline alone and still holds beside replays.        *)

\* Every variable keeps its type, also with events that are dispatched again while
\* they are being delivered and with POSTs that no semaphore counts.
THEOREM ReplayTypesHold == ReplaySpec => []ReplayTypeOK
<1>1. BesideInv => ReplayTypeOK
  BY CountedTypes DEF BesideInv, SoloTypes, ReplayTypeOK
<1> QED
  BY <1>1, BesideHolds, PTL

\* Replays to all keep to max_parallel; replays to one subscriber are not counted.
THEOREM ReplayParallelLimit == ReplaySpec => []MaxParallelRespected
<1>1. BesideInv => MaxParallelRespected
  BY CountedPosts DEF BesideInv
<1> QED
  BY <1>1, BesideHolds, PTL

\* No replay sends on taskQueue after it is closed.
THEOREM ReplayCloseIsSafe == ReplaySpec => []SafeClose
<1>1. BesideInv => SafeClose
  BY CountedClose DEF BesideInv
<1> QED
  BY <1>1, BesideHolds, PTL

-----------------------------------------------------------------------------
(* Nothing is stranded.                                                    *)

\* A process that is down has no buffered event and no tracker.
Asleep == phase = "down" => chan = <<>> /\ \A r \in Runs : trackers[r] = NoTracker

\* While no timer is abandoned every result that a tracker misses has its task.
AllCovered ==
    Open => \A r \in Runs : trackers[r] # NoTracker => \A b \in Missing(r) : Covered(r, b)

Soloed(e) == \E g \in Goroutines : solo[g] # NoReplay /\ solo[g].event = e

\* NothingStranded, and already while the process boots.
Attended ==
    (Open /\ ~DbMayFail /\ ~CacheMayFail) =>
        \A e \in Events : status[e] \in Unfinished => Held(e) \/ Soloed(e)

StrandInv == BesideInv /\ Asleep /\ AllCovered /\ Attended

LEMMA TasksInHand == HeldTasks = Waiting \cup Working
  BY DEF HeldTasks, Waiting, Working

\* Nothing runs in a process that is down, and it can only be started.
LEMMA DownIsDown ==
    ASSUME CountInv, Asleep, phase = "down", [Next]_vars
    PROVE  Boot \/ UNCHANGED vars
<1>1. resuming = {} /\ resumeTasks = {} /\ chan = <<>> /\ \A r \in Runs : trackers[r] = NoTracker
  BY DEF CountInv, Quiet, Asleep
<1>2. Waiting \cup Working \subseteq Tasks
  BY TaskTypes DEF CountInv
<1>3. Waiting = {} /\ Working = {}
  BY <1>1, <1>2 DEF CountInv, Inv, Awaited, Tasks
<1>4. dispTasks = {} /\ timers = {} /\ firing = {} /\ Busy = {} /\ Elems(taskQueue) = {}
  BY <1>3 DEF Waiting, Working
<1>5. taskQueue = <<>>
  <2> SUFFICES ASSUME taskQueue # <<>>
               PROVE  FALSE
    OBVIOUS
  <2>1. taskQueue \in Seq(Tasks)
    BY DEF CountInv, Inv, Types
  <2>2. Head(taskQueue) \in Elems(taskQueue)
    BY <2>1, TailElems
  <2> QED
    BY <1>4, <2>2
<1>6. \A w \in Workers : pc[w] = "idle"
  BY <1>4 DEF Busy
<1>7. ASSUME NEW w \in Workers, Worker(w)
      PROVE  FALSE
  BY <1>5, <1>6, <1>7 DEF Worker, Take, Acquire, Deliver, RecordAttempt, RecordResult,
                          FinalizeEvent, ScheduleRetry
<1> QED
  BY <1>1, <1>4, <1>7
     DEF Next, Resume, Serve, Publish, Handlers, HandlerSend, HandlerPanic, Feeder, FeedSend,
         FeedPanic, Open, Dispatcher, DispatchEvent, CloseQueue, Timers, ChangeTable, Stop, Exit,
         Crash, Rest

\* Once shutdownCtx is cancelled it stays so until the next start.
LEMMA OpenBefore ==
    ASSUME CountInv, [Next]_vars, Open', phase # "down"
    PROVE  Open /\ ~ProcessEnds
<1>1. ~ProcessEnds
  BY DEF ProcessEnds, Open
<1>2. ASSUME UNCHANGED phase
      PROVE  Open
  BY <1>2 DEF Open
<1>3. CASE Resume \/ Handlers \/ Timers \/ DispatchEvent \/ ChangeTable \/ Rest
           \/ (\E t \in dispTasks : DispatchEnqueue(t)) \/ (\E c \in feed : FeedSend(c))
           \/ (\E e \in Events : Publish(e)) \/ UNCHANGED vars
  <2>1. CASE Resume \/ Timers
    BY <1>1, <1>2, <2>1 DEF Resume, ResumePartialEvent, ResumeEnqueue, Timers, TimerFires,
                      TimerAbandons, TimerSends
  <2>2. CASE Handlers \/ (\E c \in feed : FeedSend(c)) \/ (\E e \in Events : Publish(e))
    BY <1>1, <1>2, <2>2 DEF Handlers, HandlerSend, HandlerPanic, FeedSend, Publish
  <2>3. CASE DispatchEvent \/ (\E t \in dispTasks : DispatchEnqueue(t))
    BY <1>1, <1>2, <2>3 DEF DispatchEvent, DispatchEnqueue
  <2>4. CASE ChangeTable \/ Rest \/ UNCHANGED vars
    BY <1>1, <1>2, <2>4 DEF ChangeTable, Rest, vars
  <2> QED
    BY <1>3, <2>1, <2>2, <2>3, <2>4
<1>4. ASSUME NEW w \in Workers, Worker(w)
      PROVE  Open
  BY <1>2, <1>4 DEF Worker, Take, Acquire, Deliver, RecordAttempt, RecordResult, FinalizeEvent,
                    ScheduleRetry
<1>5. CASE Boot \/ Serve \/ Stop \/ CloseQueue \/ FeedPanic \/ Exit \/ Crash
  BY <1>1, <1>5 DEF Boot, Serve, Stop, CloseQueue, FeedPanic, Exit, Crash, Open
<1> QED
  BY <1>1, <1>3, <1>4, <1>5 DEF Next, Feeder, Dispatcher

\* A running process goes down by ending.
LEMMA PhaseFalls ==
    ASSUME [Next]_vars, phase # "down", phase' = "down"
    PROVE  ProcessEnds
<1>1. ~UNCHANGED phase
  OBVIOUS
<1>2. ASSUME NEW w \in Workers
      PROVE  ~Worker(w)
  BY <1>1 DEF Worker, Take, Acquire, Deliver, RecordAttempt, RecordResult, FinalizeEvent,
              ScheduleRetry
<1>3. ~Boot /\ ~Serve /\ ~Stop /\ ~CloseQueue /\ ~ChangeTable /\ ~Rest /\ ~UNCHANGED vars
  BY <1>1 DEF Boot, Serve, Stop, CloseQueue, ChangeTable, Rest, vars
<1>4. ~Resume /\ ~Timers
  BY <1>1 DEF Resume, ResumePartialEvent, ResumeEnqueue, Timers, TimerFires, TimerAbandons,
              TimerSends
<1>5. ~DispatchEvent /\ ~\E t \in dispTasks : DispatchEnqueue(t)
  BY <1>1 DEF DispatchEvent, DispatchEnqueue
<1>6. ~Handlers /\ ~(\E c \in feed : FeedSend(c)) /\ ~\E e \in Events : Publish(e)
  BY <1>1 DEF Handlers, HandlerSend, HandlerPanic, FeedSend, Publish
<1>7. FeedPanic \/ Exit \/ Crash
  BY <1>2, <1>3, <1>4, <1>5, <1>6 DEF Next, Feeder, Dispatcher
<1> QED
  BY <1>7 DEF FeedPanic, Exit, Crash

\* A worker that records a result which does not complete its tracker leaves the event
\* to another task.
LEMMA ResultLeft ==
    ASSUME CountInv, AllCovered', Open', NEW w \in Workers, RecordResult(w),
           NEW r, r = job[w].run
    PROVE  \E v \in (Waiting \cup Working)' : v.event = job[w].event
<1> DEFINE u == WithResult(trackers[r], job[w].sub, ok[w])
<1>1. /\ job[w] \in Tasks /\ r \in Runs /\ job[w].sub \in Subscriptions
      /\ trackers[r] \in Trackers /\ trackers[r].event = job[w].event
      /\ ok[w] \in BOOLEAN /\ pc[w] = "settle"
  BY TrackerOfWork DEF RecordResult, CountInv, Inv, Types
<1>2. /\ u.event = job[w].event /\ u.expected = trackers[r].expected
      /\ u \in Trackers /\ u # NoTracker
  BY <1>1, TrackerWithResult, NullAssumption
<1>3. trackers' = [trackers EXCEPT ![r] = u] /\ trackers'[r] = u
  BY <1>1 DEF RecordResult, WithResult, CountInv, Inv, Types
<1>4. Inv'
  BY CountNext DEF Next, Worker, CountInv
<1>5. CASE Complete(u)
  <2>1. job' = job /\ pc' = [pc EXCEPT ![w] = "finalize"]
    BY <1>5 DEF RecordResult, WithResult, Return, Goto
  <2>2. job[w] \in Working'
    BY <1>1, <2>1 DEF Working, Busy, CountInv, Inv, Types
  <2> QED
    BY <2>2
<1>6. CASE ~Complete(u)
  <2>1. DOMAIN u.results \subseteq u.expected /\ DOMAIN u.results # u.expected
    BY <1>1, <1>2, <1>3, <1>4, <1>6 DEF Complete, Inv, Collected
  <2>2. PICK b \in Missing(r)' : TRUE
    BY <1>3, <2>1 DEF Missing
  <2>3. PICK v \in (Waiting \cup Working)' : v.run = r
    BY <1>1, <1>2, <1>3, <2>2 DEF AllCovered, Covered
  <2>4. trackers'[v.run].event = v.event
    BY <1>4 DEF Inv, Awaited
  <2> QED
    BY <1>2, <1>3, <2>3, <2>4
<1> QED
  BY <1>5, <1>6

\* An event with a task keeps one until its final status is written.
LEMMA TaskInHand ==
    ASSUME CountInv, [Next]_vars, AllCovered', Open', phase # "down", ~DbMayFail,
           NEW t \in Waiting \cup Working, status'[t.event] \in Unfinished
    PROVE  Held(t.event)'
<1>1. ASSUME NEW u \in (Waiting \cup Working)', u.event = t.event
      PROVE  Held(t.event)'
  BY <1>1 DEF Held, HeldTasks, Waiting, Working
<1>2. ~(t \in timers /\ TimerAbandons(t)) /\ ~ProcessEnds
  BY OpenBefore DEF TimerAbandons
<1>3. ASSUME NEW w \in Workers, job[w] = t, RecordResult(w)
      PROVE  Held(t.event)'
  BY <1>1, <1>3, ResultLeft
<1>4. ASSUME NEW w \in Workers, job[w] = t, FinalizeEvent(w)
      PROVE  FALSE
  <2>1. trackers[t.run].event = t.event /\ t.event \in Events
    BY <1>4, TrackerOfWork DEF FinalizeEvent, CountInv
  <2>2. status' = [status EXCEPT ![t.event] = FinalStatus(trackers[t.run])]
    BY <1>4, <2>1 DEF FinalizeEvent, UpdateEventStatus
  <2> QED
    BY <2>1, <2>2 DEF FinalStatus, Unfinished, CountInv, Inv, Types
<1> QED
  BY <1>1, <1>2, <1>3, <1>4, TaskStays DEF CountInv

\* With no database error an event whose final status is written is finished.
LEMMA FinalWritten ==
    ASSUME CountInv, ~DbMayFail, NEW e \in Events, NEW rc, NEW st \in Final,
           UpdateEventStatus(e, rc, st)
    PROVE  status'[e] \notin Unfinished
  BY DEF UpdateEventStatus, CountInv, Inv, Types, Final, Unfinished

\* The tasks built for a copy hold its event.
LEMMA BuiltInHand ==
    ASSUME NEW c \in Copies, NEW r, NEW S, NEW prior, S # {},
           TasksFor(c, r, S, prior) \subseteq (dispTasks' \cup resumeTasks')
    PROVE  Held(c.event)'
<1>1. PICK b \in S : TRUE
  OBVIOUS
<1>2. PICK t : t = [event |-> c.event, sub |-> b, attempt |-> prior[Owner[b]],
                    retries |-> c.retries, run |-> r]
  OBVIOUS
<1>3. t \in TasksFor(c, r, S, prior) /\ t.event = c.event
  BY <1>2 DEF TasksFor
<1>4. t \in HeldTasks'
  BY <1>3 DEF HeldTasks
<1> QED
  BY <1>3, <1>4 DEF Held

\* A partial event taken up gets its remaining tasks or a final status.
LEMMA ResumedInHand ==
    ASSUME CountInv, ~DbMayFail, ~CacheMayFail, NEW c \in resuming, ResumePartialEvent(c),
           status'[c.event] \in Unfinished
    PROVE  Held(c.event)'
<1>1. c \in Copies /\ c.event \in Events
  BY DEF CountInv, Inv, Types, Copies
<1>2. ~ResumeGivesUp(c) /\ ~ResumeWithoutTasks(c, "recorded") /\ ~ResumeWithoutTasks(c, "delivered")
  BY <1>1, FinalWritten DEF ResumeGivesUp, ResumeWithoutTasks, Final
<1>3. PICK r \in Runs : ResumeWithTasks(c, r) /\ Remaining(c.event) # {}
  BY <1>2 DEF ResumePartialEvent
<1> QED
  BY <1>1, <1>3, BuiltInHand DEF ResumeWithTasks

\* An event received from DeliveryChan gets tasks or a final status.
LEMMA DispatchedInHand ==
    ASSUME CountInv, ~DbMayFail, ~CacheMayFail, DispatchEvent, NEW c \in Copies, c = Head(chan),
           status'[c.event] \in Unfinished
    PROVE  Held(c.event)'
<1>1. c.event \in Events
  BY DEF Copies
<1>2. /\ ~UpdateEventStatus(c.event, c.retries, "failed")
      /\ ~DispatchWithoutTasks(c, "recorded") /\ ~DispatchWithoutTasks(c, "failed")
  BY <1>1, FinalWritten DEF DispatchWithoutTasks, Final
<1>3. PICK r \in Runs : DispatchWithTasks(c, r) /\ Chosen(c.event) # {}
  BY <1>2 DEF DispatchEvent
<1> QED
  BY <1>3, BuiltInHand DEF DispatchWithTasks

\* An event with a copy keeps it, or is taken up.
LEMMA CopyInHand ==
    ASSUME CountInv, [Next]_vars, Open', phase # "down", ~DbMayFail, ~CacheMayFail,
           NEW c \in HeldCopies, status'[c.event] \in Unfinished
    PROVE  Held(c.event)'
<1>0. /\ posting \subseteq Copies /\ feed \subseteq Copies /\ resuming \subseteq Copies
      /\ chan \in Seq(Copies) /\ Elems(chan) \subseteq Copies
  BY ElemsType DEF CountInv, Inv, Types
<1>1. c \in Copies
  BY <1>0 DEF HeldCopies
<1>2. ASSUME c \in HeldCopies'
      PROVE  Held(c.event)'
  BY <1>2 DEF Held
<1>3. Open /\ ~ProcessEnds
  BY OpenBefore
<1>4. ASSUME HeldCopies \subseteq HeldCopies'
      PROVE  Held(c.event)'
  BY <1>2, <1>4
<1>5. ASSUME NEW d \in Copies, posting \cup feed \subseteq (posting' \cup feed') \cup {d},
             UNCHANGED resuming, chan' = Append(chan, d)
      PROVE  Held(c.event)'
  <2>1. Elems(chan)' = Elems(chan) \cup {d}
    BY <1>0, <1>5, AppendElems
  <2> QED
    BY <1>4, <1>5, <2>1 DEF HeldCopies
<1>6. CASE Handlers \/ (\E d \in feed : FeedSend(d))
  <2>1. ~\E d \in posting : HandlerPanic(d)
    BY <1>3 DEF HandlerPanic, Open
  <2>2. ASSUME NEW d \in posting, HandlerSend(d)
        PROVE  Held(c.event)'
    BY <1>0, <1>5, <2>2 DEF HandlerSend
  <2>3. ASSUME NEW d \in feed, FeedSend(d)
        PROVE  Held(c.event)'
    BY <1>0, <1>5, <2>3 DEF FeedSend
  <2> QED
    BY <1>6, <2>1, <2>2, <2>3 DEF Handlers
<1>7. CASE DispatchEvent
  <2>1. /\ chan # <<>> /\ chan' = Tail(chan) /\ UNCHANGED <<posting, feed, resuming>>
    BY <1>7 DEF DispatchEvent
  <2>2. Elems(chan) = {Head(chan)} \cup Elems(chan)'
    BY <1>0, <2>1, TailElems
  <2>3. CASE c = Head(chan)
    BY <1>1, <1>7, <2>3, DispatchedInHand
  <2>4. CASE c # Head(chan)
    BY <1>2, <2>1, <2>2, <2>4 DEF HeldCopies
  <2> QED
    BY <2>3, <2>4
<1>8. ASSUME NEW d \in resuming, ResumePartialEvent(d)
      PROVE  Held(c.event)'
  <2>1. resuming' = resuming \ {d} /\ UNCHANGED <<posting, feed, chan>>
    BY <1>8 DEF ResumePartialEvent
  <2>2. CASE c = d
    BY <1>8, <2>2, ResumedInHand
  <2>3. CASE c # d
    BY <1>2, <2>1, <2>3 DEF HeldCopies, Elems
  <2> QED
    BY <2>2, <2>3
<1>9. ASSUME posting \subseteq posting', UNCHANGED <<feed, resuming, chan>>
      PROVE  Held(c.event)'
  BY <1>4, <1>9 DEF HeldCopies, Elems
<1>10. ASSUME NEW w \in Workers, Worker(w)
       PROVE  Held(c.event)'
  BY <1>9, <1>10 DEF Worker, Take, Acquire, Deliver, RecordAttempt, RecordResult, FinalizeEvent,
                     ScheduleRetry
<1>11. CASE Serve \/ Stop \/ CloseQueue \/ Timers \/ ChangeTable \/ Rest \/ UNCHANGED vars
  BY <1>9, <1>11 DEF Serve, Stop, CloseQueue, Timers, TimerFires, TimerAbandons, TimerSends,
                     ChangeTable, Rest, vars
<1>12. CASE (\E x \in Events : Publish(x)) \/ (\E t \in resumeTasks : ResumeEnqueue(t))
            \/ (\E t \in dispTasks : DispatchEnqueue(t))
  BY <1>9, <1>12 DEF Publish, ResumeEnqueue, DispatchEnqueue
<1>13. ~Boot /\ ~FeedPanic /\ ~Exit /\ ~Crash
  BY <1>3 DEF Boot, FeedPanic, Exit, Crash
<1> QED
  BY <1>6, <1>7, <1>8, <1>10, <1>11, <1>12, <1>13 DEF Next, Resume, Feeder, Dispatcher

\* Whoever makes an event unfinished holds it.
LEMMA NewInHand ==
    ASSUME CountInv, [Next]_vars, NEW e \in Events, status[e] \notin Unfinished,
           status'[e] \in Unfinished
    PROVE  Held(e)'
<1>0. status \in [Events -> {"none"} \cup Unfinished \cup Final]
  BY DEF CountInv, Inv, Types
<1>1. ASSUME NEW x, NEW rc, NEW st \in Final, UpdateEventStatus(x, rc, st)
      PROVE  FALSE
  BY <1>0, <1>1 DEF UpdateEventStatus, Final, Unfinished
<1>2. ASSUME UNCHANGED status
      PROVE  FALSE
  BY <1>2
<1>3. ASSUME NEW x \in Events, Publish(x)
      PROVE  Held(e)'
  <2>1. x = e
    BY <1>0, <1>3 DEF Publish, InsertEvent
  <2>2. [event |-> e, retries |-> 0] \in HeldCopies'
    BY <1>3, <2>1 DEF Publish, HeldCopies
  <2> QED
    BY <2>2 DEF Held
<1>4. ASSUME NEW w \in Workers, ScheduleRetry(w)
      PROVE  Held(e)'
  <2>1. job[w] \in Tasks
    BY <1>4, TrackerOfWork DEF ScheduleRetry, CountInv
  <2>2. PICK u \in Tasks :
            /\ u = [job[w] EXCEPT !.attempt = @ + 1, !.retries = @ + 1]
            /\ u.event = job[w].event
    BY <2>1, RetryType
  <2>3. u \in HeldTasks'
    BY <1>4, <2>2 DEF ScheduleRetry, HeldTasks
  <2>4. job[w].event = e
    BY <1>0, <1>4 DEF ScheduleRetry, UpdateEventStatus
  <2> QED
    BY <2>2, <2>3, <2>4 DEF Held
<1>5. ASSUME NEW w \in Workers,
             Take(w) \/ Acquire(w) \/ (\E good \in BOOLEAN : Deliver(w, good))
                     \/ RecordAttempt(w) \/ RecordResult(w)
      PROVE  FALSE
  BY <1>2, <1>5 DEF Take, Acquire, Deliver, RecordAttempt, RecordResult
<1>6. ASSUME NEW w \in Workers, FinalizeEvent(w)
      PROVE  FALSE
  BY <1>1, <1>6 DEF FinalizeEvent, FinalStatus, Final
<1>7. ASSUME NEW c, ResumePartialEvent(c)
      PROVE  FALSE
  BY <1>1, <1>2, <1>7 DEF ResumePartialEvent, ResumeGivesUp, ResumeWithoutTasks, ResumeWithTasks,
                          Final
<1>8. CASE DispatchEvent
  BY <1>1, <1>2, <1>8 DEF DispatchEvent, DispatchWithoutTasks, DispatchWithTasks, Final
<1>9. CASE Boot \/ Serve \/ Stop \/ CloseQueue \/ FeedPanic \/ Exit \/ Crash \/ ChangeTable \/ Rest
           \/ UNCHANGED vars
  BY <1>2, <1>9 DEF Boot, Serve, Stop, CloseQueue, FeedPanic, Exit, Crash, ProcessEnds,
                    ChangeTable, Rest, vars
<1>10. CASE Handlers \/ Timers \/ (\E c \in feed : FeedSend(c))
            \/ (\E t \in resumeTasks : ResumeEnqueue(t)) \/ (\E t \in dispTasks : DispatchEnqueue(t))
  BY <1>2, <1>10 DEF Handlers, HandlerSend, HandlerPanic, Timers, TimerFires, TimerAbandons,
                     TimerSends, FeedSend, ResumeEnqueue, DispatchEnqueue
<1> QED
  BY <1>3, <1>4, <1>5, <1>6, <1>7, <1>8, <1>9, <1>10 DEF Next, Resume, Feeder, Dispatcher, Worker

-----------------------------------------------------------------------------
(* The steps.                                                              *)

\* The pipeline's own steps, and the form that publishes an event.
LEMMA PipelineStrands ==
    ASSUME StrandInv, [Next]_vars, phase' = "down" \/ solo' = solo
    PROVE  Asleep' /\ AllCovered' /\ Attended'
<1> USE DEF StrandInv, BesideInv
<1>1. Inv'
  BY CountNext DEF CountInv
<1>2. CASE phase = "down"
  <2>1. /\ chan = <<>> /\ \A r \in Runs : trackers[r] = NoTracker
        /\ UNCHANGED <<chan, trackers>>
    BY <1>2, DownIsDown DEF Asleep, Boot, vars
  <2>2. CASE Boot
    <3>1. ASSUME ~DbMayFail, NEW e \in Events, status'[e] \in Unfinished
          PROVE  Held(e)'
      <4>1. feed' = Resumable("pending") /\ resuming' = Resumable("partial") /\ UNCHANGED status
        BY <2>2, <3>1 DEF Boot
      <4>2. StoredCopy(e) \in feed' \cup resuming' /\ StoredCopy(e).event = e
        BY <3>1, <4>1 DEF Resumable, StoredCopy, Unfinished
      <4> QED
        BY <4>2 DEF Held, HeldCopies
    <3> QED
      BY <2>1, <3>1 DEF Asleep, AllCovered, Attended
  <2>3. CASE UNCHANGED vars
    BY <1>2, <2>1, <2>3 DEF vars, Asleep, AllCovered, Attended, Open
  <2> QED
    BY <1>2, <2>2, <2>3, DownIsDown
<1>3. CASE phase # "down"
  <2>1. CASE ~Open'
    <3>1. Asleep'
      <4>1. ASSUME ProcessEnds
            PROVE  Asleep'
        BY <4>1 DEF ProcessEnds, Asleep
      <4>2. ASSUME ~ProcessEnds
            PROVE  phase' # "down"
        BY <1>3, <4>2, PhaseFalls
      <4> QED
        BY <4>1, <4>2 DEF Asleep
    <3> QED
      BY <2>1, <3>1 DEF AllCovered, Attended
  <2>2. CASE Open'
    <3>1. Open
      BY <1>3, <2>2, OpenBefore
    <3>2. AllCovered'
      <4> SUFFICES ASSUME NEW r \in Runs, trackers'[r] # NoTracker, NEW b \in Missing(r)'
                   PROVE  Covered(r, b)'
        BY DEF AllCovered
      <4>1. ~\E t \in timers : TimerAbandons(t)
        BY <3>1 DEF TimerAbandons
      <4> QED
        BY <3>1, <4>1, StillCovered DEF AllCovered, CountInv
    <3>3. Attended'
      <4> SUFFICES ASSUME ~DbMayFail, ~CacheMayFail, NEW e \in Events, status'[e] \in Unfinished
                   PROVE  Held(e)' \/ Soloed(e)'
        BY DEF Attended
      <4>1. CASE status[e] \notin Unfinished
        BY <4>1, NewInHand
      <4>2. CASE Soloed(e)
        BY <2>2, <4>2 DEF Soloed, Open
      <4>3. ASSUME NEW t \in HeldTasks, t.event = e
            PROVE  Held(e)'
        BY <1>3, <2>2, <3>2, <4>3, TaskInHand, TasksInHand
      <4>4. ASSUME NEW c \in HeldCopies, c.event = e
            PROVE  Held(e)'
        BY <1>3, <2>2, <4>4, CopyInHand
      <4> QED
        BY <3>1, <4>1, <4>2, <4>3, <4>4 DEF Attended, Held
    <3>4. Asleep'
      BY <2>2 DEF Asleep, Open
    <3> QED
      BY <3>2, <3>3, <3>4
  <2> QED
    BY <2>1, <2>2
<1> QED
  BY <1>2, <1>3

\* A replay to one subscriber holds its event until it writes a final status.
LEMMA SoloStrands ==
    ASSUME StrandInv, NEW g \in Goroutines, ReplayToSubscriber(g)
    PROVE  Asleep' /\ AllCovered' /\ Attended'
<1> USE DEF StrandInv, BesideInv
<1>1. UNCHANGED <<main, senders, queues, pool, retry, heap>>
  BY DEF ReplayToSubscriber, ResetStatus, Post, RecordReplay, EndReplay
<1>2. Asleep' /\ AllCovered'
  BY <1>1 DEF Asleep, AllCovered, Open, Missing, Covered, Waiting, Working, Busy, Elems
<1>3. Attended'
  <2> SUFFICES ASSUME Open, ~DbMayFail, ~CacheMayFail, NEW e \in Events, status'[e] \in Unfinished
               PROVE  Held(e)' \/ Soloed(e)'
    BY <1>1 DEF Attended, Open
  <2>0. \E point : At(g, point)
    BY DEF ReplayToSubscriber, ResetStatus, Post, RecordReplay, EndReplay
  <2>1. /\ solo \in [Goroutines -> Replays \cup {NoReplay}]
        /\ solo[g] \in Replays /\ solo[g] # NoReplay
    BY <2>0, ReplayAt DEF SoloTypes, At
  <2>2. CASE EndReplay(g)
    <3>1. PICK st \in Final : status' = [status EXCEPT ![solo[g].event] = st]
      BY <2>2 DEF EndReplay, UpdateEventStatus, Final
    <3>2. solo[g].event # e /\ status[e] \in Unfinished
      BY <3>1 DEF Final, Unfinished, CountInv, Inv, Types
    <3>3. Held(e) => Held(e)'
      BY <1>1 DEF Held, HeldCopies, HeldTasks, Busy, Elems
    <3>4. Soloed(e) => Soloed(e)'
      BY <2>1, <2>2, <3>2 DEF Soloed, EndReplay
    <3> QED
      BY <3>2, <3>3, <3>4 DEF Attended
  <2>3. ASSUME NEW p \in Replays, p.event = solo[g].event, solo' = [solo EXCEPT ![g] = p],
               \/ UNCHANGED status
               \/ status' = [status EXCEPT ![solo[g].event] = "pending"]
        PROVE  Held(e)' \/ Soloed(e)'
    <3>1. \A x : Soloed(x) => Soloed(x)'
      BY <2>1, <2>3, ReplayAssumption DEF Soloed
    <3>2. Soloed(solo[g].event)
      BY <2>1 DEF Soloed
    <3>3. Held(e) => Held(e)'
      BY <1>1 DEF Held, HeldCopies, HeldTasks, Busy, Elems
    <3>4. status[e] \in Unfinished \/ e = solo[g].event
      BY <2>3 DEF CountInv, Inv, Types
    <3> QED
      BY <3>1, <3>2, <3>3, <3>4 DEF Attended
  <2>4. CASE ResetStatus(g)
    <3>1. /\ [solo[g] EXCEPT !.at = "post"] \in Replays
          /\ [solo[g] EXCEPT !.at = "post"].event = solo[g].event
      BY <2>1, ReplayGoesOn
    <3> QED
      BY <2>3, <2>4, <3>1 DEF ResetStatus, UpdateEventStatus
  <2>5. ASSUME NEW good \in BOOLEAN, Post(g, good)
        PROVE  Held(e)' \/ Soloed(e)'
    <3>1. solo' = [solo EXCEPT ![g] = [solo[g] EXCEPT !.at = "insert", !.good = good]]
      BY <2>5 DEF Post
    <3>2. /\ [solo[g] EXCEPT !.at = "insert", !.good = good] \in Replays
          /\ [solo[g] EXCEPT !.at = "insert", !.good = good].event = solo[g].event
      BY <2>1, ReplayGoesOn
    <3> QED
      BY <2>3, <2>5, <3>1, <3>2 DEF Post
  <2>6. CASE RecordReplay(g)
    <3>1. /\ [solo[g] EXCEPT !.at = "finish"] \in Replays
          /\ [solo[g] EXCEPT !.at = "finish"].event = solo[g].event
      BY <2>1, ReplayGoesOn
    <3> QED
      BY <2>3, <2>6, <3>1 DEF RecordReplay
  <2> QED
    BY <2>2, <2>4, <2>5, <2>6 DEF ReplayToSubscriber
<1> QED
  BY <1>2, <1>3

LEMMA AskStrands ==
    ASSUME StrandInv,
           \/ \E e \in Events : ReplayAll(e)
           \/ \E g \in Goroutines, e \in Events, s \in Subscribers : ReplaySubscriber(g, e, s)
    PROVE  Asleep' /\ AllCovered' /\ Attended'
<1> USE DEF StrandInv, BesideInv
<1>1. /\ UNCHANGED <<status, main, feed, queues, pool, retry, heap>>
      /\ posting \subseteq posting'
  BY DEF ReplayAll, ReplaySubscriber, vars
<1>2. Asleep' /\ AllCovered'
  BY <1>1 DEF Asleep, AllCovered, Open, Missing, Covered, Waiting, Working, Busy, Elems
<1>3. ASSUME NEW e \in Events
      PROVE  (Held(e) => Held(e)') /\ (Soloed(e) => Soloed(e)')
  <2>1. Held(e) => Held(e)'
    BY <1>1 DEF Held, HeldCopies, HeldTasks, Busy, Elems
  <2>2. Soloed(e) => Soloed(e)'
    BY DEF ReplayAll, ReplaySubscriber, Soloed, SoloTypes
  <2> QED
    BY <2>1, <2>2
<1>4. Attended'
  BY <1>1, <1>3 DEF Attended, Open
<1> QED
  BY <1>2, <1>4

\* While the server runs, every unfinished event is in somebody's hands, however
\* replays and the pipeline overwrite each other's statuses.
THEOREM NoneStranded == ReplaySpec => []NothingStranded
<1>1. ReplayInit => StrandInv
  <2> SUFFICES ASSUME ReplayInit
               PROVE  StrandInv
    OBVIOUS
  <2>1. Asleep /\ AllCovered /\ Attended
    BY DEF ReplayInit, Init, Asleep, AllCovered, Attended, Open
  <2> QED
    BY <2>1, BesideInit DEF StrandInv
<1>2. StrandInv /\ [ReplayNext]_replayVars => StrandInv'
  <2> SUFFICES ASSUME StrandInv, [ReplayNext]_replayVars
               PROVE  StrandInv'
    OBVIOUS
  <2>1. BesideInv'
    BY BesideNext DEF StrandInv
  <2>2. CASE Pipeline
    <3>1. [Next]_vars /\ (phase' = "down" \/ solo' = solo)
      BY <2>2 DEF Pipeline
    <3> QED
      BY <2>1, <3>1, PipelineStrands DEF StrandInv
  <2>3. ASSUME NEW e \in Events, EventCreateSubmit(e)
        PROVE  StrandInv'
    <3>1. [Next]_vars /\ solo' = solo
      BY <2>3 DEF EventCreateSubmit, soloVars, Next
    <3> QED
      BY <2>1, <3>1, PipelineStrands DEF StrandInv
  <2>4. CASE UNCHANGED replayVars
    <3>1. [Next]_vars /\ solo' = solo
      BY <2>4 DEF replayVars, soloVars
    <3> QED
      BY <2>1, <3>1, PipelineStrands DEF StrandInv
  <2>5. CASE (\E e \in Events : ReplayAll(e))
             \/ \E g \in Goroutines, e \in Events, s \in Subscribers : ReplaySubscriber(g, e, s)
    BY <2>1, <2>5, AskStrands DEF StrandInv
  <2>6. ASSUME NEW g \in Goroutines, ReplayToSubscriber(g)
        PROVE  StrandInv'
    BY <2>1, <2>6, SoloStrands DEF StrandInv
  <2> QED
    BY <2>2, <2>3, <2>4, <2>5, <2>6 DEF ReplayNext
<1>3. StrandInv => NothingStranded
  BY DEF StrandInv, Attended, NothingStranded, Open, Soloed
<1> QED
  BY <1>1, <1>2, <1>3, PTL DEF ReplaySpec

-----------------------------------------------------------------------------
(* No retry is counted that no failure preceded: whatever holds a retry    *)
(* count of an event - the row, a copy of it, a task, a tracker, a replay  *)
(* to one subscriber - holds at most the failed attempts on record, and a  *)
(* worker about to schedule a retry holds less.                            *)

Failures(e) == Cardinality(FailedAttempts(e))

\* By whom a retry count is held: copies of the row, tasks and, with one to spare, a
\* worker whose attempt has failed, trackers, replays to one subscriber, the row.
CopiesCounted == \A c \in HeldCopies : c.retries <= Failures(c.event)
TasksCounted == \A t \in HeldTasks : t.retries <= Failures(t.event)
RetryCounted ==
    \A w \in Workers : pc[w] = "settle" /\ ~ok[w] =>
        job[w].retries < Failures(job[w].event)
TrackersCounted ==
    \A r \in Runs : trackers[r] # NoTracker =>
        trackers[r].retries <= Failures(trackers[r].event)
SolosCounted ==
    \A g \in Goroutines : solo[g] # NoReplay => solo[g].retries <= Failures(solo[g].event)
RowsCounted == \A e \in Events : retries[e] <= Failures(e)

\* The failures on record are finitely many, and at least the retries anybody counts.
Counted ==
    /\ \A e \in Events : IsFiniteSet(FailedAttempts(e))
    /\ CopiesCounted /\ TasksCounted /\ RetryCounted
    /\ TrackersCounted /\ SolosCounted /\ RowsCounted

LEMMA SameFailures ==
    ASSUME UNCHANGED failed
    PROVE  \A e : FailedAttempts(e)' = FailedAttempts(e) /\ Failures(e)' = Failures(e)
  BY DEF FailedAttempts, Failures

\* A step that records no attempt: what is new is counted already.
LEMMA StillCounted ==
    ASSUME Counted, UNCHANGED failed,
           \A c \in HeldCopies' : c \in HeldCopies \/ c.retries <= Failures(c.event),
           \A t \in HeldTasks' : t \in HeldTasks \/ t.retries <= Failures(t.event),
           \A w \in Workers : pc'[w] = "settle" /\ ~ok'[w] =>
               pc[w] = "settle" /\ ~ok[w] /\ job'[w] = job[w],
           \A r \in Runs : \/ trackers'[r] = trackers[r]
                            \/ trackers'[r] = NoTracker
                            \/ trackers'[r].retries <= Failures(trackers'[r].event),
           \A g \in Goroutines : \/ solo'[g] = solo[g]
                                  \/ solo'[g] = NoReplay
                                  \/ solo'[g].retries <= Failures(solo'[g].event),
           \A e \in Events : retries'[e] = retries[e] \/ retries'[e] <= Failures(e)
    PROVE  Counted'
<1>1. \A e : FailedAttempts(e)' = FailedAttempts(e) /\ Failures(e)' = Failures(e)
  BY SameFailures
<1>2. \A e \in Events : IsFiniteSet(FailedAttempts(e))'
  BY <1>1 DEF Counted
<1>3. CopiesCounted'
  BY <1>1 DEF Counted, CopiesCounted
<1>4. TasksCounted'
  BY <1>1 DEF Counted, TasksCounted
<1>5. RetryCounted'
  BY <1>1 DEF Counted, RetryCounted
<1>6. TrackersCounted'
  BY <1>1 DEF Counted, TrackersCounted
<1>7. SolosCounted'
  BY <1>1 DEF Counted, SolosCounted
<1>8. RowsCounted'
  BY <1>1 DEF Counted, RowsCounted
<1> QED
  BY <1>2, <1>3, <1>4, <1>5, <1>6, <1>7, <1>8 DEF Counted

\* A failed attempt is one more.
LEMMA OneMoreFailure ==
    ASSUME BesideInv, Counted, NEW e \in Events, NEW s \in Subscribers,
           failed' = [failed EXCEPT ![e][s] = @ + 1]
    PROVE  /\ IsFiniteSet(FailedAttempts(e))' /\ Failures(e)' = Failures(e) + 1
           /\ \A x \in Events \ {e} : FailedAttempts(x)' = FailedAttempts(x)
           /\ \A x \in Events : Failures(x) \in Nat /\ Failures(x) <= Failures(x)'
<1> DEFINE n == failed[e][s] + 1
<1>1. failed \in [Events -> [Subscribers -> Nat]]
  BY DEF BesideInv, CountInv, Inv, Types
<1>2. \A x \in Events, y \in Subscribers :
          failed'[x][y] = IF x = e /\ y = s THEN n ELSE failed[x][y]
  BY <1>1
<1>3. \A x \in Events \ {e} : FailedAttempts(x)' = FailedAttempts(x)
  BY <1>2 DEF FailedAttempts
<1>4. FailedAttempts(e)' = FailedAttempts(e) \cup {<<s, n>>}
  <2>1. n \in Nat \ {0} /\ 1..n = (1..failed[e][s]) \cup {n}
    BY <1>1
  <2>2. \A y \in Subscribers \ {s} : failed'[e][y] = failed[e][y]
    BY <1>2
  <2>3. failed'[e][s] = n
    BY <1>2
  <2> HIDE DEF n
  <2>4. ({s} \X (1..n)) = ({s} \X (1..failed[e][s])) \cup {<<s, n>>}
    BY <2>1
  <2>5. \A z : z \in FailedAttempts(e)' <=> \E y \in Subscribers : z \in {y} \X (1..failed'[e][y])
    BY DEF FailedAttempts
  <2>6. \A z : z \in FailedAttempts(e) <=> \E y \in Subscribers : z \in {y} \X (1..failed[e][y])
    BY DEF FailedAttempts
  <2> QED
    BY <2>2, <2>3, <2>4, <2>5, <2>6, Zenon
<1>5. <<s, n>> \notin FailedAttempts(e)
  BY <1>1 DEF FailedAttempts
<1>6. IsFiniteSet(FailedAttempts(e))
  BY DEF Counted
<1> HIDE DEF n
<1>7. IsFiniteSet(FailedAttempts(e))' /\ Failures(e)' = Failures(e) + 1
  BY <1>4, <1>5, <1>6, FS_AddElement DEF Failures
<1>8. \A x \in Events : Failures(x) \in Nat
  BY FS_CardinalityType DEF Counted, Failures
<1> QED
  BY <1>3, <1>7, <1>8 DEF Failures

LEMMA HeldTypes ==
    ASSUME BesideInv
    PROVE  /\ \A c \in HeldCopies : c \in Copies /\ c.event \in Events /\ c.retries \in Nat
           /\ \A t \in HeldTasks : t \in Tasks /\ t.event \in Events /\ t.retries \in Nat
<1>1. Elems(chan) \subseteq Copies
  BY ElemsType DEF BesideInv, CountInv, Inv, Types
<1>2. HeldCopies \subseteq Copies
  BY <1>1 DEF HeldCopies, BesideInv, CountInv, Inv, Types
<1>3. HeldTasks \subseteq Tasks
  BY TasksInHand, TaskTypes DEF BesideInv, CountInv
<1> QED
  BY <1>2, <1>3 DEF Copies, Tasks

\* A step that records a failed attempt: a worker may retry it.
LEMMA FailureCounted ==
    ASSUME BesideInv, Counted, NEW e \in Events, NEW s \in Subscribers,
           failed' = [failed EXCEPT ![e][s] = @ + 1],
           UNCHANGED <<retries, main, senders, queues, job, ok, retry, heap>>,
           Busy' = Busy,
           \A w \in Workers : pc'[w] = "settle" /\ ~ok[w] =>
               pc[w] = "settle" \/ (pc[w] # "idle" /\ job[w].event = e),
           \A g \in Goroutines : \/ solo'[g] = solo[g]
                                  \/ /\ solo[g] # NoReplay
                                     /\ solo'[g].event = solo[g].event
                                     /\ solo'[g].retries = solo[g].retries
    PROVE  Counted'
<1>1. /\ Failures(e)' = Failures(e) + 1
      /\ \A x \in Events : Failures(x) \in Nat /\ Failures(x)' \in Nat /\ Failures(x) <= Failures(x)'
      /\ \A x \in Events : IsFiniteSet(FailedAttempts(x))'
  <2>1. /\ IsFiniteSet(FailedAttempts(e))' /\ Failures(e)' = Failures(e) + 1
        /\ \A x \in Events \ {e} : FailedAttempts(x)' = FailedAttempts(x)
        /\ \A x \in Events : Failures(x) \in Nat /\ Failures(x) <= Failures(x)'
    BY OneMoreFailure
  <2>2. \A x \in Events : IsFiniteSet(FailedAttempts(x))'
    BY <2>1 DEF Counted
  <2>3. \A x \in Events : Failures(x)' \in Nat
    BY <2>2, FS_CardinalityType DEF Failures
  <2> QED
    BY <2>1, <2>2, <2>3
<1>2. HeldCopies' = HeldCopies /\ HeldTasks' = HeldTasks
  BY DEF HeldCopies, HeldTasks, Elems
<1>3. CopiesCounted'
  <2> SUFFICES ASSUME NEW c \in HeldCopies
               PROVE  c.retries <= Failures(c.event)'
    BY <1>2 DEF CopiesCounted
  <2>1. c.event \in Events /\ c.retries \in Nat /\ c.retries <= Failures(c.event)
    BY HeldTypes DEF Counted, CopiesCounted
  <2> QED
    BY <1>1, <2>1
<1>4. TasksCounted'
  <2> SUFFICES ASSUME NEW t \in HeldTasks
               PROVE  t.retries <= Failures(t.event)'
    BY <1>2 DEF TasksCounted
  <2>1. t.event \in Events /\ t.retries \in Nat /\ t.retries <= Failures(t.event)
    BY HeldTypes DEF Counted, TasksCounted
  <2> QED
    BY <1>1, <2>1
<1>5. RetryCounted'
  <2> SUFFICES ASSUME NEW w \in Workers, pc'[w] = "settle", ~ok[w]
               PROVE  job[w].retries < Failures(job[w].event)'
    BY DEF RetryCounted
  <2>1. pc[w] # "idle"
    OBVIOUS
  <2>2. job[w].event \in Events /\ job[w].retries \in Nat /\ job[w].retries <= Failures(job[w].event)
    BY <2>1, HeldTypes DEF Counted, TasksCounted, HeldTasks, Busy
  <2>3. CASE pc[w] = "settle"
    BY <1>1, <2>2, <2>3 DEF Counted, RetryCounted
  <2>4. CASE job[w].event = e
    BY <1>1, <2>2, <2>4
  <2> QED
    BY <2>3, <2>4
<1>6. TrackersCounted'
  <2> SUFFICES ASSUME NEW r \in Runs, trackers[r] # NoTracker
               PROVE  trackers[r].retries <= Failures(trackers[r].event)'
    BY DEF TrackersCounted
  <2>1. trackers[r].event \in Events /\ trackers[r].retries \in Nat
    BY DEF BesideInv, CountInv, Inv, Types, Trackers
  <2> QED
    BY <1>1, <2>1 DEF Counted, TrackersCounted
<1>7. SolosCounted'
  <2> SUFFICES ASSUME NEW g \in Goroutines, solo'[g] # NoReplay
               PROVE  (solo[g].retries <= Failures(solo[g].event))'
    BY DEF SolosCounted
  <2>1. /\ solo[g] # NoReplay
        /\ solo'[g].event = solo[g].event /\ solo'[g].retries = solo[g].retries
    <3>1. CASE solo'[g] = solo[g]
      BY <3>1
    <3>2. CASE /\ solo[g] # NoReplay
               /\ solo'[g].event = solo[g].event
               /\ solo'[g].retries = solo[g].retries
      BY <3>2
    <3> QED
      BY <3>1, <3>2
  <2>2. solo[g].event \in Events /\ solo[g].retries \in Nat
    BY <2>1 DEF BesideInv, SoloTypes, Replays
  <2>3. solo[g].retries <= Failures(solo[g].event)
    BY <2>1 DEF Counted, SolosCounted
  <2> QED
    BY <1>1, <2>1, <2>2, <2>3
<1>8. RowsCounted'
  BY <1>1 DEF Counted, RowsCounted, BesideInv, CountInv, Inv, Types
<1> QED
  BY <1>1, <1>3, <1>4, <1>5, <1>6, <1>7, <1>8 DEF Counted

LEMMA CopyCounted ==
    ASSUME Counted, NEW e \in Events
    PROVE  StoredCopy(e).event = e /\ StoredCopy(e).retries <= Failures(StoredCopy(e).event)
  BY DEF StoredCopy, Counted, RowsCounted

\* The tasks and the tracker built for a copy that is counted are counted.
LEMMA BuiltCounted ==
    ASSUME NEW c, c.retries <= Failures(c.event), NEW r, NEW S, NEW prior
    PROVE  /\ \A t \in TasksFor(c, r, S, prior) : t.retries <= Failures(t.event)
           /\ NewTracker(c, S).retries <= Failures(NewTracker(c, S).event)
  BY DEF TasksFor, NewTracker

LEMMA WriteCounted ==
    ASSUME BesideInv, NEW e \in Events, NEW rc, NEW st, rc <= Failures(e),
           UpdateEventStatus(e, rc, st)
    PROVE  \A x \in Events : retries'[x] = retries[x] \/ retries'[x] <= Failures(x)
  BY DEF UpdateEventStatus, BesideInv, CountInv, Inv, Types

LEMMA ChanIs ==
    ASSUME BesideInv
    PROVE  /\ chan \in Seq(Copies) /\ taskQueue \in Seq(Tasks)
           /\ chan # <<>> => /\ Head(chan) \in Elems(chan)
                            /\ Elems(Tail(chan)) \subseteq Elems(chan)
           /\ taskQueue # <<>> => /\ Head(taskQueue) \in Elems(taskQueue)
                                 /\ Elems(Tail(taskQueue)) \subseteq Elems(taskQueue)
<1>1. chan \in Seq(Copies) /\ taskQueue \in Seq(Tasks)
  BY DEF BesideInv, CountInv, Inv, Types
<1> QED
  BY <1>1, TailElems

\* Start-up, requests and the channel of events.
LEMMA CopiesStep ==
    ASSUME BesideInv, Counted, UNCHANGED solo,
           \/ Boot \/ Serve \/ Handlers
           \/ (\E c \in feed : FeedSend(c)) \/ (\E e \in Events : Publish(e))
    PROVE  Counted'
<1>1. CASE Boot
  <2>1. \A c \in feed' \cup resuming' : c \in HeldCopies \/ c.retries <= Failures(c.event)
    BY <1>1, CopyCounted DEF Boot, Resumable, HeldCopies
  <2>2. \A c \in HeldCopies' : c \in HeldCopies \/ c.retries <= Failures(c.event)
    BY <1>1, <2>1 DEF Boot, HeldCopies, Elems
  <2>3. HeldTasks' = HeldTasks
    BY <1>1 DEF Boot, HeldTasks, Elems, Busy
  <2> QED
    BY <1>1, <2>2, <2>3, StillCounted DEF Boot
<1>2. CASE Serve
  <2>1. HeldTasks' = HeldTasks /\ HeldCopies' = HeldCopies
    BY <1>2 DEF Serve, HeldTasks, HeldCopies, Elems, Busy
  <2> QED
    BY <1>2, <2>1, StillCounted DEF Serve
<1>3. ASSUME NEW c \in posting \cup feed,
             \/ c \in posting /\ (HandlerSend(c) \/ HandlerPanic(c))
             \/ c \in feed /\ FeedSend(c)
      PROVE  Counted'
  <2>1. c \in HeldCopies /\ c \in Copies
    BY HeldTypes DEF HeldCopies
  <2>2. Elems(chan)' \subseteq Elems(chan) \cup {c}
    <3>1. CASE chan' = Append(chan, c)
      <4>1. Elems(Append(chan, c)) = Elems(chan) \cup {c}
        BY <2>1, ChanIs, AppendElems
      <4> QED
        BY <3>1, <4>1 DEF Elems
    <3>2. CASE chan' = chan
      BY <3>2 DEF Elems
    <3> QED
      BY <1>3, <3>1, <3>2 DEF HandlerSend, HandlerPanic, FeedSend
  <2>3. /\ posting' \subseteq posting /\ feed' \subseteq feed
        /\ UNCHANGED <<db, main, pool, retry, heap, dispTasks, taskQueue>>
    BY <1>3 DEF HandlerSend, HandlerPanic, FeedSend
  <2>4. HeldCopies' \subseteq HeldCopies
    BY <2>1, <2>2, <2>3 DEF HeldCopies
  <2>5. HeldTasks' = HeldTasks
    BY <2>3 DEF HeldTasks, Elems, Busy
  <2> QED
    BY <2>3, <2>4, <2>5, StillCounted
<1>4. ASSUME NEW e \in Events, Publish(e)
      PROVE  Counted'
  <2>1. \A x \in Events : Failures(x) \in Nat
    BY FS_CardinalityType DEF Counted, Failures
  <2>2. \A c \in HeldCopies' : c \in HeldCopies \/ c.retries <= Failures(c.event)
    BY <1>4, <2>1 DEF Publish, HeldCopies, Elems
  <2>3. HeldTasks' = HeldTasks
    BY <1>4 DEF Publish, HeldTasks, Elems, Busy
  <2> QED
    BY <1>4, <2>2, <2>3, StillCounted DEF Publish, InsertEvent
<1> QED
  BY <1>1, <1>2, <1>3, <1>4 DEF Handlers

\* A copy that is taken up becomes tasks and a tracker, or a final status.
LEMMA TakenUpStep ==
    ASSUME BesideInv, Counted, UNCHANGED solo,
           (\E c \in resuming : ResumePartialEvent(c)) \/ DispatchEvent
    PROVE  Counted'
<1>1. PICK c \in HeldCopies :
          \/ /\ \/ UNCHANGED <<status, retries>>
                \/ \E st : UpdateEventStatus(c.event, c.retries, st)
             /\ UNCHANGED <<resumeTasks, dispTasks, heap>>
          \/ /\ UNCHANGED <<status, retries>>
             /\ \E r \in Runs : \E S, prior :
                   /\ trackers' = [trackers EXCEPT ![r] = NewTracker(c, S)]
                   /\ resumeTasks' \cup dispTasks' \subseteq
                         resumeTasks \cup dispTasks \cup TasksFor(c, r, S, prior)
  <2>1. ASSUME NEW c \in resuming, ResumePartialEvent(c)
        PROVE  \/ /\ \/ UNCHANGED <<status, retries>>
                     \/ \E st : UpdateEventStatus(c.event, c.retries, st)
                  /\ UNCHANGED <<resumeTasks, dispTasks, heap>>
               \/ /\ UNCHANGED <<status, retries>>
                  /\ \E r \in Runs : \E S, prior :
                        /\ trackers' = [trackers EXCEPT ![r] = NewTracker(c, S)]
                        /\ resumeTasks' \cup dispTasks' \subseteq
                              resumeTasks \cup dispTasks \cup TasksFor(c, r, S, prior)
    BY <2>1 DEF ResumePartialEvent, ResumeGivesUp, ResumeWithoutTasks, ResumeWithTasks
  <2>2. ASSUME DispatchEvent, NEW c, c = Head(chan)
        PROVE  \/ /\ \/ UNCHANGED <<status, retries>>
                     \/ \E st : UpdateEventStatus(c.event, c.retries, st)
                  /\ UNCHANGED <<resumeTasks, dispTasks, heap>>
               \/ /\ UNCHANGED <<status, retries>>
                  /\ \E r \in Runs : \E S, prior :
                        /\ trackers' = [trackers EXCEPT ![r] = NewTracker(c, S)]
                        /\ resumeTasks' \cup dispTasks' \subseteq
                              resumeTasks \cup dispTasks \cup TasksFor(c, r, S, prior)
    BY <2>2 DEF DispatchEvent, DispatchWithoutTasks, DispatchWithTasks
  <2>3. DispatchEvent => Head(chan) \in HeldCopies
    BY ChanIs DEF DispatchEvent, HeldCopies
  <2>4. resuming \subseteq HeldCopies
    BY DEF HeldCopies
  <2> QED
    BY <2>1, <2>2, <2>3, <2>4
<1>2. /\ c.retries <= Failures(c.event) /\ c.event \in Events
  BY HeldTypes DEF Counted, CopiesCounted
<1>3. /\ UNCHANGED <<failed, pool, retry, senders, taskQueue>>
      /\ resuming' \subseteq resuming /\ Elems(chan)' \subseteq Elems(chan)
  BY ChanIs DEF ResumePartialEvent, DispatchEvent, Elems
<1>4. HeldCopies' \subseteq HeldCopies
  BY <1>3 DEF HeldCopies
<1>5. Elems(taskQueue)' = Elems(taskQueue) /\ Busy' = Busy /\ job' = job
  BY <1>3 DEF Elems, Busy
<1>6. CASE /\ \/ UNCHANGED <<status, retries>>
              \/ \E st : UpdateEventStatus(c.event, c.retries, st)
           /\ UNCHANGED <<resumeTasks, dispTasks, heap>>
  <2>1. \A x \in Events : retries'[x] = retries[x] \/ retries'[x] <= Failures(x)
    BY <1>2, <1>6, WriteCounted
  <2>2. HeldTasks' = HeldTasks
    BY <1>3, <1>5, <1>6 DEF HeldTasks
  <2> QED
    BY <1>3, <1>4, <1>6, <2>1, <2>2, StillCounted
<1>7. ASSUME UNCHANGED <<status, retries>>, NEW r \in Runs, NEW S, NEW prior,
             trackers' = [trackers EXCEPT ![r] = NewTracker(c, S)],
             resumeTasks' \cup dispTasks' \subseteq
                 resumeTasks \cup dispTasks \cup TasksFor(c, r, S, prior)
      PROVE  Counted'
  <2>1. /\ \A t \in TasksFor(c, r, S, prior) : t.retries <= Failures(t.event)
        /\ NewTracker(c, S).retries <= Failures(NewTracker(c, S).event)
    BY <1>2, BuiltCounted
  <2>2. \A t \in HeldTasks' : t \in HeldTasks \/ t.retries <= Failures(t.event)
    BY <1>3, <1>5, <1>7, <2>1 DEF HeldTasks
  <2>3. \A x \in Runs : trackers'[x] = trackers[x] \/ trackers'[x] = NewTracker(c, S)
    BY <1>7 DEF BesideInv, CountInv, Inv, Types
  <2>4. \A x \in Runs : \/ trackers'[x] = trackers[x]
                         \/ trackers'[x] = NoTracker
                         \/ trackers'[x].retries <= Failures(trackers'[x].event)
    BY <2>1, <2>3
  <2> QED
    BY <1>3, <1>4, <1>7, <2>2, <2>4, StillCounted
<1> QED
  BY <1>1, <1>6, <1>7

\* A task moves to the queue or to another sender.
LEMMA TasksStep ==
    ASSUME BesideInv, Counted, UNCHANGED solo,
           \/ (\E t \in resumeTasks : ResumeEnqueue(t))
           \/ (\E t \in dispTasks : DispatchEnqueue(t))
           \/ Timers
    PROVE  Counted'
<1>1. PICK t \in HeldTasks :
          /\ UNCHANGED <<db, heap, pool, senders, chan, resuming>>
          /\ taskQueue' = taskQueue \/ taskQueue' = Append(taskQueue, t)
          /\ resumeTasks' \subseteq resumeTasks /\ dispTasks' \subseteq dispTasks
          /\ timers' \subseteq timers /\ firing' \subseteq firing \cup {t}
  BY DEF ResumeEnqueue, DispatchEnqueue, Timers, TimerFires, TimerAbandons, TimerSends, HeldTasks
<1>2. t \in Tasks
  BY HeldTypes
<1>3. Elems(taskQueue)' \subseteq Elems(taskQueue) \cup {t}
  <2>1. Elems(Append(taskQueue, t)) = Elems(taskQueue) \cup {t}
    BY <1>2, ChanIs, AppendElems
  <2> QED
    BY <1>1, <2>1 DEF Elems
<1>4. Busy' = Busy /\ job' = job
  BY <1>1 DEF Busy
<1>5. HeldTasks' \subseteq HeldTasks
  BY <1>1, <1>3, <1>4 DEF HeldTasks
<1>6. HeldCopies' = HeldCopies
  BY <1>1 DEF HeldCopies, Elems
<1> QED
  BY <1>1, <1>5, <1>6, StillCounted

\* Whoever is idle or at work elsewhere stays there.
LEMMA WorkerStep ==
    ASSUME BesideInv, Counted, UNCHANGED solo, ~DbMayFail, NEW w \in Workers, Worker(w)
    PROVE  Counted'
<1>1. /\ pc \in [Workers -> {"idle", "acquire", "send", "insert", "settle", "finalize"}]
      /\ job \in [Workers -> Tasks \cup {NoTask}]
      /\ ok \in [Workers -> BOOLEAN]
      /\ trackers \in [Runs -> Trackers \cup {NoTracker}]
  BY DEF BesideInv, CountInv, Inv, Types
<1>2. UNCHANGED <<main, senders, chan, dispTasks, firing>>
  BY DEF Worker, Take, Acquire, Deliver, RecordAttempt, RecordResult, FinalizeEvent, ScheduleRetry
<1>3. HeldCopies' = HeldCopies
  BY <1>2 DEF HeldCopies, Elems
<1>4. ASSUME Elems(taskQueue)' \subseteq Elems(taskQueue),
             \A t \in timers' : t \in timers \/ t.retries <= Failures(t.event),
             \A v \in Busy' : job'[v] \in HeldTasks
      PROVE  \A t \in HeldTasks' : t \in HeldTasks \/ t.retries <= Failures(t.event)
  BY <1>2, <1>4 DEF HeldTasks
<1>5. \A v \in Busy : job[v] \in HeldTasks
  BY DEF HeldTasks
<1>6. CASE Take(w)
  <2>1. /\ UNCHANGED <<db, heap, timers, ok>>
        /\ pc' = [pc EXCEPT ![w] = "acquire"] /\ job' = [job EXCEPT ![w] = Head(taskQueue)]
        /\ Head(taskQueue) \in Elems(taskQueue) /\ Elems(taskQueue)' \subseteq Elems(taskQueue)
    BY <1>6, ChanIs DEF Take, Goto, Elems
  <2>2. Head(taskQueue) \in HeldTasks
    BY <2>1 DEF HeldTasks
  <2>3. \A v \in Workers : v # w => pc'[v] = pc[v] /\ job'[v] = job[v]
    BY <1>1, <2>1
  <2>4. pc'[w] = "acquire" /\ job'[w] = Head(taskQueue)
    BY <1>1, <2>1
  <2>5. \A v \in Busy' : job'[v] \in HeldTasks
    BY <1>5, <2>2, <2>3, <2>4 DEF Busy
  <2>6. \A t \in HeldTasks' : t \in HeldTasks \/ t.retries <= Failures(t.event)
    BY <1>4, <2>1, <2>5
  <2> QED
    BY <1>3, <2>1, <2>3, <2>4, <2>6, StillCounted
<1>7. CASE Acquire(w) \/ \E good \in BOOLEAN : Deliver(w, good)
  <2>1. /\ UNCHANGED <<db, heap, timers, job, taskQueue>>
        /\ pc[w] # "idle" /\ \E l \in {"send", "insert"} : pc' = [pc EXCEPT ![w] = l]
        /\ ok' = ok \/ \E good \in BOOLEAN : ok' = [ok EXCEPT ![w] = good]
    BY <1>7 DEF Acquire, Deliver, Goto
  <2>2. /\ pc'[w] \in {"send", "insert"}
        /\ \A v \in Workers : v # w => pc'[v] = pc[v] /\ ok'[v] = ok[v]
    BY <1>1, <2>1
  <2>3. \A v \in Busy' : job'[v] \in HeldTasks
    BY <1>5, <2>1, <2>2 DEF Busy
  <2>4. \A t \in HeldTasks' : t \in HeldTasks \/ t.retries <= Failures(t.event)
    BY <1>4, <2>1, <2>3 DEF Elems
  <2> QED
    BY <1>3, <2>1, <2>2, <2>4, StillCounted
<1>8. CASE RecordAttempt(w)
  <2>1. /\ UNCHANGED <<status, retries, heap, retry, job, ok, queues>>
        /\ pc[w] = "insert" /\ pc' = [pc EXCEPT ![w] = "settle"]
        /\ \/ ok[w] /\ UNCHANGED failed
           \/ failed' = [failed EXCEPT ![job[w].event][Owner[job[w].sub]] = @ + 1]
    BY <1>8 DEF RecordAttempt, InsertAttempt, Goto
  <2>2. pc'[w] = "settle" /\ \A v \in Workers : v # w => pc'[v] = pc[v]
    BY <1>1, <2>1
  <2>3. Busy' = Busy
    BY <2>1, <2>2 DEF Busy
  <2>4. CASE ok[w] /\ UNCHANGED failed
    <3>1. HeldTasks' = HeldTasks
      BY <1>2, <2>1, <2>3 DEF HeldTasks, Elems
    <3>2. \A v \in Workers : pc'[v] = "settle" /\ ~ok'[v] =>
              pc[v] = "settle" /\ ~ok[v] /\ job'[v] = job[v]
      BY <2>1, <2>2, <2>4
    <3> QED
      BY <1>3, <2>1, <2>4, <3>1, <3>2, StillCounted
  <2>5. CASE failed' = [failed EXCEPT ![job[w].event][Owner[job[w].sub]] = @ + 1]
    <3>1. job[w].event \in Events /\ Owner[job[w].sub] \in Subscribers
      BY <2>1, TrackerOfWork DEF BesideInv, CountInv
    <3>2. \A v \in Workers : pc'[v] = "settle" /\ ~ok[v] =>
              pc[v] = "settle" \/ (pc[v] # "idle" /\ job[v].event = job[w].event)
      BY <2>1, <2>2
    <3> QED
      BY <1>2, <2>1, <2>3, <2>5, <3>1, <3>2, FailureCounted
  <2> QED
    BY <2>1, <2>4, <2>5
<1>9. ASSUME pc[w] # "idle", UNCHANGED <<failed, taskQueue>>,
             \A t \in timers' : t \in timers \/ t.retries <= Failures(t.event),
             \/ Return(w)
             \/ pc' = [pc EXCEPT ![w] = "finalize"] /\ UNCHANGED <<job, ok>>
      PROVE  /\ \A t \in HeldTasks' : t \in HeldTasks \/ t.retries <= Failures(t.event)
             /\ \A v \in Workers : pc'[v] = "settle" /\ ~ok'[v] =>
                    pc[v] = "settle" /\ ~ok[v] /\ job'[v] = job[v]
  <2>1. /\ pc'[w] \in {"idle", "finalize"}
        /\ pc'[w] = "finalize" => job'[w] = job[w]
        /\ \A v \in Workers : v # w => pc'[v] = pc[v] /\ ok'[v] = ok[v] /\ job'[v] = job[v]
    BY <1>1, <1>9 DEF Return, Goto
  <2>2. \A v \in Busy' : job'[v] \in HeldTasks
    BY <1>5, <1>9, <2>1 DEF Busy
  <2>3. Elems(taskQueue)' \subseteq Elems(taskQueue)
    BY <1>9 DEF Elems
  <2> QED
    BY <1>4, <1>9, <2>1, <2>2, <2>3
<1>10. CASE RecordResult(w)
  <2> DEFINE r == job[w].run
             t == [trackers[r] EXCEPT !.results = Recorded(@, job[w].sub, ok[w])]
  <2>1. r \in Runs /\ trackers[r] \in Trackers /\ trackers[r] # NoTracker
    BY <1>10, TrackerOfWork DEF RecordResult, BesideInv, CountInv
  <2>2. trackers' = [trackers EXCEPT ![r] = t] /\ UNCHANGED <<db, taskQueue, timers>>
    BY <1>10 DEF RecordResult
  <2>3. t.event = trackers[r].event /\ t.retries = trackers[r].retries
    BY <2>1 DEF Trackers
  <2> HIDE DEF t
  <2>4. \A x \in Runs : trackers'[x] = trackers[x] \/ (x = r /\ trackers'[x] = t)
    BY <1>1, <2>2
  <2>5. t.retries <= Failures(t.event)
    BY <2>1, <2>3 DEF Counted, TrackersCounted
  <2>6. \A x \in Runs : \/ trackers'[x] = trackers[x]
                         \/ trackers'[x] = NoTracker
                         \/ trackers'[x].retries <= Failures(trackers'[x].event)
    BY <2>4, <2>5
  <2>7. /\ pc[w] # "idle"
        /\ \/ Return(w)
           \/ pc' = [pc EXCEPT ![w] = "finalize"] /\ UNCHANGED <<job, ok>>
    BY <1>10 DEF RecordResult, Goto
  <2> QED
    BY <1>3, <1>9, <2>2, <2>6, <2>7, StillCounted
<1>11. CASE FinalizeEvent(w)
  <2> DEFINE r == job[w].run
  <2>1. /\ r \in Runs /\ trackers[r] # NoTracker
        /\ trackers[r].event \in Events
    BY <1>11, TrackerOfWork DEF FinalizeEvent, BesideInv, CountInv
  <2>2. /\ UpdateEventStatus(trackers[r].event, trackers[r].retries, FinalStatus(trackers[r]))
        /\ trackers' = [trackers EXCEPT ![r] = NoTracker]
        /\ UNCHANGED <<failed, taskQueue, timers>> /\ pc[w] # "idle" /\ Return(w)
    BY <1>11 DEF FinalizeEvent
  <2>3. trackers[r].retries <= Failures(trackers[r].event)
    BY <2>1 DEF Counted, TrackersCounted
  <2>4. \A x \in Events : retries'[x] = retries[x] \/ retries'[x] <= Failures(x)
    BY <2>1, <2>2, <2>3, WriteCounted
  <2>5. \A x \in Runs : trackers'[x] = trackers[x] \/ trackers'[x] = NoTracker
    BY <1>1, <2>2
  <2> QED
    BY <1>3, <1>9, <2>2, <2>4, <2>5, StillCounted
<1>12. CASE ScheduleRetry(w)
  <2>1. /\ job[w] \in Tasks /\ job[w].event \in Events /\ job[w].retries \in Nat
    BY <1>12, TrackerOfWork DEF ScheduleRetry, BesideInv, CountInv
  <2>2. PICK u \in Tasks :
            /\ u = [job[w] EXCEPT !.attempt = @ + 1, !.retries = @ + 1]
            /\ u.event = job[w].event /\ u.retries = job[w].retries + 1
    BY <2>1, RetryType
  <2>3. /\ UpdateEventStatus(job[w].event, job[w].retries + 1, "partial")
        /\ timers' = timers \cup {u}
        /\ UNCHANGED <<failed, taskQueue, heap>> /\ pc[w] = "settle" /\ ~ok[w] /\ Return(w)
    BY <1>12, <2>2 DEF ScheduleRetry
  <2>4. job[w].retries + 1 <= Failures(job[w].event)
    <3>1. Failures(job[w].event) \in Nat
      BY <2>1, FS_CardinalityType DEF Counted, Failures
    <3>2. job[w].retries < Failures(job[w].event)
      BY <2>3 DEF Counted, RetryCounted
    <3> QED
      BY <2>1, <3>1, <3>2
  <2>5. \A x \in Events : retries'[x] = retries[x] \/ retries'[x] <= Failures(x)
    BY <2>1, <2>3, <2>4, WriteCounted
  <2>6. \A t \in timers' : t \in timers \/ t.retries <= Failures(t.event)
    BY <2>2, <2>3, <2>4
  <2> QED
    BY <1>3, <1>9, <2>3, <2>5, <2>6, StillCounted
<1> QED
  BY <1>6, <1>7, <1>8, <1>10, <1>11, <1>12 DEF Worker

LEMMA PipelineCounted ==
    ASSUME BesideInv, Counted, ~DbMayFail, [Next]_vars,
           \/ solo' = solo
           \/ ProcessEnds /\ solo' = [g \in Goroutines |-> NoReplay]
    PROVE  Counted'
<1>1. CASE ProcessEnds
  <2>1. HeldCopies' = {} /\ HeldTasks' = {} /\ UNCHANGED <<failed, retries>>
    BY <1>1 DEF ProcessEnds, HeldCopies, HeldTasks, Elems, Busy
  <2>2. /\ \A w \in Workers : pc'[w] # "settle"
        /\ \A r \in Runs : trackers'[r] = NoTracker
    BY <1>1 DEF ProcessEnds
  <2>3. \A g \in Goroutines : solo'[g] = solo[g] \/ solo'[g] = NoReplay
    OBVIOUS
  <2> QED
    BY <2>1, <2>2, <2>3, StillCounted
<1>2. CASE solo' = solo /\ (CloseQueue \/ ChangeTable \/ Stop \/ Rest \/ UNCHANGED vars)
  <2>1. UNCHANGED <<db, resuming, resumeTasks, senders, queues, pool, retry, heap>>
    BY <1>2 DEF CloseQueue, ChangeTable, Stop, Rest, vars
  <2>2. HeldTasks' = HeldTasks /\ HeldCopies' = HeldCopies
    BY <2>1 DEF HeldTasks, HeldCopies, Elems, Busy
  <2> QED
    BY <1>2, <2>1, <2>2, StillCounted
<1>3. FeedPanic \/ Exit \/ Crash => ProcessEnds
  BY DEF FeedPanic, Exit, Crash
<1> QED
  BY <1>1, <1>2, <1>3, CopiesStep, TakenUpStep, TasksStep, WorkerStep
     DEF Next, Resume, Feeder, Dispatcher

LEMMA SoloCounted ==
    ASSUME BesideInv, Counted, ~DbMayFail, NEW g \in Goroutines, ReplayToSubscriber(g)
    PROVE  Counted'
<1>1. PICK point : At(g, point)
  BY DEF ReplayToSubscriber, ResetStatus, Post, RecordReplay, EndReplay
<1>2. /\ solo[g] \in Replays /\ solo[g] # NoReplay
      /\ solo[g].event \in Events /\ solo[g].to \in Subscribers
  BY <1>1, ReplayAt DEF At, BesideInv
<1>3. UNCHANGED <<main, senders, queues, pool, retry, heap>>
  BY DEF ReplayToSubscriber, ResetStatus, Post, RecordReplay, EndReplay
<1> DEFINE Becomes(p) ==
             /\ \A x \in Goroutines : solo'[x] = IF x = g THEN p ELSE solo[x]
             /\ p = NoReplay \/ (p.event = solo[g].event /\ p.retries = solo[g].retries)
<1>4. \E p : Becomes(p)
  <2>1. CASE ResetStatus(g)
    <3>1. PICK q : q = [solo[g] EXCEPT !.at = "post"]
      OBVIOUS
    <3>2. q.event = solo[g].event /\ q.retries = solo[g].retries
      BY <1>2, <3>1 DEF Replays
    <3>3. solo' = [solo EXCEPT ![g] = q]
      BY <2>1, <3>1 DEF ResetStatus
    <3>4. Becomes(q)
      BY <3>2, <3>3 DEF BesideInv, SoloTypes
    <3> QED
      BY <3>4
  <2>2. ASSUME NEW good \in BOOLEAN, Post(g, good)
        PROVE  \E p : Becomes(p)
    <3>1. PICK q : q = [solo[g] EXCEPT !.at = "insert", !.good = good]
      OBVIOUS
    <3>2. q.event = solo[g].event /\ q.retries = solo[g].retries
      BY <1>2, <3>1 DEF Replays
    <3>3. solo' = [solo EXCEPT ![g] = q]
      BY <2>2, <3>1 DEF Post
    <3>4. Becomes(q)
      BY <3>2, <3>3 DEF BesideInv, SoloTypes
    <3> QED
      BY <3>4
  <2>3. CASE RecordReplay(g)
    <3>1. PICK q : q = [solo[g] EXCEPT !.at = "finish"]
      OBVIOUS
    <3>2. q.event = solo[g].event /\ q.retries = solo[g].retries
      BY <1>2, <3>1 DEF Replays
    <3>3. solo' = [solo EXCEPT ![g] = q]
      BY <2>3, <3>1 DEF RecordReplay
    <3>4. Becomes(q)
      BY <3>2, <3>3 DEF BesideInv, SoloTypes
    <3> QED
      BY <3>4
  <2>4. CASE EndReplay(g)
    <3>1. Becomes(NoReplay)
      BY <2>4 DEF EndReplay, BesideInv, SoloTypes
    <3> QED
      BY <3>1
  <2> QED
    BY <2>1, <2>2, <2>3, <2>4 DEF ReplayToSubscriber
<1>5. \A x \in Goroutines : \/ solo'[x] = solo[x]
                            \/ solo'[x] = NoReplay
                            \/ /\ solo[x] # NoReplay
                               /\ solo'[x].event = solo[x].event
                               /\ solo'[x].retries = solo[x].retries
  <2>1. PICK p : Becomes(p)
    BY <1>4
  <2> QED
    BY <1>2, <2>1
<1>6. HeldTasks' = HeldTasks /\ HeldCopies' = HeldCopies /\ Busy' = Busy
  BY <1>3 DEF HeldTasks, HeldCopies, Elems, Busy
<1>7. ASSUME UNCHANGED failed,
             \A x \in Events : retries'[x] = retries[x] \/ retries'[x] <= Failures(x)
      PROVE  Counted'
  <2>1. \A x \in Goroutines : \/ solo'[x] = solo[x]
                              \/ solo'[x] = NoReplay
                              \/ solo'[x].retries <= Failures(solo'[x].event)
    BY <1>5 DEF Counted, SolosCounted
  <2> QED
    BY <1>3, <1>6, <1>7, <2>1, StillCounted
<1>8. CASE ResetStatus(g) \/ EndReplay(g)
  <2>1. solo[g].retries <= Failures(solo[g].event)
    BY <1>2 DEF Counted, SolosCounted
  <2>2. UNCHANGED failed /\ \E st : UpdateEventStatus(solo[g].event, solo[g].retries, st)
    BY <1>8 DEF ResetStatus, EndReplay
  <2> QED
    BY <1>2, <1>7, <2>1, <2>2, WriteCounted
<1>9. CASE \E good \in BOOLEAN : Post(g, good)
  BY <1>7, <1>9 DEF Post
<1>10. CASE RecordReplay(g)
  <2>1. /\ UNCHANGED retries
        /\ solo' = [solo EXCEPT ![g].at = "finish"]
        /\ \/ UNCHANGED failed
           \/ failed' = [failed EXCEPT ![solo[g].event][solo[g].to] = @ + 1]
    BY <1>10 DEF RecordReplay, InsertAttempt
  <2>2. CASE failed' = [failed EXCEPT ![solo[g].event][solo[g].to] = @ + 1]
    <3>1. \A x \in Goroutines : \/ solo'[x] = solo[x]
                                \/ /\ solo[x] # NoReplay
                                   /\ solo'[x].event = solo[x].event
                                   /\ solo'[x].retries = solo[x].retries
      BY <1>2, <2>1 DEF BesideInv, SoloTypes, Replays
    <3> QED
      BY <1>2, <1>3, <1>6, <2>1, <2>2, <3>1, FailureCounted
  <2> QED
    BY <1>7, <2>1, <2>2
<1> QED
  BY <1>8, <1>9, <1>10 DEF ReplayToSubscriber

LEMMA AskCounted ==
    ASSUME BesideInv, Counted,
           \/ \E e \in Events : ReplayAll(e)
           \/ \E g \in Goroutines, e \in Events, s \in Subscribers : ReplaySubscriber(g, e, s)
    PROVE  Counted'
<1>1. ASSUME NEW e \in Events, ReplayAll(e)
      PROVE  Counted'
  <2>1. \A c \in HeldCopies' : c \in HeldCopies \/ c.retries <= Failures(c.event)
    BY <1>1, CopyCounted DEF ReplayAll, HeldCopies, Elems
  <2>2. HeldTasks' = HeldTasks
    BY <1>1 DEF ReplayAll, HeldTasks, Elems, Busy
  <2> QED
    BY <1>1, <2>1, <2>2, StillCounted DEF ReplayAll
<1>2. ASSUME NEW g \in Goroutines, NEW e \in Events, NEW s \in Subscribers,
             ReplaySubscriber(g, e, s)
      PROVE  Counted'
  <2>1. HeldCopies' = HeldCopies /\ HeldTasks' = HeldTasks
    BY <1>2 DEF ReplaySubscriber, vars, HeldCopies, HeldTasks, Elems, Busy
  <2>2. PICK p : /\ solo' = [solo EXCEPT ![g] = p]
                 /\ p.event = e /\ p.retries = retries[e]
    <3>1. PICK p : p = [at |-> "reset", event |-> e, to |-> s,
                        retries |-> retries[e], good |-> FALSE]
      OBVIOUS
    <3>2. p.event = e /\ p.retries = retries[e]
      BY <3>1
    <3> QED
      BY <1>2, <3>1, <3>2 DEF ReplaySubscriber
  <2>3. \A x \in Goroutines : solo'[x] = solo[x] \/ solo'[x] = p
    BY <2>2 DEF BesideInv, SoloTypes
  <2>4. p.retries <= Failures(p.event)
    BY <2>2 DEF Counted, RowsCounted
  <2>5. \A x \in Goroutines : \/ solo'[x] = solo[x]
                              \/ solo'[x] = NoReplay
                              \/ solo'[x].retries <= Failures(solo'[x].event)
    BY <2>3, <2>4
  <2> QED
    BY <1>2, <2>1, <2>5, StillCounted DEF ReplaySubscriber, vars
<1> QED
  BY <1>1, <1>2

\* An event's retry count never exceeds the failed attempts on record, whatever
\* retries, resumes and replays write back from stale copies of its row.
THEOREM RetriesHadFailures == ReplaySpec => []RetriesCounted
<1> DEFINE CountedInv == BesideInv /\ (~DbMayFail => Counted)
<1>1. ReplayInit => CountedInv
  <2> SUFFICES ASSUME ReplayInit
               PROVE  Counted
    BY BesideInit
  <2>1. \A e \in Events : FailedAttempts(e) = {}
    BY DEF ReplayInit, Init, FailedAttempts
  <2>2. \A e \in Events : IsFiniteSet(FailedAttempts(e)) /\ Failures(e) = 0
    BY <2>1, FS_EmptySet DEF Failures
  <2>3. HeldCopies = {} /\ HeldTasks = {}
    BY DEF ReplayInit, Init, HeldCopies, HeldTasks, Elems, Busy
  <2> QED
    BY <2>2, <2>3 DEF ReplayInit, Init, Counted, CopiesCounted, TasksCounted, RetryCounted,
                      TrackersCounted, SolosCounted, RowsCounted
<1>2. CountedInv /\ [ReplayNext]_replayVars => CountedInv'
  <2> SUFFICES ASSUME CountedInv, [ReplayNext]_replayVars, ~DbMayFail
               PROVE  Counted'
    BY BesideNext
  <2>1. CASE Pipeline
    <3>1. solo' = solo \/ (ProcessEnds /\ solo' = [g \in Goroutines |-> NoReplay])
      BY <2>1, PhaseFalls DEF Pipeline
    <3> QED
      BY <2>1, <3>1, PipelineCounted DEF Pipeline
  <2>2. ASSUME NEW e \in Events, EventCreateSubmit(e)
        PROVE  Counted'
    <3>1. [Next]_vars /\ solo' = solo
      BY <2>2 DEF EventCreateSubmit, soloVars, Next
    <3> QED
      BY <3>1, PipelineCounted
  <2>3. CASE UNCHANGED replayVars
    <3>1. [Next]_vars /\ solo' = solo
      BY <2>3 DEF replayVars, soloVars
    <3> QED
      BY <3>1, PipelineCounted
  <2>4. CASE (\E e \in Events : ReplayAll(e))
             \/ \E g \in Goroutines, e \in Events, s \in Subscribers : ReplaySubscriber(g, e, s)
    BY <2>4, AskCounted
  <2>5. ASSUME NEW g \in Goroutines, ReplayToSubscriber(g)
        PROVE  Counted'
    BY <2>5, SoloCounted
  <2> QED
    BY <2>1, <2>2, <2>3, <2>4, <2>5 DEF ReplayNext
<1>3. CountedInv => RetriesCounted
  BY DEF Counted, RowsCounted, Failures, RetriesCounted
<1> QED
  BY <1>1, <1>2, <1>3, PTL DEF ReplaySpec

=============================================================================
