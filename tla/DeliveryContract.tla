-------------------------- MODULE DeliveryContract --------------------------
(***************************************************************************)
(* What the pipeline tells is true: a success in a worker, in a tracker or *)
(* in delivery_attempts stands for a 2xx of the endpoint, and a tracker    *)
(* misses nobody of its event's audience but those who have already        *)
(* accepted it.  Hence "delivered" means that the audience has the event,  *)
(* and the pipeline implements EventContract.  A failure that a tracker    *)
(* has collected stands for a limit exhausted on record (Tally): "failed"  *)
(* is true as well.                                                        *)
(***************************************************************************)
EXTENDS DeliveryEvents

USE DEF db, world, main, counts, senders, queues, pool, retry, heap, limits

Received(e, b) == <<e, Owner[b]>> \in accepted

\* A worker's success is an answer of the endpoint.
Answered ==
    \A w \in Workers : ok[w] =>
        pc[w] \in {"insert", "settle", "finalize"} /\ Received(job[w].event, job[w].sub)

\* So is a success on record,
OnRecord == \A e \in Events, s \in Subscribers : succeeded[e][s] > 0 => <<e, s>> \in accepted

\* and a success a tracker has collected.
TrueResults ==
    \A r \in Runs : trackers[r] # NoTracker =>
        \A b \in DOMAIN trackers[r].results :
            trackers[r].results[b] => Received(trackers[r].event, b)

\* A tracker expects results of the audience, except of those who have the event.
Addressed ==
    \A r \in Runs : trackers[r] # NoTracker =>
        LET e == trackers[r].event IN
        /\ trackers[r].expected \subseteq plan[e]
        /\ \A b \in plan[e] \ trackers[r].expected : Received(e, b)

Truth == Answered /\ OnRecord /\ TrueResults /\ Addressed /\ DeliveredToAll

ContractInv == EventInv /\ Truth

-----------------------------------------------------------------------------
(* Steps that record nothing.                                              *)

LEMMA InitTruth == Init => Truth
  BY DEF Init, Truth, Answered, OnRecord, TrueResults, Addressed, DeliveredToAll

LEMMA DeliveredGrows ==
    ASSUME DeliveredToAll, accepted \subseteq accepted',
           NEW e \in Events, plan'[e] = plan[e], status'[e] = "delivered",
           status[e] = "delivered"
    PROVE  \A s \in Audience(e)' : <<e, s>> \in accepted'
  BY DEF DeliveredToAll, Audience

LEMMA EndTruth == ContractInv /\ ProcessEnds => Truth'
  BY DEF ProcessEnds, ContractInv, Truth, Answered, OnRecord, TrueResults, Addressed,
         DeliveredToAll, Audience

\* Nothing but acceptance, the workers' answers and statuses other than "delivered".
LEMMA TruthGrows ==
    ASSUME ContractInv, accepted \subseteq accepted',
           UNCHANGED <<succeeded, trackers, plan>>,
           \A e \in Events : status'[e] = "delivered" => status[e] = "delivered",
           Answered'
    PROVE  Truth'
<1>1. OnRecord' /\ TrueResults' /\ Addressed'
  BY DEF ContractInv, Truth, OnRecord, TrueResults, Addressed, Received
<1>2. DeliveredToAll'
  BY DEF ContractInv, Truth, DeliveredToAll, Audience
<1> QED
  BY <1>1, <1>2 DEF Truth

LEMMA TruthUntouched ==
    ASSUME ContractInv, UNCHANGED <<succeeded, trackers, plan, accepted, pc, job, ok>>,
           \A e \in Events : status'[e] = "delivered" => status[e] = "delivered"
    PROVE  Truth'
<1>1. Answered'
  BY DEF ContractInv, Truth, Answered, Received
<1> QED
  BY <1>1, TruthGrows

-----------------------------------------------------------------------------
(* Workers.                                                                *)

LEMMA TakeTruth ==
    ASSUME ContractInv, NEW w \in Workers, Take(w) \/ Acquire(w)
    PROVE  Truth'
<1>1. ~ok[w] /\ UNCHANGED <<succeeded, trackers, plan, accepted, status, ok>>
  BY DEF ContractInv, Truth, Answered, Take, Acquire
<1>2. \A v \in Workers \ {w} : pc'[v] = pc[v] /\ job'[v] = job[v]
  BY DEF Take, Acquire, Goto, ContractInv, EventInv, Inv, Types
<1>3. Answered'
  BY <1>1, <1>2 DEF ContractInv, Truth, Answered, Received
<1> QED
  BY <1>1, <1>3, TruthGrows

LEMMA DeliverTruth ==
    ASSUME ContractInv, NEW w \in Workers, NEW good \in BOOLEAN, Deliver(w, good)
    PROVE  Truth'
<1>1. /\ accepted \subseteq accepted' /\ UNCHANGED <<succeeded, trackers, plan, status, job>>
      /\ good => <<job[w].event, Owner[job[w].sub]>> \in accepted'
  BY DEF Deliver
<1>2. /\ pc'[w] = "insert" /\ ok'[w] = good
      /\ \A v \in Workers \ {w} : pc'[v] = pc[v] /\ ok'[v] = ok[v]
  BY DEF Deliver, Goto, ContractInv, EventInv, Inv, Types
<1>3. Answered'
  BY <1>1, <1>2 DEF ContractInv, Truth, Answered, Received
<1> QED
  BY <1>1, <1>3, TruthGrows

\* A success is recorded of a subscriber that answered.
LEMMA RecordTruth ==
    ASSUME ContractInv, NEW w \in Workers, RecordAttempt(w)
    PROVE  Truth'
<1> DEFINE e == job[w].event
           s == Owner[job[w].sub]
<1>1. e \in Events /\ s \in Subscribers
  BY TrackerOfWork DEF RecordAttempt, ContractInv, EventInv
<1>2. /\ UNCHANGED <<accepted, trackers, plan, status, job, ok>>
      /\ Goto(w, "settle")
      /\ \/ UNCHANGED succeeded
         \/ ok[w] /\ succeeded' = [succeeded EXCEPT ![e][s] = @ + 1]
  BY DEF RecordAttempt, InsertAttempt
<1>3. OnRecord'
  <2>1. ok[w] => <<e, s>> \in accepted
    BY DEF ContractInv, Truth, Answered, Received
  <2>2. succeeded \in [Events -> [Subscribers -> Nat]]
    BY DEF ContractInv, EventInv, Inv, Types
  <2>3. CASE ok[w] /\ succeeded' = [succeeded EXCEPT ![e][s] = @ + 1]
    <3>1. \A x \in Events, y \in Subscribers :
              succeeded'[x][y] = IF x = e /\ y = s THEN succeeded[x][y] + 1
                                                 ELSE succeeded[x][y]
      BY <1>1, <2>2, <2>3
    <3> QED
      BY <1>2, <2>1, <2>3, <3>1 DEF ContractInv, Truth, OnRecord
  <2> QED
    BY <1>2, <2>3 DEF ContractInv, Truth, OnRecord
<1>4. Answered'
  <2>1. pc'[w] = "settle" /\ \A v \in Workers \ {w} : pc'[v] = pc[v]
    BY <1>2 DEF Goto, ContractInv, EventInv, Inv, Types
  <2> QED
    BY <1>2, <2>1 DEF ContractInv, Truth, Answered, Received
<1>5. TrueResults' /\ Addressed' /\ DeliveredToAll'
  BY <1>2 DEF ContractInv, Truth, TrueResults, Addressed, DeliveredToAll, Received, Audience
<1> QED
  BY <1>3, <1>4, <1>5 DEF Truth

\* A worker that returns has no answer left.
LEMMA ReturnAnswered ==
    ASSUME ContractInv, NEW w \in Workers, Return(w), UNCHANGED accepted
    PROVE  Answered'
<1>1. /\ ~ok'[w]
      /\ \A v \in Workers \ {w} : pc'[v] = pc[v] /\ job'[v] = job[v] /\ ok'[v] = ok[v]
  BY DEF Return, Goto, ContractInv, EventInv, Inv, Types
<1> QED
  BY <1>1 DEF ContractInv, Truth, Answered, Received

LEMMA RetryTruth ==
    ASSUME ContractInv, NEW w \in Workers, ScheduleRetry(w)
    PROVE  Truth'
<1>1. Answered' /\ UNCHANGED <<succeeded, trackers, plan, accepted>>
  BY ReturnAnswered DEF ScheduleRetry
<1>2. \A e \in Events : status'[e] = "delivered" => status[e] = "delivered"
  BY DEF ScheduleRetry, UpdateEventStatus, ContractInv, EventInv, Inv, Types
<1> QED
  BY <1>1, <1>2, TruthGrows

\* The result a tracker is given is the worker's answer.
LEMMA ResultTruth ==
    ASSUME ContractInv, NEW w \in Workers, RecordResult(w)
    PROVE  Truth'
<1> DEFINE r == job[w].run
           u == WithResult(trackers[r], job[w].sub, ok[w])
<1>1. /\ r \in Runs /\ trackers[r] \in Trackers /\ trackers[r] # NoTracker
      /\ trackers[r].event = job[w].event
      /\ job[w].sub \in Subscriptions /\ ok[w] \in BOOLEAN
  BY TrackerOfWork DEF RecordResult, ContractInv, EventInv, Inv, Types
<1>2. /\ u # NoTracker /\ u.event = trackers[r].event /\ u.expected = trackers[r].expected
      /\ u.results = Recorded(trackers[r].results, job[w].sub, ok[w])
      /\ DOMAIN u.results = DOMAIN trackers[r].results \cup {job[w].sub}
  BY <1>1, TrackerWithResult
<1>3. /\ trackers' = [trackers EXCEPT ![r] = u]
      /\ UNCHANGED <<accepted, succeeded, plan, status>>
      /\ \/ Goto(w, "finalize") /\ UNCHANGED <<job, ok>>
         \/ Return(w)
  BY DEF RecordResult, WithResult
<1> HIDE DEF u
<1>4. trackers'[r] = u /\ \A q \in Runs \ {r} : trackers'[q] = trackers[q]
  BY <1>1, <1>3 DEF ContractInv, EventInv, Inv, Types
<1>5. \A b \in DOMAIN u.results : u.results[b] => Received(u.event, b)
  <2> SUFFICES ASSUME NEW b \in DOMAIN u.results, u.results[b]
               PROVE  Received(u.event, b)
    OBVIOUS
  <2>1. u.results[b] = IF b = job[w].sub THEN ok[w] ELSE trackers[r].results[b]
    BY <1>2 DEF Recorded
  <2>2. CASE b = job[w].sub
    BY <1>1, <1>2, <2>1, <2>2 DEF ContractInv, Truth, Answered
  <2>3. CASE b # job[w].sub
    BY <1>1, <1>2, <2>1, <2>3 DEF ContractInv, Truth, TrueResults
  <2> QED
    BY <2>2, <2>3
<1>6. TrueResults'
  BY <1>3, <1>4, <1>5 DEF ContractInv, Truth, TrueResults, Received
<1>7. Addressed'
  BY <1>1, <1>2, <1>3, <1>4 DEF ContractInv, Truth, Addressed, Received
<1>8. Answered'
  <2>1. CASE Goto(w, "finalize") /\ UNCHANGED <<job, ok>>
    <3>1. pc'[w] = "finalize" /\ \A v \in Workers \ {w} : pc'[v] = pc[v]
      BY <2>1 DEF Goto, ContractInv, EventInv, Inv, Types
    <3> QED
      BY <1>3, <2>1, <3>1 DEF ContractInv, Truth, Answered, Received
  <2> QED
    BY <1>3, <2>1, ReturnAnswered
<1>9. OnRecord' /\ DeliveredToAll'
  BY <1>3 DEF ContractInv, Truth, OnRecord, DeliveredToAll, Audience
<1> QED
  BY <1>6, <1>7, <1>8, <1>9 DEF Truth

\* A complete tracker whose results are all successes stands for the whole audience.
LEMMA AudienceHasIt ==
    ASSUME ContractInv, NEW w \in Workers, pc[w] = "finalize",
           FinalStatus(trackers[job[w].run]) = "delivered"
    PROVE  \A s \in Audience(job[w].event) : <<job[w].event, s>> \in accepted
<1> DEFINE r == job[w].run
           e == job[w].event
<1>1. r \in Runs /\ trackers[r] # NoTracker /\ trackers[r].event = e
  BY TrackerOfWork DEF ContractInv, EventInv
<1>2. DOMAIN trackers[r].results = trackers[r].expected
  BY DEF ContractInv, EventInv, Inv, Collected
<1>3. \A b \in trackers[r].expected : Received(e, b)
  BY <1>1, <1>2 DEF FinalStatus, ContractInv, Truth, TrueResults
<1>4. \A b \in plan[e] : Received(e, b)
  BY <1>1, <1>3 DEF ContractInv, Truth, Addressed
<1> QED
  BY <1>4 DEF Audience, Received

LEMMA FinalizeTruth ==
    ASSUME ContractInv, NEW w \in Workers, FinalizeEvent(w)
    PROVE  Truth'
<1> DEFINE r == job[w].run
           e == job[w].event
           st == FinalStatus(trackers[r])
<1>1. r \in Runs /\ e \in Events /\ trackers[r].event = e /\ pc[w] = "finalize"
  BY TrackerOfWork DEF FinalizeEvent, ContractInv, EventInv
<1>2. /\ trackers' = [trackers EXCEPT ![r] = NoTracker]
      /\ UNCHANGED <<accepted, succeeded, plan>>
      /\ status' = [status EXCEPT ![e] = st] \/ UNCHANGED status
      /\ Return(w)
  BY <1>1 DEF FinalizeEvent, UpdateEventStatus
<1>3. trackers'[r] = NoTracker /\ \A q \in Runs \ {r} : trackers'[q] = trackers[q]
  BY <1>1, <1>2 DEF ContractInv, EventInv, Inv, Types
<1>4. Answered'
  BY <1>2, ReturnAnswered
<1>5. OnRecord' /\ TrueResults' /\ Addressed'
  BY <1>2, <1>3 DEF ContractInv, Truth, OnRecord, TrueResults, Addressed, Received
<1>6. st = "delivered" => \A s \in Audience(e) : <<e, s>> \in accepted
  BY <1>1, AudienceHasIt
<1> HIDE DEF e, st
<1>7. \A x \in Events : status'[x] = status[x] \/ (x = e /\ status'[x] = st)
  BY <1>1, <1>2 DEF ContractInv, EventInv, Inv, Types
<1>8. DeliveredToAll'
  BY <1>2, <1>6, <1>7 DEF ContractInv, Truth, DeliveredToAll, Audience
<1> QED
  BY <1>4, <1>5, <1>8 DEF Truth

-----------------------------------------------------------------------------
(* Dispatch and resume.                                                    *)

\* The audience of a taken copy's event may change: no tracker has it.
LEMMA LetGoTruth ==
    ASSUME ContractInv, NEW c, CopyTaken(c), UNCHANGED <<posting, feed>>,
           UNCHANGED <<succeeded, accepted, trackers, pc, job, ok>>,
           NEW S \in SUBSET Subscriptions, plan' = [plan EXCEPT ![c.event] = S],
           \A e \in Events \ {c.event} : status'[e] = status[e],
           status'[c.event] = "delivered" => \A b \in S : Received(c.event, b)
    PROVE  Truth'
<1>1. c \in HeldCopies /\ c.event \in Events
  BY TakenCopy DEF ContractInv
<1>2. ~Live(c.event)
  BY <1>1 DEF ContractInv, EventInv, Hands, Copied
<1>3. /\ plan'[c.event] = S
      /\ \A e \in Events \ {c.event} : plan'[e] = plan[e]
  BY <1>1 DEF ContractInv, EventInv, Inv, Types
<1>4. \A r \in Runs : trackers[r] # NoTracker => trackers[r].event \in Events \ {c.event}
  <2>1. \A r \in Runs : trackers[r] # NoTracker => trackers[r].event \in Events
    BY DEF ContractInv, EventInv, Inv, Types, Trackers
  <2> QED
    BY <1>2, <2>1 DEF Live
<1>5. Answered' /\ OnRecord' /\ TrueResults'
  BY DEF ContractInv, Truth, Answered, OnRecord, TrueResults, Received
<1>6. Addressed'
  BY <1>3, <1>4 DEF ContractInv, Truth, Addressed, Received
<1>7. DeliveredToAll'
  <2> SUFFICES ASSUME NEW e \in Events, status'[e] = "delivered", NEW b \in plan'[e]
               PROVE  <<e, Owner[b]>> \in accepted
    BY DEF DeliveredToAll, Audience
  <2>1. CASE e = c.event
    BY <1>3, <2>1 DEF Received
  <2>2. CASE e # c.event
    BY <1>3, <2>2 DEF ContractInv, Truth, DeliveredToAll, Audience
  <2> QED
    BY <2>1, <2>2
<1> QED
  BY <1>5, <1>6, <1>7 DEF Truth

\* A new tracker leaves out those who have the event.
LEMMA TakenUpTruth ==
    ASSUME ContractInv, NEW c, CopyTaken(c), UNCHANGED <<posting, feed>>,
           UNCHANGED <<succeeded, accepted, status, pc, job, ok>>,
           NEW r \in Runs, NEW S \in SUBSET Chosen(c.event),
           trackers[r] = NoTracker,
           trackers' = [trackers EXCEPT ![r] = NewTracker(c, S)],
           plan' = [plan EXCEPT ![c.event] = Chosen(c.event)],
           \A b \in Chosen(c.event) \ S : Received(c.event, b)
    PROVE  Truth'
<1>1. c \in Copies /\ c \in HeldCopies /\ c.event \in Events
  BY TakenCopy DEF ContractInv
<1>2. ~Live(c.event) /\ status[c.event] \in Unfinished
  BY <1>1 DEF ContractInv, EventInv, Hands, Copied
<1>3. Chosen(c.event) \in SUBSET Subscriptions
  BY <1>1, ChosenType DEF ContractInv, EventInv, Inv
<1>4. /\ plan'[c.event] = Chosen(c.event)
      /\ \A e \in Events \ {c.event} : plan'[e] = plan[e]
  BY <1>1 DEF ContractInv, EventInv, Inv, Types
<1>5. /\ trackers'[r] = NewTracker(c, S)
      /\ \A q \in Runs \ {r} : trackers'[q] = trackers[q]
  BY DEF ContractInv, EventInv, Inv, Types
<1>6. /\ NewTracker(c, S).event = c.event /\ NewTracker(c, S).expected = S
      /\ DOMAIN NewTracker(c, S).results = {}
  BY <1>1, <1>3, NewTrackerType
<1>7. \A q \in Runs : trackers[q] # NoTracker => trackers[q].event \in Events \ {c.event}
  <2>1. \A q \in Runs : trackers[q] # NoTracker => trackers[q].event \in Events
    BY DEF ContractInv, EventInv, Inv, Types, Trackers
  <2> QED
    BY <1>2, <2>1 DEF Live
<1>8. Answered' /\ OnRecord'
  BY DEF ContractInv, Truth, Answered, OnRecord, Received
<1>9. TrueResults'
  BY <1>5, <1>6 DEF ContractInv, Truth, TrueResults, Received
<1>10. Addressed'
  <2> SUFFICES ASSUME NEW q \in Runs, trackers'[q] # NoTracker
               PROVE  LET e == trackers'[q].event IN
                      /\ trackers'[q].expected \subseteq plan'[e]
                      /\ \A b \in plan'[e] \ trackers'[q].expected : Received(e, b)
    BY DEF Addressed, Received
  <2>1. CASE q = r
    BY <1>4, <1>5, <1>6, <2>1
  <2>2. CASE q # r
    BY <1>4, <1>5, <1>7, <2>2 DEF ContractInv, Truth, Addressed
  <2> QED
    BY <2>1, <2>2
<1>11. DeliveredToAll'
  <2>1. status[c.event] # "delivered"
    BY <1>2 DEF Unfinished
  <2> QED
    BY <1>4, <2>1 DEF ContractInv, Truth, DeliveredToAll, Audience
<1> QED
  BY <1>8, <1>9, <1>10, <1>11 DEF Truth

\* Whoever is left out when an event is resumed has it.
LEMMA SkippedHaveIt ==
    ASSUME ContractInv, NEW e \in Events
    PROVE  \A b \in Chosen(e) \ Remaining(e) : Received(e, b)
<1> SUFFICES ASSUME NEW b \in Chosen(e) \ Remaining(e)
             PROVE  Received(e, b)
  OBVIOUS
<1>1. b \in Subscriptions /\ Owner[b] \in Subscribers
  BY ChosenType, SubscriptionAssumption DEF ContractInv, EventInv, Inv
<1>2. succeeded[e][Owner[b]] \in Nat /\ succeeded[e][Owner[b]] # 0
  BY <1>1 DEF Remaining, ContractInv, EventInv, Inv, Types
<1> QED
  BY <1>1, <1>2 DEF ContractInv, Truth, OnRecord, Received

LEMMA ResumeTruth ==
    ASSUME ContractInv, NEW c \in resuming, ResumePartialEvent(c)
    PROVE  Truth'
<1>1. /\ CopyTaken(c)
      /\ UNCHANGED <<posting, feed, succeeded, accepted, pc, job, ok>>
  BY DEF ResumePartialEvent, CopyTaken
<1>2. c.event \in Events /\ c \in HeldCopies
  BY <1>1, TakenCopy DEF ContractInv
<1>3. /\ Chosen(c.event) \in SUBSET Subscriptions
      /\ \A b \in Chosen(c.event) \ Remaining(c.event) : Received(c.event, b)
  BY <1>2, ChosenType, SkippedHaveIt DEF ContractInv, EventInv, Inv
<1>4. status[c.event] # "delivered"
  BY <1>2 DEF ContractInv, EventInv, Hands, Copied, Unfinished
<1>5. CASE ResumeGivesUp(c)
  <2>1. UNCHANGED <<status, plan, trackers>>
    BY <1>5 DEF ResumeGivesUp
  <2> QED
    BY <1>1, <2>1, TruthUntouched
<1>6. ASSUME NEW st, ResumeWithoutTasks(c, st),
             st = "recorded" \/ Remaining(c.event) = {}
      PROVE  Truth'
  <2>1. /\ UNCHANGED trackers
        /\ plan' = [plan EXCEPT ![c.event] = Chosen(c.event)]
        /\ status' = [status EXCEPT ![c.event] = st] \/ UNCHANGED status
    BY <1>6 DEF ResumeWithoutTasks, UpdateEventStatus, Plan
  <2>2. /\ \A e \in Events \ {c.event} : status'[e] = status[e]
        /\ status'[c.event] \in {st, status[c.event]}
    BY <1>2, <2>1 DEF ContractInv, EventInv, Inv, Types
  <2>3. status'[c.event] = "delivered" => \A b \in Chosen(c.event) : Received(c.event, b)
    BY <1>3, <1>4, <1>6, <2>2
  <2> QED
    BY <1>1, <1>3, <2>1, <2>2, <2>3, LetGoTruth
<1>7. ASSUME NEW r \in Runs, ResumeWithTasks(c, r)
      PROVE  Truth'
  <2>1. Remaining(c.event) \in SUBSET Chosen(c.event)
    BY DEF Remaining
  <2> QED
    BY <1>1, <1>3, <1>7, <2>1, TakenUpTruth DEF ResumeWithTasks, Plan
<1> QED
  BY <1>5, <1>6, <1>7 DEF ResumePartialEvent

LEMMA DispatchTruth ==
    ASSUME ContractInv, DispatchEvent
    PROVE  Truth'
<1>1. PICK c : c = Head(chan)
  OBVIOUS
<1>2. /\ CopyTaken(c)
      /\ UNCHANGED <<posting, feed, succeeded, accepted, pc, job, ok>>
  BY <1>1 DEF DispatchEvent, CopyTaken
<1>3. c.event \in Events /\ c \in HeldCopies
  BY <1>2, TakenCopy DEF ContractInv
<1>4. Chosen(c.event) \in SUBSET Subscriptions
  BY <1>3, ChosenType DEF ContractInv, EventInv, Inv
<1>5. status[c.event] # "delivered"
  BY <1>3 DEF ContractInv, EventInv, Hands, Copied, Unfinished
<1>6. ASSUME NEW st, st # "delivered", UpdateEventStatus(c.event, c.retries, st)
      PROVE  /\ \A e \in Events \ {c.event} : status'[e] = status[e]
             /\ status'[c.event] # "delivered"
  BY <1>3, <1>5, <1>6 DEF UpdateEventStatus, ContractInv, EventInv, Inv, Types
<1>7. CASE UpdateEventStatus(c.event, c.retries, "failed") /\ UNCHANGED <<plan, trackers>>
  <2>1. \A e \in Events : status'[e] = "delivered" => status[e] = "delivered"
    BY <1>6, <1>7
  <2> QED
    BY <1>2, <1>7, <2>1, TruthUntouched
<1>8. ASSUME NEW st, st # "delivered", DispatchWithoutTasks(c, st)
      PROVE  Truth'
  <2>1. /\ \A e \in Events \ {c.event} : status'[e] = status[e]
        /\ status'[c.event] # "delivered"
    BY <1>6, <1>8 DEF DispatchWithoutTasks
  <2> QED
    BY <1>2, <1>4, <1>8, <2>1, LetGoTruth DEF DispatchWithoutTasks, Plan
<1>9. ASSUME NEW r \in Runs, DispatchWithTasks(c, r)
      PROVE  Truth'
  BY <1>2, <1>9, TakenUpTruth DEF DispatchWithTasks, Plan
<1> QED
  BY <1>1, <1>7, <1>8, <1>9 DEF DispatchEvent

-----------------------------------------------------------------------------
LEMMA NextTruth == ContractInv /\ [Next]_vars => Truth'
<1> SUFFICES ASSUME ContractInv, [Next]_vars
             PROVE  Truth'
  OBVIOUS
<1>1. CASE Boot \/ Serve \/ Stop \/ ChangeTable \/ Rest \/ CloseQueue \/ Timers \/ UNCHANGED vars
           \/ (\E t \in resumeTasks : ResumeEnqueue(t)) \/ (\E t \in dispTasks : DispatchEnqueue(t))
           \/ Handlers \/ (\E c \in feed : FeedSend(c))
  <2>1. UNCHANGED <<succeeded, trackers, plan, accepted, pc, job, ok, status>>
    BY <1>1 DEF Boot, Serve, Stop, ChangeTable, Rest, CloseQueue, Timers, TimerFires,
                TimerAbandons, TimerSends, vars, ResumeEnqueue, DispatchEnqueue, Handlers,
                HandlerSend, HandlerPanic, FeedSend
  <2> QED
    BY <2>1, TruthUntouched
<1>2. CASE FeedPanic \/ Exit \/ Crash
  BY <1>2, EndTruth DEF FeedPanic, Exit, Crash
<1>3. ASSUME NEW e \in Events, Publish(e)
      PROVE  Truth'
  <2>1. /\ UNCHANGED <<succeeded, trackers, plan, accepted, pc, job, ok>>
        /\ status' = [status EXCEPT ![e] = "pending"]
    BY <1>3 DEF Publish, InsertEvent
  <2>2. \A x \in Events : status'[x] = "delivered" => status[x] = "delivered"
    BY <2>1 DEF ContractInv, EventInv, Inv, Types
  <2> QED
    BY <2>1, <2>2, TruthUntouched
<1>4. ASSUME NEW w \in Workers, Worker(w)
      PROVE  Truth'
  BY <1>4, TakeTruth, DeliverTruth, RecordTruth, ResultTruth, FinalizeTruth, RetryTruth
     DEF Worker
<1> QED
  BY <1>1, <1>2, <1>3, <1>4, ResumeTruth, DispatchTruth
     DEF Next, Resume, Feeder, Dispatcher

LEMMA TruthHolds == Spec => []ContractInv
<1>1. Init => Truth
  BY InitTruth
<1>2. EventInv /\ EventInv' /\ Truth /\ [Next]_vars => Truth'
  BY NextTruth DEF ContractInv
<1> QED
  BY <1>1, <1>2, EventsInHands, PTL DEF Spec, ContractInv

\* "All matching subscribers received the event successfully": whoever was to receive
\* an event that is "delivered" has answered a POST of it with 2xx (docs/concepts.md).
THEOREM DeliveredIsTrue == Spec => []DeliveredToAll
<1>1. ContractInv => DeliveredToAll
  BY DEF ContractInv, Truth
<1> QED
  BY <1>1, TruthHolds, PTL

-----------------------------------------------------------------------------
(* The steps of the contract.                                              *)

audienceOf == [e \in Events |-> Audience(e)]
currentFor == [e \in Events |-> {Owner[b] : b \in Chosen(e)}]

LEMMA SameTable ==
    ASSUME UNCHANGED table
    PROVE  /\ currentFor' = currentFor
           /\ \A e : Chosen(e)' = Chosen(e)
<1>1. \A e : Chosen(e)' = Chosen(e)
  BY DEF Chosen, Selected, Candidates, Matching
<1> QED
  BY <1>1 DEF currentFor

LEMMA SameAudience ==
    ASSUME UNCHANGED plan
    PROVE  audienceOf' = audienceOf
  BY DEF audienceOf, Audience

LEMMA Untold ==
    ASSUME UNCHANGED <<status, accepted, plan, table>>
    PROVE  UNCHANGED Contract!vars
  BY SameTable, SameAudience DEF Contract!vars, audienceOf, currentFor

\* The audience of an event is chosen from the subscriptions in force.
LEMMA NewAudience ==
    ASSUME ContractInv, NEW e \in Events, Plan(e)
    PROVE  audienceOf' = [audienceOf EXCEPT ![e] = currentFor[e]]
<1>1. plan' = [plan EXCEPT ![e] = Chosen(e)] /\ plan \in [Events -> SUBSET Subscriptions]
  BY DEF Plan, ContractInv, EventInv, Inv, Types
<1>2. \A x \in Events : plan'[x] = IF x = e THEN Chosen(e) ELSE plan[x]
  BY <1>1
<1>3. \A x \in Events : {Owner[b] : b \in plan'[x]} =
          IF x = e THEN {Owner[b] : b \in Chosen(e)} ELSE {Owner[b] : b \in plan[x]}
  BY <1>2
<1> QED
  BY <1>3 DEF audienceOf, currentFor, Audience

LEMMA ChangeContract ==
    ASSUME ContractInv, Types', ChangeTable
    PROVE  Contract!Subscribe
<1>1. UNCHANGED <<status, accepted>> /\ audienceOf' = audienceOf
  BY SameAudience DEF ChangeTable
<1>2. \A e \in Events : Chosen(e)' \in SUBSET Subscriptions
  <2>1. table' \in SUBSET Subscriptions
    BY SubscriptionAssumption DEF Types
  <2> QED
    BY <2>1 DEF Chosen, Selected, Candidates, Matching
<1>3. currentFor' \in [Events -> SUBSET Subscribers]
  BY <1>2, SubscriptionAssumption DEF currentFor
<1> QED
  BY <1>1, <1>3 DEF Contract!Subscribe, audienceOf, currentFor

LEMMA PublishContract ==
    ASSUME NEW e \in Events, Publish(e)
    PROVE  Contract!Publish(e)
<1>1. /\ status[e] = "none" /\ status' = [status EXCEPT ![e] = "pending"]
      /\ UNCHANGED <<accepted, plan, table>>
  BY DEF Publish, InsertEvent
<1> QED
  BY <1>1, SameTable, SameAudience DEF Contract!Publish, audienceOf, currentFor

\* A worker's task is for a member of the audience of an unfinished event.
LEMMA WorkIsAddressed ==
    ASSUME ContractInv, NEW w \in Workers, pc[w] # "idle"
    PROVE  /\ job[w].event \in Events /\ Owner[job[w].sub] \in Subscribers
           /\ status[job[w].event] \in Unfinished
           /\ Owner[job[w].sub] \in Audience(job[w].event)
<1>1. /\ job[w] \in Working /\ job[w].event \in Events /\ job[w].run \in Runs
      /\ Owner[job[w].sub] \in Subscribers
      /\ trackers[job[w].run] # NoTracker
      /\ trackers[job[w].run].event = job[w].event
      /\ job[w].sub \in trackers[job[w].run].expected
  BY TrackerOfWork DEF ContractInv, EventInv
<1>2. job[w].sub \in plan[job[w].event]
  BY <1>1 DEF ContractInv, Truth, Addressed
<1> QED
  BY <1>1, <1>2, TaskIsTracked DEF Audience, ContractInv

LEMMA DeliverContract ==
    ASSUME ContractInv, NEW w \in Workers, NEW good \in BOOLEAN, Deliver(w, good)
    PROVE  Contract!Next \/ UNCHANGED Contract!vars
<1> DEFINE e == job[w].event
           s == Owner[job[w].sub]
<1>1. /\ e \in Events /\ s \in Subscribers
      /\ status[e] \in Unfinished /\ s \in audienceOf[e]
  BY WorkIsAddressed DEF Deliver, audienceOf
<1>2. /\ UNCHANGED <<status, plan, table>>
      /\ accepted' = IF good THEN accepted \cup {<<e, s>>} ELSE accepted
  BY DEF Deliver
<1> HIDE DEF e, s
<1>3. CASE good
  <2>1. audienceOf' = audienceOf /\ currentFor' = currentFor
    BY <1>2, SameTable, SameAudience
  <2>2. Contract!Accept(e, s)
    BY <1>1, <1>2, <1>3, <2>1
       DEF Contract!Accept, Contract!Unfinished, Unfinished, audienceOf, currentFor
  <2> QED
    BY <1>1, <2>2 DEF Contract!Next
<1>4. CASE ~good
  BY <1>2, <1>4, Untold
<1> QED
  BY <1>3, <1>4

LEMMA RetryContract ==
    ASSUME ContractInv, NEW w \in Workers, ScheduleRetry(w)
    PROVE  Contract!Next \/ UNCHANGED Contract!vars
<1> DEFINE e == job[w].event
<1>1. e \in Events /\ status[e] \in Unfinished /\ audienceOf[e] # {}
  BY WorkIsAddressed DEF ScheduleRetry, audienceOf
<1>2. /\ UNCHANGED <<accepted, plan, table>>
      /\ status' = [status EXCEPT ![e] = "partial"] \/ UNCHANGED status
  BY DEF ScheduleRetry, UpdateEventStatus
<1> HIDE DEF e
<1>3. CASE status' = [status EXCEPT ![e] = "partial"]
  <2>1. audienceOf' = audienceOf /\ currentFor' = currentFor
    BY <1>2, SameTable, SameAudience
  <2>2. Contract!MarkPartial(e)
    BY <1>1, <1>2, <1>3, <2>1
       DEF Contract!MarkPartial, Contract!Unfinished, Unfinished, audienceOf, currentFor
  <2> QED
    BY <1>1, <2>2 DEF Contract!Next
<1> QED
  BY <1>2, <1>3, Untold

\* An event is concluded for an audience that has it, or is not told to have it.
LEMMA Concluded ==
    ASSUME ContractInv, NEW e \in Events, status[e] \in Unfinished,
           NEW st \in {"delivered", "failed", "recorded"},
           status' = [status EXCEPT ![e] = st], UNCHANGED <<accepted, table>>,
           NEW now \in {audienceOf[e], currentFor[e]},
           audienceOf' = [audienceOf EXCEPT ![e] = now],
           st = "delivered" => \A s \in now : <<e, s>> \in accepted,
           st = "recorded" => now = {}
    PROVE  Contract!Conclude(e, st)
<1>1. currentFor' = currentFor
  BY SameTable
<1> QED
  BY <1>1 DEF Contract!Conclude, Contract!Unfinished, Unfinished, audienceOf, currentFor

LEMMA FinalizeContract ==
    ASSUME ContractInv, NEW w \in Workers, FinalizeEvent(w)
    PROVE  Contract!Next \/ UNCHANGED Contract!vars
<1> DEFINE e == job[w].event
           st == FinalStatus(trackers[job[w].run])
<1>1. /\ e \in Events /\ status[e] \in Unfinished
      /\ trackers[job[w].run].event = e /\ pc[w] = "finalize"
  BY WorkIsAddressed, TrackerOfWork DEF FinalizeEvent, ContractInv, EventInv
<1>2. /\ UNCHANGED <<accepted, plan, table>>
      /\ status' = [status EXCEPT ![e] = st] \/ UNCHANGED status
  BY <1>1 DEF FinalizeEvent, UpdateEventStatus
<1>3. st \in {"delivered", "failed"}
  BY DEF FinalStatus
<1>4. st = "delivered" => \A s \in audienceOf[e] : <<e, s>> \in accepted
  BY <1>1, AudienceHasIt DEF audienceOf
<1> HIDE DEF e, st
<1>5. CASE status' = [status EXCEPT ![e] = st]
  <2>1. audienceOf' = audienceOf /\ audienceOf' = [audienceOf EXCEPT ![e] = audienceOf[e]]
    BY <1>1, <1>2, SameAudience DEF audienceOf
  <2>2. Contract!Conclude(e, st)
    BY <1>1, <1>2, <1>3, <1>4, <1>5, <2>1, Concluded
  <2> QED
    BY <1>1, <1>3, <2>2 DEF Contract!Next
<1> QED
  BY <1>2, <1>5, Untold

\* The event of a taken copy is addressed anew, and perhaps concluded.
LEMMA ReplannedContract ==
    ASSUME ContractInv, NEW c \in HeldCopies, c.event \in Events,
           Plan(c.event), UNCHANGED <<accepted, table>>,
           NEW st \in {"delivered", "failed", "recorded"},
           \/ UNCHANGED status
           \/ status' = [status EXCEPT ![c.event] = st],
           st = "delivered" => \A b \in Chosen(c.event) : Received(c.event, b),
           st = "recorded" => Chosen(c.event) = {}
    PROVE  Contract!Next
<1> DEFINE e == c.event
<1>1. status[e] \in Unfinished
  BY DEF ContractInv, EventInv, Hands, Copied
<1>2. audienceOf' = [audienceOf EXCEPT ![e] = currentFor[e]] /\ currentFor' = currentFor
  BY NewAudience, SameTable
<1>3. currentFor[e] = {Owner[b] : b \in Chosen(e)}
  BY DEF currentFor
<1> HIDE DEF e
<1>4. CASE UNCHANGED status
  <2>1. Contract!Address(e)
    BY <1>1, <1>2, <1>4
       DEF Contract!Address, Contract!Unfinished, Unfinished, audienceOf, currentFor
  <2> QED
    BY <2>1 DEF Contract!Next, e
<1>5. CASE status' = [status EXCEPT ![e] = st]
  <2>1. st = "delivered" => \A s \in currentFor[e] : <<e, s>> \in accepted
    BY <1>3 DEF Received, e
  <2>2. st = "recorded" => currentFor[e] = {}
    BY <1>3 DEF e
  <2>3. e \in Events
    BY DEF e
  <2>4. Contract!Conclude(e, st)
    BY <1>1, <1>2, <1>5, <2>1, <2>2, <2>3, Concluded
  <2> QED
    BY <2>3, <2>4 DEF Contract!Next
<1> QED
  BY <1>4, <1>5 DEF e

LEMMA NoMatch ==
    ASSUME NEW e, Matching(e) = {}
    PROVE  Chosen(e) = {}
  BY DEF Chosen, Selected, Candidates

LEMMA ResumeContract ==
    ASSUME ContractInv, NEW c \in resuming, ResumePartialEvent(c)
    PROVE  Contract!Next \/ UNCHANGED Contract!vars
<1>1. CopyTaken(c) /\ UNCHANGED <<posting, feed, accepted, table>>
  BY DEF ResumePartialEvent, CopyTaken
<1>2. c.event \in Events /\ c \in HeldCopies
  BY <1>1, TakenCopy DEF ContractInv
<1>3. \A b \in Chosen(c.event) \ Remaining(c.event) : Received(c.event, b)
  BY <1>2, SkippedHaveIt
<1>4. CASE ResumeGivesUp(c)
  BY <1>1, <1>4, Untold DEF ResumeGivesUp
<1>5. CASE Matching(c.event) = {} /\ ResumeWithoutTasks(c, "recorded")
  <2>1. Chosen(c.event) = {}
    BY <1>5, NoMatch
  <2> QED
    BY <1>1, <1>2, <1>5, <2>1, ReplannedContract DEF ResumeWithoutTasks, UpdateEventStatus
<1>6. CASE Remaining(c.event) = {} /\ ResumeWithoutTasks(c, "delivered")
  BY <1>1, <1>2, <1>3, <1>6, ReplannedContract DEF ResumeWithoutTasks, UpdateEventStatus
<1>7. ASSUME NEW r \in Runs, ResumeWithTasks(c, r)
      PROVE  Contract!Next
  BY <1>1, <1>2, <1>7, ReplannedContract DEF ResumeWithTasks
<1> QED
  BY <1>4, <1>5, <1>6, <1>7 DEF ResumePartialEvent

LEMMA DispatchContract ==
    ASSUME ContractInv, DispatchEvent
    PROVE  Contract!Next \/ UNCHANGED Contract!vars
<1>1. PICK c : c = Head(chan)
  OBVIOUS
<1>2. CopyTaken(c) /\ UNCHANGED <<posting, feed, accepted, table>>
  BY <1>1 DEF DispatchEvent, CopyTaken
<1>3. c.event \in Events /\ c \in HeldCopies
  BY <1>2, TakenCopy DEF ContractInv
<1>4. status[c.event] \in Unfinished
  BY <1>3 DEF ContractInv, EventInv, Hands, Copied
<1>5. CASE UpdateEventStatus(c.event, c.retries, "failed") /\ UNCHANGED plan
  <2>1. CASE UNCHANGED status
    BY <1>2, <1>5, <2>1, Untold
  <2>2. CASE status' = [status EXCEPT ![c.event] = "failed"]
    <3>1. audienceOf' = [audienceOf EXCEPT ![c.event] = audienceOf[c.event]]
      BY <1>3, <1>5, SameAudience DEF audienceOf
    <3>2. Contract!Conclude(c.event, "failed")
      BY <1>2, <1>3, <1>4, <2>2, <3>1, Concluded
    <3> QED
      BY <1>3, <3>2 DEF Contract!Next
  <2> QED
    BY <1>5, <2>1, <2>2 DEF UpdateEventStatus
<1>6. CASE Matching(c.event) = {} /\ DispatchWithoutTasks(c, "recorded")
  <2>1. Chosen(c.event) = {}
    BY <1>6, NoMatch
  <2> QED
    BY <1>2, <1>3, <1>6, <2>1, ReplannedContract DEF DispatchWithoutTasks, UpdateEventStatus
<1>7. CASE DispatchWithoutTasks(c, "failed")
  BY <1>2, <1>3, <1>7, ReplannedContract DEF DispatchWithoutTasks, UpdateEventStatus
<1>8. ASSUME NEW r \in Runs, DispatchWithTasks(c, r)
      PROVE  Contract!Next
  BY <1>2, <1>3, <1>8, ReplannedContract DEF DispatchWithTasks
<1> QED
  BY <1>1, <1>5, <1>6, <1>7, <1>8 DEF DispatchEvent

-----------------------------------------------------------------------------
LEMMA InitContract == Init => Contract!Init
<1> SUFFICES ASSUME Init
             PROVE  Contract!Init
  OBVIOUS
<1>1. \A e \in Events : Chosen(e) \in SUBSET Subscriptions
  BY InitTypes, ChosenType
<1>2. currentFor \in [Events -> SUBSET Subscribers]
  BY <1>1, SubscriptionAssumption DEF currentFor
<1> QED
  BY <1>2 DEF Init, Contract!Init, currentFor, Audience

\* Every step of every goroutine is one of the contract or invisible there.
LEMMA NextContract ==
    ASSUME ContractInv, Types', [Next]_vars
    PROVE  Contract!Next \/ UNCHANGED Contract!vars
<1>1. CASE Boot \/ Serve \/ Stop \/ Rest \/ CloseQueue \/ Timers \/ UNCHANGED vars
           \/ (\E t \in resumeTasks : ResumeEnqueue(t)) \/ (\E t \in dispTasks : DispatchEnqueue(t))
           \/ Handlers \/ (\E c \in feed : FeedSend(c)) \/ FeedPanic \/ Exit \/ Crash
  <2>1. UNCHANGED <<status, accepted, plan, table>>
    BY <1>1 DEF Boot, Serve, Stop, Rest, CloseQueue, Timers, TimerFires, TimerAbandons,
                TimerSends, vars, ResumeEnqueue, DispatchEnqueue, Handlers, HandlerSend,
                HandlerPanic, FeedSend, FeedPanic, Exit, Crash, ProcessEnds
  <2> QED
    BY <2>1, Untold
<1>2. CASE ChangeTable
  BY <1>2, ChangeContract DEF Contract!Next
<1>3. ASSUME NEW e \in Events, Publish(e)
      PROVE  Contract!Next
  BY <1>3, PublishContract DEF Contract!Next
<1>4. ASSUME NEW w \in Workers, Worker(w)
      PROVE  Contract!Next \/ UNCHANGED Contract!vars
  <2>1. CASE Take(w) \/ Acquire(w) \/ RecordAttempt(w) \/ RecordResult(w)
    <3>1. UNCHANGED <<status, accepted, plan, table>>
      BY <2>1 DEF Take, Acquire, RecordAttempt, RecordResult
    <3> QED
      BY <3>1, Untold
  <2> QED
    BY <1>4, <2>1, DeliverContract, FinalizeContract, RetryContract DEF Worker
<1> QED
  BY <1>1, <1>2, <1>3, <1>4, ResumeContract, DispatchContract
     DEF Next, Resume, Feeder, Dispatcher

\* The pipeline keeps its contract, whatever crashes, restarts, errors and changes of
\* the subscriptions come in between (docs/concepts.md, the statuses of an event).
THEOREM ContractIsKept == Spec => ImplementsContract
<1>1. ContractInv => Types
  BY DEF ContractInv, EventInv, Inv
<1>2. ContractInv /\ Types' /\ [Next]_vars => [Contract!Next]_(Contract!vars)
  BY NextContract
<1> QED
  BY <1>1, <1>2, InitContract, TruthHolds, PTL DEF Spec, ImplementsContract, Contract!Spec

-----------------------------------------------------------------------------
(* An event fails for a subscriber that used up its attempts.  A task does *)
(* not count more attempts than delivery_attempts has failures of its      *)
(* subscriber, also after a restart, where the count is read from there;   *)
(* so a failure a tracker has collected is one beyond the limit on record. *)
(* All this as long as the database and the cache answer.                  *)

Failures(e, b) == failed[e][Owner[b]]

\* A task waits with as many attempts as have failed, or fewer,
WaitingTally == \A t \in Waiting : t.attempt <= Failures(t.event, t.sub)

\* also at a worker, where the failure of this attempt counts once it is inserted.
WorkingTally ==
    \A w \in Busy :
        /\ job[w].attempt <= Failures(job[w].event, job[w].sub)
        /\ pc[w] = "settle" /\ ~ok[w] => job[w].attempt < Failures(job[w].event, job[w].sub)

\* A failure a tracker has collected is final.
ResultTally ==
    \A r \in Runs : trackers[r] # NoTracker =>
        \A b \in DOMAIN trackers[r].results :
            ~trackers[r].results[b] => Failures(trackers[r].event, b) > MaxRetries(b)

FailedTally ==
    \A e \in Events : status[e] = "failed" /\ plan[e] # {} =>
        \E b \in plan[e] : Failures(e, b) > MaxRetries(b)

Tally == WaitingTally /\ WorkingTally /\ ResultTally /\ FailedTally

TallyInv == ContractInv /\ Tally

NoErrors == ~DbMayFail /\ ~CacheMayFail

USE DEF ContractInv, EventInv, Inv

-----------------------------------------------------------------------------
LEMMA LimitType == \A b \in Subscriptions : MaxRetries(b) \in Int
  BY SubscriptionAssumption, ConfigAssumption DEF MaxRetries

LEMMA FailuresType ==
    ASSUME TallyInv, NEW e \in Events, NEW b \in Subscriptions
    PROVE  Failures(e, b) \in Nat
  BY SubscriptionAssumption DEF Failures, TallyInv, Types

\* What a tracker and a plan refer to.
LEMMA Referred ==
    ASSUME TallyInv
    PROVE  /\ \A r \in Runs : trackers[r] # NoTracker =>
                 /\ trackers[r].event \in Events
                 /\ DOMAIN trackers[r].results \subseteq Subscriptions
           /\ \A e \in Events : plan[e] \subseteq Subscriptions
<1>1. \A r \in Runs : trackers[r] # NoTracker => trackers[r] \in Trackers
  BY DEF TallyInv, Types
<1>2. \A r \in Runs : trackers[r] # NoTracker =>
          trackers[r].event \in Events /\ trackers[r].expected \subseteq Subscriptions
  BY <1>1 DEF Trackers
<1> QED
  BY <1>2 DEF TallyInv, Types, Collected

LEMMA InitTally == Init => Tally
  BY DEF Init, Tally, WaitingTally, WorkingTally, ResultTally, FailedTally, Waiting, Busy, Elems

LEMMA EndTally == TallyInv /\ ProcessEnds => Tally'
  BY DEF ProcessEnds, TallyInv, Tally, WaitingTally, WorkingTally, ResultTally, FailedTally,
         Waiting, Busy, Elems, Failures

\* Tasks move; nothing is recorded, and no event fails.
LEMMA TallyMoves ==
    ASSUME TallyInv, UNCHANGED <<failed, trackers, plan>>,
           \A e \in Events : status'[e] = "failed" => status[e] = "failed",
           \A t \in Waiting' : t \in Waiting \cup Working,
           \A w \in Busy' : /\ job'[w] \in Waiting \cup Working
                            /\ pc'[w] = "settle" => /\ w \in Busy /\ pc[w] = "settle"
                                                    /\ job'[w] = job[w] /\ ok'[w] = ok[w]
    PROVE  Tally'
<1>1. \A t \in Waiting \cup Working : t.attempt <= Failures(t.event, t.sub)
  BY DEF TallyInv, Tally, WaitingTally, WorkingTally, Working
<1>2. WaitingTally' /\ WorkingTally'
  BY <1>1 DEF TallyInv, Tally, WaitingTally, WorkingTally, Failures
<1>3. ResultTally' /\ FailedTally'
  BY DEF TallyInv, Tally, ResultTally, FailedTally, Failures
<1> QED
  BY <1>2, <1>3 DEF Tally

\* The tasks that wait, and their order in taskQueue.
LEMMA QueueIs ==
    ASSUME TallyInv
    PROVE  /\ taskQueue \in Seq(Tasks)
           /\ \A t \in Tasks : Elems(Append(taskQueue, t)) = Elems(taskQueue) \cup {t}
           /\ taskQueue # <<>> =>
                 /\ Head(taskQueue) \in Elems(taskQueue)
                 /\ Elems(Tail(taskQueue)) \subseteq Elems(taskQueue)
<1>1. taskQueue \in Seq(Tasks)
  BY DEF TallyInv, Types
<1> QED
  BY <1>1, AppendElems, TailElems

LEMMA QueuedTally ==
    ASSUME TallyInv, NEW t, taskQueue' = Append(taskQueue, t),
           UNCHANGED <<failed, trackers, plan, status, pc, job, ok>>,
           \/ t \in resumeTasks /\ resumeTasks' = resumeTasks \ {t} /\ UNCHANGED <<dispTasks, timers, firing>>
           \/ t \in dispTasks /\ dispTasks' = dispTasks \ {t} /\ UNCHANGED <<resumeTasks, timers, firing>>
           \/ t \in firing /\ firing' = firing \ {t} /\ UNCHANGED <<resumeTasks, dispTasks, timers>>
    PROVE  Tally'
<1>1. t \in Tasks
  BY DEF TallyInv, Types
<1>2. Elems(taskQueue)' = Elems(taskQueue) \cup {t}
  BY <1>1, QueueIs DEF Elems
<1>3. Waiting' \subseteq Waiting
  BY <1>2 DEF Waiting
<1>4. Busy' = Busy /\ \A w \in Busy : job[w] \in Working
  BY DEF Busy, Working
<1> QED
  BY <1>3, <1>4, TallyMoves

LEMMA TimersTally ==
    ASSUME TallyInv, Timers
    PROVE  Tally'
<1>1. ASSUME NEW t \in timers, TimerFires(t) \/ TimerAbandons(t)
      PROVE  Tally'
  <2>1. /\ UNCHANGED <<failed, trackers, plan, status, pc, job, ok, taskQueue, dispTasks, resumeTasks>>
        /\ timers' \subseteq timers /\ firing' \subseteq firing \cup timers
    BY <1>1 DEF TimerFires, TimerAbandons
  <2>2. Waiting' \subseteq Waiting /\ Busy' = Busy /\ \A w \in Busy : job[w] \in Working
    BY <2>1 DEF Waiting, Elems, Busy, Working
  <2> QED
    BY <2>1, <2>2, TallyMoves
<1>2. ASSUME NEW t \in firing, TimerSends(t)
      PROVE  Tally'
  BY <1>2, QueuedTally DEF TimerSends
<1> QED
  BY <1>1, <1>2 DEF Timers

LEMMA TakeTally ==
    ASSUME TallyInv, NEW w \in Workers, Take(w)
    PROVE  Tally'
<1>1. /\ Head(taskQueue) \in Elems(taskQueue)
      /\ Elems(taskQueue)' \subseteq Elems(taskQueue)
  BY QueueIs DEF Take, Elems
<1>2. /\ UNCHANGED <<failed, trackers, plan, status, dispTasks, resumeTasks, timers, firing, ok>>
      /\ pc'[w] = "acquire" /\ job'[w] = Head(taskQueue)
      /\ \A v \in Workers \ {w} : pc'[v] = pc[v] /\ job'[v] = job[v]
  BY DEF Take, Goto, TallyInv, Types
<1>3. Waiting' \subseteq Waiting /\ job'[w] \in Waiting
  BY <1>1, <1>2 DEF Waiting
<1>4. \A v \in Busy' \ {w} : v \in Busy /\ job'[v] \in Working
  BY <1>2 DEF Busy, Working
<1> QED
  BY <1>2, <1>3, <1>4, TallyMoves DEF Busy

LEMMA SendTally ==
    ASSUME TallyInv, NEW w \in Workers, Acquire(w) \/ \E good \in BOOLEAN : Deliver(w, good)
    PROVE  Tally'
<1>1. /\ UNCHANGED <<failed, trackers, plan, status, dispTasks, resumeTasks, taskQueue, timers,
                     firing, job>>
      /\ pc[w] # "idle" /\ pc'[w] \in {"send", "insert"}
      /\ \A v \in Workers \ {w} : pc'[v] = pc[v] /\ ok'[v] = ok[v]
  BY DEF Acquire, Deliver, Goto, TallyInv, Types
<1>2. Waiting' = Waiting /\ Busy' = Busy /\ \A v \in Busy : job'[v] \in Working
  BY <1>1 DEF Waiting, Elems, Busy, Working
<1>3. \A v \in Busy' : pc'[v] = "settle" =>
          v \in Busy /\ pc[v] = "settle" /\ job'[v] = job[v] /\ ok'[v] = ok[v]
  BY <1>1, <1>2 DEF Busy
<1> QED
  BY <1>1, <1>2, <1>3, TallyMoves

\* A failed attempt is inserted.
LEMMA RecordTally ==
    ASSUME NoErrors, TallyInv, NEW w \in Workers, RecordAttempt(w)
    PROVE  Tally'
<1> DEFINE e == job[w].event
           s == Owner[job[w].sub]
           After(x, b) == failed'[x][Owner[b]]
<1>1. e \in Events /\ s \in Subscribers /\ w \in Busy /\ job[w].attempt \in Nat
      /\ job[w].sub \in Subscriptions
  BY TrackerOfWork DEF RecordAttempt, TallyInv, Busy
<1>2. /\ UNCHANGED <<trackers, plan, status, dispTasks, resumeTasks, taskQueue, timers, firing,
                     job, ok>>
      /\ pc[w] = "insert" /\ Goto(w, "settle")
      /\ \/ ok[w] /\ UNCHANGED failed
         \/ ~ok[w] /\ failed' = [failed EXCEPT ![e][s] = @ + 1]
  BY DEF RecordAttempt, InsertAttempt, NoErrors
<1>3. pc'[w] = "settle" /\ \A v \in Workers \ {w} : pc'[v] = pc[v]
  BY <1>2 DEF Goto, TallyInv, Types
<1>4. Waiting' = Waiting /\ Busy' = Busy
  BY <1>2, <1>3 DEF Waiting, Elems, Busy
<1>5. failed \in [Events -> [Subscribers -> Nat]]
  BY DEF TallyInv, Types
<1>6. /\ \A x \in Events, y \in Subscribers :
             failed[x][y] \in Nat /\ failed'[x][y] \in Nat /\ failed'[x][y] >= failed[x][y]
      /\ ~ok[w] => failed'[e][s] = failed[e][s] + 1
  <2>1. CASE ok[w] /\ UNCHANGED failed
    BY <1>5, <2>1
  <2>2. CASE ~ok[w] /\ failed' = [failed EXCEPT ![e][s] = @ + 1]
    <3>1. \A x \in Events, y \in Subscribers :
              failed'[x][y] = IF x = e /\ y = s THEN failed[x][y] + 1 ELSE failed[x][y]
      BY <1>1, <1>5, <2>2
    <3> QED
      BY <1>1, <1>5, <2>2, <3>1
  <2> QED
    BY <1>2, <2>1, <2>2
<1>7. \A x \in Events, b \in Subscriptions :
          /\ Failures(x, b) \in Nat /\ After(x, b) \in Nat
          /\ After(x, b) >= Failures(x, b)
  BY <1>6, SubscriptionAssumption DEF Failures
<1>8. ~ok[w] => After(e, job[w].sub) = Failures(e, job[w].sub) + 1
  BY <1>2, <1>6 DEF Failures
<1> HIDE DEF e, s, After
<1>9. \A t \in Waiting \cup Working :
          t.event \in Events /\ t.sub \in Subscriptions /\ t.attempt \in Nat
  BY TaskTypes DEF TallyInv, Tasks
<1>10. WaitingTally'
  <2> SUFFICES ASSUME NEW t \in Waiting
               PROVE  t.attempt <= After(t.event, t.sub)
    BY <1>4 DEF WaitingTally, Failures, After
  <2> QED
    BY <1>7, <1>9 DEF TallyInv, Tally, WaitingTally
<1>11. WorkingTally'
  <2> SUFFICES ASSUME NEW v \in Busy
               PROVE  /\ job[v].attempt <= After(job[v].event, job[v].sub)
                      /\ pc'[v] = "settle" /\ ~ok[v] =>
                            job[v].attempt < After(job[v].event, job[v].sub)
    BY <1>2, <1>4 DEF WorkingTally, Failures, After
  <2>1. job[v] \in Working
    BY DEF Working
  <2>2. job[v].attempt <= Failures(job[v].event, job[v].sub)
    BY DEF TallyInv, Tally, WorkingTally
  <2>3. CASE v = w
    BY <1>7, <1>8, <1>9, <2>1, <2>2, <2>3 DEF e
  <2>4. CASE v # w
    BY <1>3, <1>7, <1>9, <2>1, <2>2, <2>4 DEF TallyInv, Tally, WorkingTally, Busy
  <2> QED
    BY <2>3, <2>4
<1>12. ResultTally'
  <2> SUFFICES ASSUME NEW r \in Runs, trackers[r] # NoTracker,
                      NEW b \in DOMAIN trackers[r].results, ~trackers[r].results[b]
               PROVE  After(trackers[r].event, b) > MaxRetries(b)
    BY <1>2 DEF ResultTally, Failures, After
  <2>1. trackers[r].event \in Events /\ b \in Subscriptions
    BY Referred
  <2>2. Failures(trackers[r].event, b) > MaxRetries(b)
    BY DEF TallyInv, Tally, ResultTally
  <2> QED
    BY <1>7, <2>1, <2>2, LimitType
<1>13. FailedTally'
  <2> SUFFICES ASSUME NEW x \in Events, status[x] = "failed", plan[x] # {}
               PROVE  \E b \in plan[x] : After(x, b) > MaxRetries(b)
    BY <1>2 DEF FailedTally, Failures, After
  <2>1. PICK b \in plan[x] : Failures(x, b) > MaxRetries(b)
    BY DEF TallyInv, Tally, FailedTally
  <2>2. b \in Subscriptions
    BY Referred
  <2> QED
    BY <1>7, <2>1, <2>2, LimitType
<1> QED
  BY <1>10, <1>11, <1>12, <1>13 DEF Tally

\* The workers after one has returned.
LEMMA ReturnTally ==
    ASSUME TallyInv, NEW w \in Workers, pc[w] # "idle", Return(w), UNCHANGED failed
    PROVE  WorkingTally'
<1>1. /\ Busy' = Busy \ {w}
      /\ \A v \in Workers \ {w} : pc'[v] = pc[v] /\ job'[v] = job[v] /\ ok'[v] = ok[v]
  BY DEF Return, Goto, TallyInv, Types, Busy
<1> QED
  BY <1>1 DEF TallyInv, Tally, WorkingTally, Failures, Busy

\* The next attempt counts one more, which is on record.
LEMMA RetryTally ==
    ASSUME TallyInv, NEW w \in Workers, ScheduleRetry(w)
    PROVE  Tally'
<1> DEFINE u == [job[w] EXCEPT !.attempt = @ + 1, !.retries = @ + 1]
<1>1. job[w] \in Tasks /\ w \in Busy /\ job[w].event \in Events /\ job[w].sub \in Subscriptions
      /\ job[w].attempt \in Nat
  BY TrackerOfWork DEF ScheduleRetry, TallyInv, Busy
<1>2. u.event = job[w].event /\ u.sub = job[w].sub
  BY <1>1, RetryType
<1>3. u.attempt = job[w].attempt + 1
  BY <1>1 DEF Tasks
<1>4. /\ pc[w] = "settle" /\ ~ok[w] /\ timers' = timers \cup {u} /\ Return(w)
      /\ UNCHANGED <<failed, trackers, plan, dispTasks, resumeTasks, taskQueue, firing>>
      /\ UpdateEventStatus(job[w].event, job[w].retries + 1, "partial")
  BY DEF ScheduleRetry
<1> HIDE DEF u
<1>5. Waiting' = Waiting \cup {u}
  BY <1>4 DEF Waiting, Elems
<1>6. u.attempt <= Failures(u.event, u.sub)
  <2>1. job[w].attempt < Failures(job[w].event, job[w].sub)
    BY <1>1, <1>4 DEF TallyInv, Tally, WorkingTally
  <2> QED
    BY <1>1, <1>2, <1>3, <2>1, FailuresType
<1>7. WaitingTally'
  BY <1>4, <1>5, <1>6 DEF TallyInv, Tally, WaitingTally, Failures
<1>8. WorkingTally'
  BY <1>4, ReturnTally
<1>9. \A e \in Events : status'[e] = "failed" => status[e] = "failed"
  BY <1>1, <1>4 DEF UpdateEventStatus, TallyInv, Types
<1>10. ResultTally' /\ FailedTally'
  BY <1>4, <1>9 DEF TallyInv, Tally, ResultTally, FailedTally, Failures
<1> QED
  BY <1>7, <1>8, <1>10 DEF Tally

\* A tracker is told of a failure when the task has no attempt left.
LEMMA CollectTally ==
    ASSUME TallyInv, NEW w \in Workers, RecordResult(w)
    PROVE  Tally'
<1> DEFINE r == job[w].run
           u == WithResult(trackers[r], job[w].sub, ok[w])
<1>1. /\ r \in Runs /\ trackers[r] \in Trackers /\ trackers[r] # NoTracker
      /\ trackers[r].event = job[w].event /\ job[w].event \in Events
      /\ job[w].sub \in Subscriptions /\ ok[w] \in BOOLEAN /\ job[w].attempt \in Nat
      /\ w \in Busy
  BY TrackerOfWork DEF RecordResult, TallyInv, Types, Busy
<1>2. /\ u # NoTracker /\ u.event = trackers[r].event
      /\ u.results = Recorded(trackers[r].results, job[w].sub, ok[w])
      /\ DOMAIN u.results = DOMAIN trackers[r].results \cup {job[w].sub}
  BY <1>1, TrackerWithResult
<1>3. /\ trackers' = [trackers EXCEPT ![r] = u]
      /\ pc[w] = "settle" /\ (ok[w] \/ Exhausted(job[w]))
      /\ UNCHANGED <<failed, plan, status, dispTasks, resumeTasks, taskQueue, timers, firing>>
      /\ \/ Goto(w, "finalize") /\ UNCHANGED <<job, ok>>
         \/ Return(w)
  BY DEF RecordResult, WithResult
<1> HIDE DEF u
<1>4. trackers'[r] = u /\ \A q \in Runs \ {r} : trackers'[q] = trackers[q]
  BY <1>1, <1>3 DEF TallyInv, Types
<1>5. ~ok[w] => Failures(job[w].event, job[w].sub) > MaxRetries(job[w].sub)
  <2> SUFFICES ASSUME ~ok[w]
               PROVE  Failures(job[w].event, job[w].sub) > MaxRetries(job[w].sub)
    OBVIOUS
  <2>1. job[w].attempt < Failures(job[w].event, job[w].sub)
    BY <1>1, <1>3 DEF TallyInv, Tally, WorkingTally
  <2>2. job[w].attempt >= MaxRetries(job[w].sub)
    BY <1>3 DEF Exhausted
  <2> QED
    BY <1>1, <2>1, <2>2, LimitType, FailuresType
<1>6. \A b \in DOMAIN u.results : ~u.results[b] => Failures(u.event, b) > MaxRetries(b)
  <2> SUFFICES ASSUME NEW b \in DOMAIN u.results, ~u.results[b]
               PROVE  Failures(u.event, b) > MaxRetries(b)
    OBVIOUS
  <2>1. u.results[b] = IF b = job[w].sub THEN ok[w] ELSE trackers[r].results[b]
    BY <1>2 DEF Recorded
  <2>2. CASE b = job[w].sub
    BY <1>1, <1>2, <1>5, <2>1, <2>2
  <2>3. CASE b # job[w].sub
    BY <1>1, <1>2, <2>1, <2>3 DEF TallyInv, Tally, ResultTally
  <2> QED
    BY <2>2, <2>3
<1>7. ResultTally'
  BY <1>3, <1>4, <1>6 DEF TallyInv, Tally, ResultTally, Failures
<1>8. WaitingTally' /\ FailedTally'
  BY <1>3 DEF TallyInv, Tally, WaitingTally, FailedTally, Failures, Waiting, Elems
<1>9. WorkingTally'
  <2>1. CASE Goto(w, "finalize") /\ UNCHANGED <<job, ok>>
    <3>1. Busy' = Busy /\ pc'[w] = "finalize" /\ \A v \in Workers \ {w} : pc'[v] = pc[v]
      BY <1>1, <2>1 DEF Goto, TallyInv, Types, Busy
    <3> QED
      BY <1>3, <2>1, <3>1 DEF TallyInv, Tally, WorkingTally, Failures, Busy
  <2> QED
    BY <1>3, <2>1, ReturnTally
<1> QED
  BY <1>7, <1>8, <1>9 DEF Tally

\* A failed event has a failure among its results.
LEMMA FinalizeTally ==
    ASSUME TallyInv, NEW w \in Workers, FinalizeEvent(w)
    PROVE  Tally'
<1> DEFINE r == job[w].run
           e == job[w].event
           st == FinalStatus(trackers[r])
<1>1. /\ r \in Runs /\ e \in Events /\ trackers[r] # NoTracker /\ trackers[r].event = e
      /\ pc[w] = "finalize"
  BY TrackerOfWork DEF FinalizeEvent, TallyInv
<1>2. /\ trackers' = [trackers EXCEPT ![r] = NoTracker]
      /\ UNCHANGED <<failed, plan, dispTasks, resumeTasks, taskQueue, timers, firing>>
      /\ status' = [status EXCEPT ![e] = st] \/ UNCHANGED status
      /\ Return(w)
  BY <1>1 DEF FinalizeEvent, UpdateEventStatus
<1>3. trackers'[r] = NoTracker /\ \A q \in Runs \ {r} : trackers'[q] = trackers[q]
  BY <1>1, <1>2 DEF TallyInv, Types
<1>4. WorkingTally' /\ WaitingTally'
  BY <1>1, <1>2, ReturnTally
     DEF TallyInv, Tally, WaitingTally, Failures, Waiting, Elems
<1>5. ResultTally'
  BY <1>2, <1>3 DEF TallyInv, Tally, ResultTally, Failures
<1>6. st = "failed" => \E b \in plan[e] : Failures(e, b) > MaxRetries(b)
  <2> SUFFICES ASSUME st = "failed"
               PROVE  \E b \in plan[e] : Failures(e, b) > MaxRetries(b)
    OBVIOUS
  <2>1. PICK b \in DOMAIN trackers[r].results : ~trackers[r].results[b]
    BY DEF FinalStatus
  <2>2. b \in plan[e]
    BY <1>1, <2>1 DEF TallyInv, Truth, Addressed, Collected
  <2> QED
    BY <1>1, <2>1, <2>2 DEF TallyInv, Tally, ResultTally
<1> HIDE DEF e, st
<1>7. \A x \in Events : status'[x] = status[x] \/ (x = e /\ status'[x] = st)
  BY <1>1, <1>2 DEF TallyInv, Types
<1>8. FailedTally'
  BY <1>2, <1>6, <1>7 DEF TallyInv, Tally, FailedTally, Failures
<1> QED
  BY <1>4, <1>5, <1>8 DEF Tally

-----------------------------------------------------------------------------
(* Dispatch and resume.                                                    *)

\* An event whose audience is chosen anew does not fail with anybody in it.
LEMMA ReplannedTally ==
    ASSUME TallyInv, NEW c, CopyTaken(c), UNCHANGED <<posting, feed>>,
           UNCHANGED <<failed, pc, job, ok>>,
           NEW S \in SUBSET Subscriptions, plan' = [plan EXCEPT ![c.event] = S],
           \/ UNCHANGED status
           \/ \E st : status' = [status EXCEPT ![c.event] = st] /\ (st = "failed" => S = {})
    PROVE  FailedTally' /\ WorkingTally'
<1>1. c \in HeldCopies /\ c.event \in Events
  BY TakenCopy DEF TallyInv
<1>2. status[c.event] # "failed"
  BY <1>1 DEF TallyInv, Hands, Copied, Unfinished
<1>3. /\ \A e \in Events \ {c.event} : status'[e] = status[e]
      /\ status'[c.event] = "failed" => S = {}
  BY <1>1, <1>2 DEF TallyInv, Types
<1>4. /\ plan'[c.event] = S
      /\ \A e \in Events \ {c.event} : plan'[e] = plan[e]
  BY <1>1 DEF TallyInv, Types
<1>5. FailedTally'
  BY <1>3, <1>4 DEF TallyInv, Tally, FailedTally, Failures
<1>6. WorkingTally'
  BY DEF TallyInv, Tally, WorkingTally, Failures, Busy
<1> QED
  BY <1>5, <1>6

\* The tasks built for an event start from its failures on record, or from none.
LEMMA BuiltTally ==
    ASSUME TallyInv, NEW c \in Copies, NEW r \in Runs, NEW S \in SUBSET Subscriptions,
           NEW prior, \A b \in S : prior[Owner[b]] <= Failures(c.event, b),
           trackers' = [trackers EXCEPT ![r] = NewTracker(c, S)],
           UNCHANGED <<failed, taskQueue, timers, firing>>,
           \/ dispTasks' = TasksFor(c, r, S, prior) /\ UNCHANGED resumeTasks
           \/ resumeTasks' = TasksFor(c, r, S, prior) /\ UNCHANGED dispTasks
    PROVE  WaitingTally' /\ ResultTally'
<1>1. \A t \in TasksFor(c, r, S, prior) : t.attempt <= Failures(t.event, t.sub)
  BY DEF TasksFor
<1>2. Waiting' \subseteq Waiting \cup TasksFor(c, r, S, prior)
  BY DEF Waiting, Elems
<1>3. WaitingTally'
  BY <1>1, <1>2 DEF TallyInv, Tally, WaitingTally, Failures
<1>4. /\ trackers'[r] = NewTracker(c, S) /\ DOMAIN NewTracker(c, S).results = {}
      /\ \A q \in Runs \ {r} : trackers'[q] = trackers[q]
  BY NewTrackerType DEF TallyInv, Types
<1>5. ResultTally'
  BY <1>4 DEF TallyInv, Tally, ResultTally, Failures
<1> QED
  BY <1>3, <1>5

\* Neither tasks nor trackers change.
LEMMA NothingBuilt ==
    ASSUME TallyInv, UNCHANGED <<failed, trackers, taskQueue, timers, firing, dispTasks, resumeTasks>>
    PROVE  WaitingTally' /\ ResultTally'
  BY DEF TallyInv, Tally, WaitingTally, ResultTally, Failures, Waiting, Elems

LEMMA ResumeTally ==
    ASSUME TallyInv, NEW c \in resuming, ResumePartialEvent(c)
    PROVE  Tally'
<1>1. /\ CopyTaken(c)
      /\ UNCHANGED <<posting, feed, failed, pc, job, ok, taskQueue, timers, firing, dispTasks>>
  BY DEF ResumePartialEvent, CopyTaken
<1>2. c.event \in Events /\ c \in Copies
  BY <1>1, TakenCopy DEF TallyInv
<1>3. /\ Chosen(c.event) \in SUBSET Subscriptions
      /\ Remaining(c.event) \in SUBSET Subscriptions
  BY <1>2, ChosenType DEF TallyInv
<1>4. CASE ResumeGivesUp(c)
  <2>1. UNCHANGED <<status, plan, trackers, resumeTasks>>
    BY <1>4 DEF ResumeGivesUp
  <2>2. WaitingTally' /\ ResultTally'
    BY <1>1, <2>1, NothingBuilt
  <2>3. WorkingTally' /\ FailedTally'
    BY <1>1, <2>1 DEF TallyInv, Tally, WorkingTally, FailedTally, Failures, Busy
  <2> QED
    BY <2>2, <2>3 DEF Tally
<1>5. ASSUME NEW st, st # "failed", ResumeWithoutTasks(c, st)
      PROVE  Tally'
  <2>1. /\ UNCHANGED <<trackers, resumeTasks>>
        /\ plan' = [plan EXCEPT ![c.event] = Chosen(c.event)]
        /\ status' = [status EXCEPT ![c.event] = st] \/ UNCHANGED status
    BY <1>5 DEF ResumeWithoutTasks, UpdateEventStatus, Plan
  <2>2. FailedTally' /\ WorkingTally'
    BY <1>1, <1>3, <1>5, <2>1, ReplannedTally
  <2>3. WaitingTally' /\ ResultTally'
    BY <1>1, <2>1, NothingBuilt
  <2> QED
    BY <2>2, <2>3 DEF Tally
<1>6. ASSUME NEW r \in Runs, ResumeWithTasks(c, r)
      PROVE  Tally'
  <2>1. /\ trackers' = [trackers EXCEPT ![r] = NewTracker(c, Remaining(c.event))]
        /\ resumeTasks' = TasksFor(c, r, Remaining(c.event), failed[c.event])
        /\ plan' = [plan EXCEPT ![c.event] = Chosen(c.event)]
        /\ UNCHANGED status
    BY <1>6 DEF ResumeWithTasks, Plan
  <2>2. FailedTally' /\ WorkingTally'
    BY <1>1, <1>3, <2>1, ReplannedTally
  <2>3. \A b \in Remaining(c.event) : failed[c.event][Owner[b]] <= Failures(c.event, b)
    <3>1. \A b \in Remaining(c.event) : Failures(c.event, b) \in Nat
      BY <1>2, <1>3, FailuresType
    <3> QED
      BY <3>1 DEF Failures
  <2>4. WaitingTally' /\ ResultTally'
    BY <1>1, <1>2, <1>3, <2>1, <2>3, BuiltTally
  <2> QED
    BY <2>2, <2>4 DEF Tally
<1> QED
  BY <1>4, <1>5, <1>6 DEF ResumePartialEvent

LEMMA DispatchTally ==
    ASSUME NoErrors, TallyInv, DispatchEvent
    PROVE  Tally'
<1>1. PICK c : c = Head(chan)
  OBVIOUS
<1>2. /\ CopyTaken(c)
      /\ UNCHANGED <<posting, feed, failed, pc, job, ok, taskQueue, timers, firing, resumeTasks>>
  BY <1>1 DEF DispatchEvent, CopyTaken
<1>3. c.event \in Events /\ c \in Copies
  BY <1>2, TakenCopy DEF TallyInv
<1>4. Chosen(c.event) \in SUBSET Subscriptions
  BY <1>3, ChosenType DEF TallyInv
<1>5. ASSUME NEW st, DispatchWithoutTasks(c, st), st = "failed" => Chosen(c.event) = {}
      PROVE  Tally'
  <2>1. /\ UNCHANGED <<trackers, dispTasks>>
        /\ plan' = [plan EXCEPT ![c.event] = Chosen(c.event)]
        /\ status' = [status EXCEPT ![c.event] = st] \/ UNCHANGED status
    BY <1>5 DEF DispatchWithoutTasks, UpdateEventStatus, Plan
  <2>2. FailedTally' /\ WorkingTally'
    BY <1>2, <1>4, <1>5, <2>1, ReplannedTally
  <2>3. WaitingTally' /\ ResultTally'
    BY <1>2, <2>1, NothingBuilt
  <2> QED
    BY <2>2, <2>3 DEF Tally
<1>6. ASSUME NEW r \in Runs, DispatchWithTasks(c, r)
      PROVE  Tally'
  <2>1. /\ trackers' = [trackers EXCEPT ![r] = NewTracker(c, Chosen(c.event))]
        /\ dispTasks' = TasksFor(c, r, Chosen(c.event), NoPrior)
        /\ plan' = [plan EXCEPT ![c.event] = Chosen(c.event)]
        /\ UNCHANGED status
    BY <1>6 DEF DispatchWithTasks, Plan
  <2>2. FailedTally' /\ WorkingTally'
    BY <1>2, <1>4, <2>1, ReplannedTally
  <2>3. \A b \in Chosen(c.event) : NoPrior[Owner[b]] <= Failures(c.event, b)
    <3>1. \A b \in Chosen(c.event) : Failures(c.event, b) \in Nat /\ Owner[b] \in Subscribers
      BY <1>3, <1>4, FailuresType, SubscriptionAssumption
    <3> QED
      BY <3>1 DEF NoPrior
  <2>4. WaitingTally' /\ ResultTally'
    BY <1>2, <1>3, <1>4, <2>1, <2>3, BuiltTally
  <2> QED
    BY <2>2, <2>4 DEF Tally
<1> QED
  BY <1>1, <1>5, <1>6 DEF DispatchEvent, NoErrors

-----------------------------------------------------------------------------
\* The tasks, the counts and the trackers are left alone, and no event fails.
LEMMA TallyUntouched ==
    ASSUME TallyInv, UNCHANGED <<failed, trackers, plan, pc, job, ok, taskQueue, timers, firing,
                                 dispTasks, resumeTasks>>,
           \A e \in Events : status'[e] = "failed" => status[e] = "failed"
    PROVE  Tally'
<1>1. Waiting' = Waiting /\ Busy' = Busy /\ \A w \in Busy : job[w] \in Working
  BY DEF Waiting, Elems, Busy, Working
<1> QED
  BY <1>1, TallyMoves

LEMMA NextTally ==
    ASSUME NoErrors, TallyInv, [Next]_vars
    PROVE  Tally'
<1>1. CASE Boot \/ Serve \/ Stop \/ ChangeTable \/ Rest \/ CloseQueue \/ UNCHANGED vars
           \/ Handlers \/ (\E c \in feed : FeedSend(c))
  <2>1. UNCHANGED <<failed, trackers, plan, pc, job, ok, taskQueue, timers, firing, dispTasks,
                    resumeTasks, status>>
    BY <1>1 DEF Boot, Serve, Stop, ChangeTable, Rest, CloseQueue, vars, Handlers, HandlerSend,
                HandlerPanic, FeedSend
  <2> QED
    BY <2>1, TallyUntouched
<1>2. CASE FeedPanic \/ Exit \/ Crash
  BY <1>2, EndTally DEF FeedPanic, Exit, Crash
<1>3. ASSUME NEW e \in Events, Publish(e)
      PROVE  Tally'
  <2>1. /\ UNCHANGED <<failed, trackers, plan, pc, job, ok, taskQueue, timers, firing, dispTasks,
                       resumeTasks>>
        /\ status' = [status EXCEPT ![e] = "pending"]
    BY <1>3 DEF Publish, InsertEvent
  <2>2. \A x \in Events : status'[x] = "failed" => status[x] = "failed"
    BY <2>1 DEF TallyInv, Types
  <2> QED
    BY <2>1, <2>2, TallyUntouched
<1>4. ASSUME NEW t, (t \in resumeTasks /\ ResumeEnqueue(t)) \/ (t \in dispTasks /\ DispatchEnqueue(t))
      PROVE  Tally'
  BY <1>4, QueuedTally DEF ResumeEnqueue, DispatchEnqueue
<1>5. ASSUME NEW w \in Workers, Worker(w)
      PROVE  Tally'
  BY <1>5, TakeTally, SendTally, RecordTally, RetryTally, CollectTally, FinalizeTally DEF Worker
<1> QED
  BY <1>1, <1>2, <1>3, <1>4, <1>5, TimersTally, ResumeTally, DispatchTally
     DEF Next, Resume, Feeder, Dispatcher

\* A failed event has somebody in its audience who used up all attempts: while the
\* database and the cache answer, no crash or restart makes an event fail earlier
\* (docs/concepts.md, app/delivery.go:313).
THEOREM FailureIsTrue == Spec => []FailedMeansExhausted
<1>1. CASE ~NoErrors
  <2>1. FailedMeansExhausted
    BY <1>1 DEF FailedMeansExhausted, NoErrors
  <2> QED
    BY <2>1, PTL
<1>2. CASE NoErrors
  <2>1. Init => Tally
    BY InitTally
  <2>2. ContractInv /\ ContractInv' /\ Tally /\ [Next]_vars => Tally'
    BY <1>2, NextTally DEF TallyInv
  <2>3. Tally => FailedMeansExhausted
    BY DEF Tally, FailedTally, FailedMeansExhausted, Failures
  <2> QED
    BY <2>1, <2>2, <2>3, TruthHolds, PTL DEF Spec
<1> QED
  BY <1>1, <1>2
=============================================================================
