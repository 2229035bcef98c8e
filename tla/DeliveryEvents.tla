--------------------------- MODULE DeliveryEvents ---------------------------
(***************************************************************************)
(* Every unfinished event is in at most one pair of hands: a request       *)
(* handler's, the resume goroutine's, the booting main goroutine's,        *)
(* DeliveryChan's or a tracker's.  Hence a final status is final, what the *)
(* process holds is unfinished in the database, and no two tasks work for  *)
(* the same event and subscriber.                                          *)
(*                                                                         *)
(* On that rest two accounts of the attempts on record: without crashes    *)
(* and lost writes nobody who has received an event waits for it (Clean),  *)
(* and a task's attempt number falls behind the failures on record by no   *)
(* more than the restarts so far (Effort).                                 *)
(***************************************************************************)
EXTENDS DeliveryProofs

USE DEF db, world, main, counts, senders, queues, pool, retry, heap, limits

\* Some tracker collects results for e.
Live(e) == \E r \in Runs : trackers[r] # NoTracker /\ trackers[r].event = e

OneEach(A) == \A c, d \in A : c.event = d.event => c = d
NoneOf(A, B) == \A c \in A, d \in B : c.event # d.event
DistinctEvents(q) == \A i, j \in 1..Len(q) : q[i].event = q[j].event => i = j

\* No two copies of an event.
OneCopy ==
    /\ OneEach(posting) /\ OneEach(feed) /\ OneEach(resuming)
    /\ DistinctEvents(chan)
    /\ NoneOf(posting, feed \cup resuming \cup Elems(chan))
    /\ NoneOf(feed, resuming \cup Elems(chan))
    /\ NoneOf(resuming, Elems(chan))

\* A copied event has no tracker, and is unfinished.
Copied == \A c \in HeldCopies : ~Live(c.event) /\ status[c.event] \in Unfinished

\* A tracked event is unfinished and has one tracker, which expects one result of
\* each subscriber.
Tracked ==
    /\ \A q, r \in Runs :
          /\ trackers[q] # NoTracker /\ trackers[r] # NoTracker
          /\ trackers[q].event = trackers[r].event
          => q = r
    /\ \A r \in Runs : trackers[r] # NoTracker => status[trackers[r].event] \in Unfinished
    /\ \A r \in Runs : trackers[r] # NoTracker =>
          \A b, c \in trackers[r].expected : Owner[b] = Owner[c] => b = c

\* A process that is down holds nothing.
Nothing == phase = "down" => HeldCopies = {} /\ \A r \in Runs : trackers[r] = NoTracker

Hands == OneCopy /\ Copied /\ Tracked /\ Nothing

EventInv == Inv /\ Hands

-----------------------------------------------------------------------------
(* Queues of copies.                                                       *)

LEMMA AppendEvent ==
    ASSUME NEW q \in Seq(Copies), NEW c \in Copies, DistinctEvents(q),
           \A d \in Elems(q) : d.event # c.event
    PROVE  DistinctEvents(Append(q, c))
<1>1. \A i \in 1..Len(q) : q[i].event # c.event
  BY DEF Elems
<1> QED
  BY <1>1 DEF DistinctEvents

LEMMA TailEvents ==
    ASSUME NEW q \in Seq(Copies), q # <<>>, DistinctEvents(q)
    PROVE  /\ DistinctEvents(Tail(q))
           /\ \A d \in Elems(Tail(q)) : d.event # Head(q).event
<1>1. Len(q) \in Nat \ {0} /\ Len(Tail(q)) = Len(q) - 1 /\ Head(q) = q[1]
  OBVIOUS
<1>2. \A i \in 1..Len(Tail(q)) : i + 1 \in 1..Len(q) /\ Tail(q)[i] = q[i + 1]
  BY <1>1
<1> QED
  BY <1>1, <1>2 DEF DistinctEvents, Elems

\* The first candidate with the highest limit is unique: at most one subscription of
\* a subscriber is chosen for an event.
LEMMA ChosenOnce ==
    ASSUME Types, NEW e \in Events
    PROVE  \A b, c \in Chosen(e) : Owner[b] = Owner[c] => b = c
<1> SUFFICES ASSUME NEW b \in Chosen(e), NEW c \in Chosen(e), Owner[b] = Owner[c], b # c
             PROVE  FALSE
  OBVIOUS
<1>1. PICK s \in Known : b \in Selected(e, s)
  BY DEF Chosen
<1>2. PICK t \in Known : c \in Selected(e, t)
  BY DEF Chosen
<1>3. s = t
  BY <1>1, <1>2 DEF Selected, Candidates
<1>4. /\ b \in Candidates(e, s) /\ c \in Candidates(e, s)
      /\ MaxRetries(c) < MaxRetries(b) \/ (MaxRetries(c) = MaxRetries(b) /\ b < c)
      /\ MaxRetries(b) < MaxRetries(c) \/ (MaxRetries(b) = MaxRetries(c) /\ c < b)
  BY <1>1, <1>2, <1>3 DEF Selected
<1>5. b \in Subscriptions /\ c \in Subscriptions
  BY ChosenType
<1>6. b \in Nat /\ c \in Nat /\ MaxRetries(b) \in Int /\ MaxRetries(c) \in Int
  BY <1>5, SubscriptionAssumption, ConfigAssumption DEF MaxRetries
<1> QED
  BY <1>4, <1>6

-----------------------------------------------------------------------------
(* Start and end of the process.                                           *)

LEMMA InitHands == Init => Hands
  BY DEF Init, Hands, OneCopy, OneEach, DistinctEvents, NoneOf, Copied, Tracked, Nothing,
         HeldCopies, Elems, Live

LEMMA EndHands == ProcessEnds => Hands'
  BY DEF ProcessEnds, Hands, OneCopy, OneEach, DistinctEvents, NoneOf, Copied, Tracked, Nothing,
         HeldCopies, Elems, Live

\* Each unfinished event is copied once; nothing was held before.
LEMMA BootHands ==
    ASSUME EventInv, Boot
    PROVE  Hands'
<1>1. /\ HeldCopies = {} /\ \A r \in Runs : trackers[r] = NoTracker
      /\ phase' = "booting" /\ UNCHANGED <<status, posting, chan, trackers>>
  BY DEF Boot, Resumable, EventInv, Hands, Nothing
<1>2. posting' = {} /\ Elems(chan)' = {} /\ chan' = <<>>
  <2>1. chan \in Seq(Copies) /\ \A i \in 1..Len(chan) : chan[i] \in Elems(chan)
    BY DEF EventInv, Inv, Types, Elems
  <2>2. Elems(chan) = {}
    BY <1>1 DEF HeldCopies
  <2>3. Len(chan) = 0 /\ chan = <<>>
    BY <2>1, <2>2
  <2> QED
    BY <1>1, <2>2, <2>3 DEF HeldCopies, Elems
<1>3. /\ \A c \in feed' : c.event \in Events /\ status[c.event] = "pending" /\ c = StoredCopy(c.event)
      /\ \A c \in resuming' : c.event \in Events /\ status[c.event] = "partial" /\ c = StoredCopy(c.event)
  <2>1. feed = {} /\ resuming = {}
    BY <1>1 DEF HeldCopies
  <2>2. \A e : StoredCopy(e).event = e
    BY DEF StoredCopy
  <2> QED
    BY <2>1, <2>2 DEF Boot, Resumable
<1>4. OneCopy'
  BY <1>2, <1>3 DEF OneCopy, OneEach, NoneOf, DistinctEvents
<1>5. Copied'
  <2>1. \A e : ~Live(e)'
    BY <1>1 DEF Live
  <2> QED
    BY <1>1, <1>2, <1>3, <2>1 DEF Copied, HeldCopies, Unfinished
<1>6. Tracked' /\ Nothing'
  BY <1>1 DEF Tracked, Nothing
<1> QED
  BY <1>4, <1>5, <1>6 DEF Hands

-----------------------------------------------------------------------------
(* Copies move.                                                            *)

\* What a step may do to the database and the trackers without a word about copies:
\* the status of no copied or tracked event becomes final, and no tracker appears.
LEMMA CopiesStay ==
    ASSUME EventInv, UNCHANGED <<posting, feed, resuming, chan>>, phase' # "down",
           \A r \in Runs : \/ trackers'[r] = NoTracker
                           \/ /\ trackers[r] # NoTracker
                              /\ trackers'[r].event = trackers[r].event
                              /\ trackers'[r].expected = trackers[r].expected,
           \A e : Live(e)' => status'[e] \in Unfinished,
           \A c \in HeldCopies : status'[c.event] \in Unfinished
    PROVE  Hands'
<1>1. OneCopy' /\ HeldCopies' = HeldCopies
  BY DEF EventInv, Hands, OneCopy, HeldCopies, OneEach, NoneOf, DistinctEvents, Elems
<1>2. \A e : Live(e)' => Live(e)
  BY DEF Live
<1>3. Copied'
  BY <1>1, <1>2 DEF EventInv, Hands, Copied
<1>4. Tracked'
  BY DEF EventInv, Hands, Tracked, Live
<1>5. Nothing'
  BY DEF Nothing
<1> QED
  BY <1>1, <1>3, <1>4, <1>5 DEF Hands

LEMMA HandsUntouched ==
    ASSUME EventInv,
           UNCHANGED <<posting, feed, resuming, chan, trackers, status>>,
           phase' = phase \/ phase' # "down"
    PROVE  Hands'
  BY DEF EventInv, Hands, OneCopy, OneEach, NoneOf, DistinctEvents, Elems, Copied, HeldCopies,
         Live, Tracked, Nothing

LEMMA PublishHands ==
    ASSUME EventInv, NEW e \in Events, Publish(e)
    PROVE  Hands'
<1>1. \A c \in HeldCopies : c.event # e
  BY DEF Publish, InsertEvent, EventInv, Hands, Copied, Unfinished
<1>2. PICK c \in Copies : c.event = e /\ posting' = posting \cup {c}
  <2>1. [event |-> e, retries |-> 0] \in Copies
    BY DEF Copies
  <2> QED
    BY <2>1 DEF Publish, InsertEvent
<1>3. /\ status' = [status EXCEPT ![e] = "pending"] /\ status[e] = "none"
      /\ UNCHANGED <<feed, resuming, chan, trackers, phase>> /\ phase # "down"
  BY DEF Publish, InsertEvent
<1>4. HeldCopies' = HeldCopies \cup {c} /\ Elems(chan)' = Elems(chan)
  BY <1>2, <1>3 DEF HeldCopies, Elems
<1>5. OneCopy'
  BY <1>1, <1>2, <1>3, <1>4
     DEF EventInv, Hands, OneCopy, OneEach, NoneOf, HeldCopies, DistinctEvents
<1>6. \A x : Live(x)' <=> Live(x)
  BY <1>3 DEF Live
<1>7. ~Live(e)
  BY <1>3 DEF EventInv, Hands, Tracked, Live, Unfinished
<1>8. \A d \in HeldCopies : d.event \in Events
  <2>1. Elems(chan) \subseteq Copies
    BY ElemsType DEF EventInv, Inv, Types
  <2> QED
    BY <2>1 DEF HeldCopies, EventInv, Inv, Types, Copies
<1>9. Copied'
  BY <1>1, <1>2, <1>3, <1>4, <1>6, <1>7, <1>8 DEF EventInv, Hands, Copied, Inv, Types, Unfinished
<1>10. Tracked'
  BY <1>3, <1>7 DEF EventInv, Hands, Tracked, Live, Inv, Types, Unfinished
<1>11. Nothing'
  BY <1>3 DEF Nothing
<1> QED
  BY <1>5, <1>9, <1>10, <1>11 DEF Hands

\* A handler or the resume goroutine sends on DeliveryChan.
LEMMA SendHands ==
    ASSUME EventInv, NEW c, chan' = Append(chan, c), phase' # "down",
           UNCHANGED <<resuming, trackers, status>>,
           \/ c \in posting /\ posting' = posting \ {c} /\ UNCHANGED feed
           \/ c \in feed /\ feed' = feed \ {c} /\ UNCHANGED posting
    PROVE  Hands'
<1>1. c \in Copies /\ chan \in Seq(Copies)
  BY DEF EventInv, Inv, Types
<1>2. Elems(chan)' = Elems(chan) \cup {c}
  BY <1>1, AppendElems
<1>3. HeldCopies' = HeldCopies
  BY <1>2 DEF HeldCopies
<1>4. \A d \in Elems(chan) : d.event # c.event
  BY DEF EventInv, Hands, OneCopy, NoneOf
<1>5. DistinctEvents(chan')
  BY <1>1, <1>4, AppendEvent DEF EventInv, Hands, OneCopy
<1>6. OneCopy'
  BY <1>2, <1>4, <1>5 DEF EventInv, Hands, OneCopy, OneEach, NoneOf
<1>7. Copied' /\ Tracked' /\ Nothing'
  BY <1>3 DEF EventInv, Hands, Copied, Live, Tracked, Nothing
<1> QED
  BY <1>6, <1>7 DEF Hands

\* A handler panics and its copy is lost.
LEMMA PanicHands ==
    ASSUME EventInv, NEW c \in posting, HandlerPanic(c)
    PROVE  Hands'
<1>1. /\ posting' = posting \ {c} /\ HeldCopies' \subseteq HeldCopies
      /\ UNCHANGED <<feed, resuming, chan, trackers, status, phase>>
  BY DEF HandlerPanic, HeldCopies, Elems
<1> QED
  BY <1>1 DEF EventInv, Hands, OneCopy, OneEach, NoneOf, DistinctEvents, Elems, Copied,
              Live, Tracked, Nothing

\* A copy is taken out of DeliveryChan, or of the partial events to resume.
CopyTaken(c) ==
    \/ /\ c \in resuming /\ resuming' = resuming \ {c} /\ UNCHANGED chan
    \/ /\ chan # <<>> /\ c = Head(chan) /\ chan' = Tail(chan) /\ UNCHANGED resuming

LEMMA TakenCopy ==
    ASSUME EventInv, NEW c, CopyTaken(c), UNCHANGED <<posting, feed>>
    PROVE  /\ c \in Copies /\ c.event \in Events /\ c.retries \in Nat
           /\ c \in HeldCopies
           /\ OneCopy'
           /\ HeldCopies' \subseteq HeldCopies
           /\ \A d \in HeldCopies' : d.event # c.event /\ d.event \in Events
<1>1. CASE c \in resuming /\ resuming' = resuming \ {c} /\ UNCHANGED chan
  <2>1. HeldCopies' \subseteq HeldCopies /\ Elems(chan)' = Elems(chan) /\ c \in HeldCopies
    BY <1>1 DEF HeldCopies, Elems
  <2>2. OneCopy'
    BY <1>1, <2>1 DEF EventInv, Hands, OneCopy, OneEach, NoneOf, DistinctEvents
  <2>3. \A d \in HeldCopies' : d.event # c.event
    BY <1>1, <2>1 DEF EventInv, Hands, OneCopy, OneEach, NoneOf, HeldCopies
  <2>4. HeldCopies \subseteq Copies
    BY ElemsType DEF HeldCopies, EventInv, Inv, Types
  <2> QED
    BY <2>1, <2>2, <2>3, <2>4 DEF Copies
<1>2. CASE chan # <<>> /\ c = Head(chan) /\ chan' = Tail(chan) /\ UNCHANGED resuming
  <2>1. chan \in Seq(Copies)
    BY DEF EventInv, Inv, Types
  <2>2. Elems(chan) = {c} \cup Elems(chan')
    BY <1>2, <2>1, TailElems
  <2>3. /\ DistinctEvents(chan')
        /\ \A d \in Elems(chan') : d.event # c.event
    BY <1>2, <2>1, TailEvents DEF EventInv, Hands, OneCopy
  <2>4. HeldCopies' \subseteq HeldCopies /\ c \in HeldCopies
    BY <1>2, <2>2 DEF HeldCopies, Elems
  <2>5. OneCopy'
    BY <1>2, <2>2, <2>3 DEF EventInv, Hands, OneCopy, OneEach, NoneOf, Elems
  <2>6. \A d \in HeldCopies' : d.event # c.event
    BY <1>2, <2>2, <2>3 DEF EventInv, Hands, OneCopy, NoneOf, HeldCopies, Elems
  <2>7. HeldCopies \subseteq Copies
    BY <2>1, ElemsType DEF HeldCopies, EventInv, Inv, Types
  <2> QED
    BY <2>4, <2>5, <2>6, <2>7 DEF Copies
<1> QED
  BY <1>1, <1>2 DEF CopyTaken

\* The event of a taken copy gets a final status, or its write is lost, or it is
\* left alone: nobody holds it any more.
LEMMA LetGo ==
    ASSUME EventInv, NEW c, CopyTaken(c), UNCHANGED <<posting, feed, trackers, phase>>,
           \/ UNCHANGED status
           \/ \E st : status' = [status EXCEPT ![c.event] = st]
    PROVE  Hands'
<1>1. /\ c \in HeldCopies /\ c.event \in Events /\ OneCopy' /\ HeldCopies' \subseteq HeldCopies
      /\ \A d \in HeldCopies' : d.event # c.event /\ d.event \in Events
  BY TakenCopy
<1>2. ~Live(c.event) /\ \A e : Live(e)' <=> Live(e)
  BY <1>1 DEF EventInv, Hands, Copied, Live
<1>3. \A e \in Events \ {c.event} : status'[e] = status[e]
  BY DEF EventInv, Inv, Types
<1>4. Copied'
  BY <1>1, <1>2, <1>3 DEF EventInv, Hands, Copied
<1>5. \A r \in Runs : trackers[r] # NoTracker => trackers[r].event \in Events
  BY DEF EventInv, Inv, Types, Trackers
<1>6. Tracked'
  BY <1>2, <1>3, <1>5 DEF EventInv, Hands, Tracked, Live
<1>7. Nothing'
  BY <1>1 DEF EventInv, Hands, Nothing
<1> QED
  BY <1>1, <1>4, <1>6, <1>7 DEF Hands

\* The event of a taken copy gets a tracker.
LEMMA TakenUp ==
    ASSUME EventInv, NEW c, CopyTaken(c), UNCHANGED <<posting, feed, status, phase>>,
           NEW r \in Runs, NEW S \in SUBSET Chosen(c.event),
           trackers' = [trackers EXCEPT ![r] = NewTracker(c, S)]
    PROVE  Hands'
<1>1. /\ c \in Copies /\ c \in HeldCopies /\ c.event \in Events
      /\ OneCopy' /\ HeldCopies' \subseteq HeldCopies
      /\ \A d \in HeldCopies' : d.event # c.event /\ d.event \in Events
  BY TakenCopy
<1>2. S \in SUBSET Subscriptions /\ \A b, x \in S : Owner[b] = Owner[x] => b = x
  BY <1>1, ChosenType, ChosenOnce DEF EventInv, Inv
<1>3. NewTracker(c, S).event = c.event /\ NewTracker(c, S).expected = S
  BY <1>1, <1>2, NewTrackerType
<1>4. /\ trackers'[r] = NewTracker(c, S)
      /\ \A q \in Runs \ {r} : trackers'[q] = trackers[q]
  BY DEF EventInv, Inv, Types
<1>5. ~Live(c.event) /\ status[c.event] \in Unfinished
  BY <1>1 DEF EventInv, Hands, Copied
<1>6. \A e : Live(e)' => Live(e) \/ e = c.event
  BY <1>3, <1>4 DEF Live
<1>7. Copied'
  BY <1>1, <1>6 DEF EventInv, Hands, Copied
<1>8. Tracked'
  BY <1>2, <1>3, <1>4, <1>5 DEF EventInv, Hands, Tracked, Live
<1>9. Nothing'
  BY <1>1 DEF EventInv, Hands, Nothing
<1> QED
  BY <1>1, <1>7, <1>8, <1>9 DEF Hands

LEMMA ResumeHands ==
    ASSUME EventInv, NEW c \in resuming, ResumePartialEvent(c)
    PROVE  Hands'
<1>1. CopyTaken(c) /\ UNCHANGED <<posting, feed, phase>>
  BY DEF ResumePartialEvent, CopyTaken
<1>2. CASE ResumeGivesUp(c) \/ \E st : ResumeWithoutTasks(c, st)
  BY <1>1, <1>2, LetGo DEF ResumeGivesUp, ResumeWithoutTasks, UpdateEventStatus
<1>3. ASSUME NEW r \in Runs, ResumeWithTasks(c, r)
      PROVE  Hands'
  <2>1. Remaining(c.event) \in SUBSET Chosen(c.event)
    BY DEF Remaining
  <2> QED
    BY <1>1, <1>3, <2>1, TakenUp DEF ResumeWithTasks
<1> QED
  BY <1>2, <1>3 DEF ResumePartialEvent

LEMMA DispatchHands ==
    ASSUME EventInv, DispatchEvent
    PROVE  Hands'
<1>1. PICK c : c = Head(chan)
  OBVIOUS
<1>2. CopyTaken(c) /\ UNCHANGED <<posting, feed, phase>>
  BY <1>1 DEF DispatchEvent, CopyTaken
<1>3. CASE UpdateEventStatus(c.event, c.retries, "failed") /\ UNCHANGED heap
  BY <1>2, <1>3, LetGo DEF UpdateEventStatus
<1>4. ASSUME NEW st, DispatchWithoutTasks(c, st)
      PROVE  Hands'
  BY <1>2, <1>4, LetGo DEF DispatchWithoutTasks, UpdateEventStatus
<1>5. ASSUME NEW r \in Runs, DispatchWithTasks(c, r)
      PROVE  Hands'
  BY <1>2, <1>5, TakenUp DEF DispatchWithTasks
<1> QED
  BY <1>1, <1>3, <1>4, <1>5 DEF DispatchEvent

-----------------------------------------------------------------------------
(* Tracked events.                                                         *)

\* A task's event is tracked, hence copied nowhere.
LEMMA TaskIsTracked ==
    ASSUME EventInv
    PROVE  \A t \in Waiting \cup Working :
              Live(t.event) /\ status[t.event] \in Unfinished
<1> SUFFICES ASSUME NEW t \in Waiting \cup Working
             PROVE  Live(t.event) /\ status[t.event] \in Unfinished
  OBVIOUS
<1>1. t.run \in Runs
  BY TaskTypes DEF EventInv
<1>2. trackers[t.run] # NoTracker /\ trackers[t.run].event = t.event
  BY DEF EventInv, Inv, Awaited
<1> QED
  BY <1>1, <1>2 DEF EventInv, Hands, Tracked, Live

\* A retry writes "partial".
LEMMA RetryHands ==
    ASSUME EventInv, NEW w \in Workers, ScheduleRetry(w)
    PROVE  Hands'
<1>1. job[w].event \in Events
  BY TrackerOfWork DEF ScheduleRetry, EventInv
<1>2. /\ UNCHANGED <<posting, feed, resuming, chan, trackers, phase>>
      /\ \/ status' = [status EXCEPT ![job[w].event] = "partial"]
         \/ UNCHANGED status
  BY DEF ScheduleRetry, UpdateEventStatus
<1>3. \A e \in Events : status[e] \in Unfinished => status'[e] \in Unfinished
  BY <1>2 DEF EventInv, Inv, Types, Unfinished
<1>4. HeldCopies' = HeldCopies /\ HeldCopies \subseteq Copies
  BY <1>2, ElemsType DEF HeldCopies, Elems, EventInv, Inv, Types
<1>5. \A d \in HeldCopies : d.event \in Events
  BY <1>4 DEF Copies
<1>6. \A r \in Runs : trackers[r] # NoTracker => trackers[r].event \in Events
  BY DEF EventInv, Inv, Types, Trackers
<1>7. OneCopy'
  BY <1>2 DEF EventInv, Hands, OneCopy, OneEach, NoneOf, DistinctEvents, Elems
<1>8. Copied' /\ Tracked' /\ Nothing'
  BY <1>2, <1>3, <1>4, <1>5, <1>6 DEF EventInv, Hands, Copied, Tracked, Nothing, Live
<1> QED
  BY <1>7, <1>8 DEF Hands

LEMMA ResultHands ==
    ASSUME EventInv, NEW w \in Workers, RecordResult(w)
    PROVE  Hands'
<1> DEFINE r == job[w].run
           u == WithResult(trackers[r], job[w].sub, ok[w])
<1>1. /\ r \in Runs /\ trackers[r] \in Trackers /\ trackers[r] # NoTracker
      /\ job[w].sub \in Subscriptions /\ ok[w] \in BOOLEAN
  BY TrackerOfWork DEF RecordResult, EventInv, Inv, Types
<1>2. u # NoTracker /\ u.event = trackers[r].event /\ u.expected = trackers[r].expected
  BY <1>1, TrackerWithResult
<1>3. /\ trackers' = [trackers EXCEPT ![r] = u]
      /\ UNCHANGED <<posting, feed, resuming, chan, status, phase>>
  BY DEF RecordResult, WithResult
<1> HIDE DEF u
<1>4. trackers'[r] = u /\ \A q \in Runs \ {r} : trackers'[q] = trackers[q]
  BY <1>1, <1>3 DEF EventInv, Inv, Types
<1>5. \A q \in Runs : /\ trackers'[q] = NoTracker <=> trackers[q] = NoTracker
                      /\ trackers[q] # NoTracker =>
                            /\ trackers'[q].event = trackers[q].event
                            /\ trackers'[q].expected = trackers[q].expected
  BY <1>1, <1>2, <1>4
<1>6. HeldCopies' = HeldCopies /\ OneCopy'
  BY <1>3 DEF HeldCopies, Elems, EventInv, Hands, OneCopy, OneEach, NoneOf, DistinctEvents
<1>7. \A e : Live(e)' <=> Live(e)
  BY <1>5 DEF Live
<1>8. Copied' /\ Tracked' /\ Nothing'
  BY <1>3, <1>5, <1>6, <1>7 DEF EventInv, Hands, Copied, Tracked, Nothing
<1> QED
  BY <1>6, <1>8 DEF Hands

\* The event of a finalized tracker is in nobody's hands any more.
LEMMA FinalizeHands ==
    ASSUME EventInv, NEW w \in Workers, FinalizeEvent(w)
    PROVE  Hands'
<1> DEFINE r == job[w].run
           e == trackers[r].event
<1>1. r \in Runs /\ trackers[r] # NoTracker /\ e \in Events
  BY TrackerOfWork DEF FinalizeEvent, EventInv
<1>2. /\ trackers' = [trackers EXCEPT ![r] = NoTracker]
      /\ UNCHANGED <<posting, feed, resuming, chan, phase>>
      /\ UNCHANGED status \/ \E st : status' = [status EXCEPT ![e] = st]
  BY DEF FinalizeEvent, UpdateEventStatus
<1>3. trackers'[r] = NoTracker /\ \A q \in Runs \ {r} : trackers'[q] = trackers[q]
  BY <1>1, <1>2 DEF EventInv, Inv, Types
<1>4. \A x \in Events \ {e} : status'[x] = status[x]
  BY <1>2 DEF EventInv, Inv, Types
<1>5. Live(e)
  BY <1>1 DEF Live
<1>6. HeldCopies' = HeldCopies /\ HeldCopies \subseteq Copies /\ OneCopy'
  BY <1>2, ElemsType
     DEF HeldCopies, Elems, EventInv, Hands, OneCopy, OneEach, NoneOf, DistinctEvents, Inv, Types
<1>7. \A d \in HeldCopies : d.event \in Events \ {e}
  BY <1>5, <1>6 DEF EventInv, Hands, Copied, Copies
<1>8. \A x : Live(x)' => Live(x)
  BY <1>3 DEF Live
<1>9. \A q \in Runs : trackers'[q] # NoTracker =>
          trackers[q] # NoTracker /\ trackers'[q] = trackers[q] /\ trackers[q].event \in Events \ {e}
  <2>1. \A q \in Runs : trackers[q] # NoTracker => trackers[q].event \in Events
    BY DEF EventInv, Inv, Types, Trackers
  <2> QED
    BY <1>1, <1>3, <2>1 DEF EventInv, Hands, Tracked
<1> HIDE DEF e, r
<1>10. Copied'
  BY <1>4, <1>6, <1>7, <1>8 DEF EventInv, Hands, Copied
<1>11. Tracked'
  BY <1>4, <1>9 DEF EventInv, Hands, Tracked
<1>12. Nothing'
  BY <1>2, <1>6, <1>9 DEF EventInv, Hands, Nothing
<1> QED
  BY <1>6, <1>10, <1>11, <1>12 DEF Hands

-----------------------------------------------------------------------------
LEMMA NextHands == EventInv /\ [Next]_vars => Hands'
<1> SUFFICES ASSUME EventInv, [Next]_vars
             PROVE  Hands'
  OBVIOUS
<1>1. CASE Serve \/ Stop \/ ChangeTable \/ Rest \/ CloseQueue \/ Timers \/ UNCHANGED vars
           \/ (\E t \in resumeTasks : ResumeEnqueue(t)) \/ (\E t \in dispTasks : DispatchEnqueue(t))
  <2>1. /\ UNCHANGED <<posting, feed, resuming, chan, trackers, status>>
        /\ phase' = phase \/ phase' # "down"
    BY <1>1 DEF Serve, Stop, ChangeTable, Rest, CloseQueue, Timers, TimerFires, TimerAbandons,
                TimerSends, vars, ResumeEnqueue, DispatchEnqueue
  <2> QED
    BY <2>1, HandsUntouched
<1>2. CASE FeedPanic \/ Exit \/ Crash
  BY <1>2, EndHands DEF FeedPanic, Exit, Crash
<1>3. ASSUME NEW c, (c \in posting /\ HandlerSend(c)) \/ (c \in feed /\ FeedSend(c))
      PROVE  Hands'
  <2>1. /\ chan' = Append(chan, c) /\ phase' # "down"
        /\ UNCHANGED <<resuming, trackers, status>>
        /\ \/ c \in posting /\ posting' = posting \ {c} /\ UNCHANGED feed
           \/ c \in feed /\ feed' = feed \ {c} /\ UNCHANGED posting
    BY <1>3 DEF HandlerSend, FeedSend, Open
  <2> QED
    BY <2>1, SendHands
<1>4. ASSUME NEW w \in Workers, Worker(w)
      PROVE  Hands'
  <2>1. CASE Take(w) \/ Acquire(w) \/ (\E good \in BOOLEAN : Deliver(w, good)) \/ RecordAttempt(w)
    <3>1. UNCHANGED <<posting, feed, resuming, chan, trackers, status, phase>>
      BY <2>1 DEF Take, Acquire, Deliver, RecordAttempt
    <3> QED
      BY <3>1, HandsUntouched
  <2> QED
    BY <1>4, <2>1, ResultHands, FinalizeHands, RetryHands DEF Worker
<1> QED
  BY <1>1, <1>2, <1>3, <1>4, BootHands, PublishHands, PanicHands, ResumeHands, DispatchHands
     DEF Next, Resume, Handlers, Feeder, Dispatcher

LEMMA EventsInHands == Spec => []EventInv
<1>1. Init => EventInv
  BY InitTypes, InitTidy, InitHands DEF Inv, Tidy, EventInv
<1>2. EventInv /\ [Next]_vars => EventInv'
  BY NextTypes, NextTidy, NextHands DEF Inv, Tidy, EventInv
<1> QED
  BY <1>1, <1>2, PTL DEF Spec

-----------------------------------------------------------------------------
(* Results.                                                                *)

LEMMA HeldTasksAre == HeldTasks = Waiting \cup Working
  BY DEF HeldTasks, Waiting, Working

\* Whatever a crash makes the process forget is "pending" or "partial" in the database,
\* where the next ResumeUnfinishedDeliveries finds it.
THEOREM NothingIsForgotten == Spec => []HeldIsResumable
<1>1. EventInv => HeldIsResumable
  <2> SUFFICES ASSUME EventInv, NEW e \in Events, Held(e)
               PROVE  status[e] \in Unfinished
    BY DEF HeldIsResumable
  <2>1. CASE \E c \in HeldCopies : c.event = e
    BY <2>1 DEF EventInv, Hands, Copied
  <2>2. CASE \E t \in HeldTasks : t.event = e
    BY <2>2, TaskIsTracked, HeldTasksAre
  <2> QED
    BY <2>1, <2>2 DEF Held
<1> QED
  BY <1>1, EventsInHands, PTL

\* Two tasks of one event and subscriber are the same task.
LEMMA OneTaskEach ==
    ASSUME EventInv, NEW t \in Waiting \cup Working, NEW u \in Waiting \cup Working,
           t.event = u.event, Owner[t.sub] = Owner[u.sub]
    PROVE  Same(t, u)
<1>1. /\ t.run \in Runs /\ trackers[t.run] # NoTracker /\ trackers[t.run].event = t.event
      /\ t.sub \in trackers[t.run].expected
  BY TaskTypes DEF EventInv, Inv, Awaited
<1>2. /\ u.run \in Runs /\ trackers[u.run] # NoTracker /\ trackers[u.run].event = u.event
      /\ u.sub \in trackers[u.run].expected
  BY TaskTypes DEF EventInv, Inv, Awaited
<1>3. t.run = u.run
  BY <1>1, <1>2 DEF EventInv, Hands, Tracked
<1> QED
  BY <1>1, <1>2, <1>3 DEF EventInv, Hands, Tracked, Same

\* Two tasks of one event and subscriber are the same task, in the same place.
THEOREM OneTask == Spec => []OneTaskPerSubscriber
<1>1. EventInv => OneTaskPerSubscriber
  <2> SUFFICES ASSUME EventInv
               PROVE  OneTaskPerSubscriber
    OBVIOUS
  <2>1. ASSUME NEW t \in Waiting \cup Working, NEW u \in Waiting \cup Working,
               t.event = u.event, Owner[t.sub] = Owner[u.sub]
        PROVE  Same(t, u)
    BY <2>1, OneTaskEach
  <2>2. ASSUME NEW t \in Waiting \cup Working, NEW u \in Waiting \cup Working, Same(t, u)
        PROVE  t = u
    <3>1. Same(u, t)
      BY <2>2 DEF Same
    <3>2. \A x, y \in Elems(taskQueue) : Same(x, y) => x = y
      BY DEF EventInv, Inv, OnePlace, Distinct, Elems
    <3>3. \A x, y \in Working : Same(x, y) => x = y
      BY DEF EventInv, Inv, OnePlace, Working
    <3> QED
      BY <2>2, <3>1, <3>2, <3>3 DEF EventInv, Inv, OnePlace, Alone, Apart, Waiting
  <2>3. \A v, w \in Busy : job[v] = job[w] => v = w
    BY DEF EventInv, Inv, OnePlace, Same
  <2> QED
    BY <2>1, <2>2, <2>3, HeldTasksAre DEF OneTaskPerSubscriber
<1> QED
  BY <1>1, EventsInHands, PTL

\* Only the status of an event that somebody holds is written, and such an event is
\* unfinished.
LEMMA WritesUnfinished ==
    ASSUME EventInv, [Next]_vars, NEW e \in Events, status[e] \in Final
    PROVE  status'[e] = status[e]
<1>1. status[e] \notin Unfinished /\ status[e] # "none"
  BY DEF Final, Unfinished
<1>2. CASE UNCHANGED status
  BY <1>2
<1>3. ASSUME NEW x, status[x] \in Unfinished, NEW rc, NEW st, UpdateEventStatus(x, rc, st)
      PROVE  status'[e] = status[e]
  BY <1>1, <1>3 DEF UpdateEventStatus, EventInv, Inv, Types
<1>4. ASSUME NEW c \in resuming, ResumePartialEvent(c)
      PROVE  status'[e] = status[e]
  <2>1. status[c.event] \in Unfinished
    BY DEF EventInv, Hands, Copied, HeldCopies
  <2> QED
    BY <1>2, <1>3, <1>4, <2>1
       DEF ResumePartialEvent, ResumeGivesUp, ResumeWithoutTasks, ResumeWithTasks
<1>5. CASE DispatchEvent
  <2> DEFINE c == Head(chan)
  <2>1. chan \in Seq(Copies) /\ chan # <<>>
    BY <1>5 DEF DispatchEvent, EventInv, Inv, Types
  <2>2. c \in Elems(chan)
    BY <2>1, TailElems
  <2> HIDE DEF c
  <2>3. status[c.event] \in Unfinished
    BY <2>2 DEF EventInv, Hands, Copied, HeldCopies
  <2>4. \/ UNCHANGED status
        \/ \E st : UpdateEventStatus(c.event, c.retries, st)
    BY <1>5 DEF DispatchEvent, DispatchWithoutTasks, DispatchWithTasks, c
  <2> QED
    BY <1>2, <1>3, <2>3, <2>4
<1>6. ASSUME NEW x \in Events, Publish(x)
      PROVE  status'[e] = status[e]
  BY <1>1, <1>6 DEF Publish, InsertEvent, EventInv, Inv, Types
<1>7. ASSUME NEW w \in Workers, Worker(w)
      PROVE  status'[e] = status[e]
  <2>1. CASE FinalizeEvent(w) \/ ScheduleRetry(w)
    <3>1. /\ job[w] \in Waiting \cup Working
          /\ trackers[job[w].run].event = job[w].event
      BY <2>1, TrackerOfWork DEF FinalizeEvent, ScheduleRetry, EventInv
    <3>2. status[job[w].event] \in Unfinished
      BY <3>1, TaskIsTracked
    <3> QED
      BY <1>3, <2>1, <3>1, <3>2 DEF FinalizeEvent, ScheduleRetry
  <2>2. CASE ~(FinalizeEvent(w) \/ ScheduleRetry(w))
    BY <1>2, <1>7, <2>2 DEF Worker, Take, Acquire, Deliver, RecordAttempt, RecordResult
  <2> QED
    BY <2>1, <2>2
<1>8. CASE Boot \/ Serve \/ Stop \/ ChangeTable \/ Rest \/ CloseQueue \/ Timers \/ UNCHANGED vars
           \/ (\E t \in resumeTasks : ResumeEnqueue(t)) \/ (\E t \in dispTasks : DispatchEnqueue(t))
           \/ FeedPanic \/ Exit \/ Crash \/ Handlers \/ (\E c \in feed : FeedSend(c))
  BY <1>2, <1>8
     DEF Boot, Resumable, Serve, Stop, ChangeTable, Rest, CloseQueue, Timers, TimerFires, TimerAbandons,
         TimerSends, vars, ResumeEnqueue, DispatchEnqueue, FeedPanic, Exit, Crash, ProcessEnds,
         Handlers, HandlerSend, HandlerPanic, FeedSend
<1> QED
  BY <1>4, <1>5, <1>6, <1>7, <1>8 DEF Next, Resume, Feeder, Dispatcher

\* A final status is never overwritten: not by a late retry, a second finalization, or
\* a resume after a restart.
THEOREM FinalStays == Spec => FinalIsFinal
<1>1. EventInv /\ [Next]_vars =>
         [\A e \in Events : status[e] \in Final => status'[e] = status[e]]_vars
  BY WritesUnfinished
<1> QED
  BY <1>1, EventsInHands, PTL DEF Spec, FinalIsFinal

-----------------------------------------------------------------------------
(* Who has received an event is not posted it again, as long as no crash   *)
(* and no lost write leaves an event "pending" that somebody has received. *)

\* No crash and no lost write so far.
Graceful == ~DbMayFail /\ crashes = 0

Fresh(t) == succeeded[t.event][Owner[t.sub]] = 0

\* A worker has still to post its task, or has posted it in vain.
Unsettled(w) ==
    pc[w] \in {"acquire", "send", "insert"} \/ (pc[w] = "settle" /\ ~ok[w])

\* Nobody is to be posted an event again that it has received.
Unposted ==
    /\ \A t \in Waiting : Fresh(t)
    /\ \A w \in Workers : Unsettled(w) => Fresh(job[w])

\* DeliveryChan carries pending events, which the dispatcher sends to everybody,
PendingCopies == \A c \in posting \cup feed \cup Elems(chan) : status[c.event] = "pending"

\* and what is pending without a tracker nobody has received.
Unreceived ==
    \A e \in Events : status[e] = "none" \/ (status[e] = "pending" /\ ~Live(e)) =>
        \A s \in Subscribers : succeeded[e][s] = 0

\* An event that waits for a retry is "partial": a restart will ask who has received it.
PartialTimers == \A t \in timers : status[t.event] = "partial"

\* A tracked event that is still "pending" has lost no task.
PendingTracked ==
    \A r \in Runs : trackers[r] # NoTracker /\ status[trackers[r].event] = "pending" =>
        /\ \A b \in Missing(r) : Covered(r, b)
        /\ Missing(r) = {} => Concluding(r)

Clean == Unposted /\ PendingCopies /\ Unreceived /\ PartialTimers /\ PendingTracked

CleanInv == EventInv /\ CountInv /\ (Graceful => Clean)

LEMMA InitClean == Init => Clean
  BY DEF Init, Clean, Unposted, Unsettled, PendingCopies, Unreceived, PartialTimers, PendingTracked,
         Waiting, Busy, Elems

\* The tracker that a step leaves pending and in use has its tasks.
LEMMA PendingTrackedStays ==
    ASSUME EventInv, [Next]_vars, PartialTimers, PendingTracked,
           \A e : Live(e) /\ status'[e] = "pending" => status[e] = "pending"
    PROVE  PendingTracked'
<1> SUFFICES ASSUME NEW r \in Runs, trackers'[r] # NoTracker, status'[trackers'[r].event] = "pending"
             PROVE  /\ \A b \in Missing(r)' : Covered(r, b)'
                    /\ Missing(r)' = {} => Concluding(r)'
  BY DEF PendingTracked
<1>1. trackers[r] # NoTracker =>
          /\ status[trackers[r].event] = "pending"
          /\ \A b \in Missing(r) : Covered(r, b)
          /\ Missing(r) = {} => Concluding(r)
  <2>1. trackers[r] # NoTracker => trackers'[r].event = trackers[r].event
    BY TrackerStays DEF EventInv
  <2> QED
    BY <2>1 DEF PendingTracked, Live
<1>2. ASSUME NEW b \in Missing(r)'
      PROVE  Covered(r, b)'
  <2>1. SUFFICES ASSUME NEW t \in timers, t.run = r, TimerAbandons(t)
                 PROVE  FALSE
    BY <1>1, <1>2, StillCovered DEF EventInv
  <2>2. trackers' = trackers /\ status' = status
    BY <2>1 DEF TimerAbandons
  <2>3. trackers[r] # NoTracker /\ trackers[r].event = t.event
    BY <2>1 DEF EventInv, Inv, Awaited, Waiting
  <2> QED
    BY <1>1, <2>2, <2>3 DEF PartialTimers
<1> QED
  BY <1>1, <1>2, StillConcluding DEF EventInv

\* The copies on their way to the dispatcher.
Dispatchable == posting \cup feed \cup Elems(chan)

LEMMA DispatchableAre ==
    ASSUME EventInv, NEW c \in Dispatchable
    PROVE  c.event \in Events /\ ~Live(c.event)
<1>1. c \in HeldCopies /\ c \in Copies
  BY ElemsType DEF Dispatchable, HeldCopies, EventInv, Inv, Types
<1> QED
  BY <1>1 DEF EventInv, Hands, Copied, Copies

\* Tasks and copies move, and nothing is written.
LEMMA MoveClean ==
    ASSUME EventInv, [Next]_vars, Clean, UNCHANGED <<status, succeeded>>,
           Waiting' \subseteq Waiting, timers' \subseteq timers,
           Dispatchable' \subseteq Dispatchable,
           \A w \in Workers : Unsettled(w)' =>
               job'[w] \in Waiting \/ (Unsettled(w) /\ job'[w] = job[w]),
           \A r \in Runs : trackers[r] # NoTracker =>
               trackers'[r] # NoTracker /\ trackers'[r].event = trackers[r].event
    PROVE  Clean'
<1>1. Unposted'
  BY DEF Clean, Unposted, Fresh
<1>2. PendingCopies'
  BY DEF Clean, PendingCopies, Dispatchable
<1>3. Unreceived'
  BY DEF Clean, Unreceived, Live
<1>4. PartialTimers' /\ PendingTracked'
  BY PendingTrackedStays DEF Clean, PartialTimers
<1> QED
  BY <1>1, <1>2, <1>3, <1>4 DEF Clean

\* No task, and no copy, comes from nowhere.
LEMMA Moves ==
    ASSUME EventInv,
           \/ Serve \/ Stop \/ ChangeTable \/ Rest \/ CloseQueue \/ Timers \/ Handlers
           \/ (\E c \in feed : FeedSend(c)) \/ (\E t \in resumeTasks : ResumeEnqueue(t))
           \/ (\E t \in dispTasks : DispatchEnqueue(t)) \/ UNCHANGED vars
    PROVE  /\ [Next]_vars
           /\ UNCHANGED <<status, failed, succeeded, trackers, pc, job, ok>>
           /\ Waiting' \subseteq Waiting /\ timers' \subseteq timers
           /\ Dispatchable' \subseteq Dispatchable /\ UNCHANGED resuming
<1>1. UNCHANGED <<status, failed, succeeded, trackers, pc, job, ok, resuming>>
  BY DEF Serve, Stop, ChangeTable, Rest, CloseQueue, Timers, TimerFires, TimerAbandons, TimerSends,
         Handlers, HandlerSend, HandlerPanic, FeedSend, ResumeEnqueue, DispatchEnqueue, vars
<1>2. [Next]_vars
  BY DEF Next, Resume, Feeder, Dispatcher
<1>3. Waiting' \subseteq Waiting /\ timers' \subseteq timers
  <2>1. CASE Serve \/ Stop \/ ChangeTable \/ Rest \/ CloseQueue \/ Handlers
             \/ (\E c \in feed : FeedSend(c)) \/ UNCHANGED vars
    BY <2>1 DEF Serve, Stop, ChangeTable, Rest, CloseQueue, Handlers, HandlerSend, HandlerPanic,
                FeedSend, vars, Waiting, Elems
  <2>2. ASSUME NEW t \in timers, TimerFires(t) \/ TimerAbandons(t)
        PROVE  Waiting' \subseteq Waiting /\ timers' \subseteq timers
    BY <2>2 DEF TimerFires, TimerAbandons, Waiting, Elems
  <2>3. ASSUME NEW t, (t \in resumeTasks /\ ResumeEnqueue(t)) \/ (t \in dispTasks /\ DispatchEnqueue(t))
                          \/ (t \in firing /\ TimerSends(t))
        PROVE  Waiting' \subseteq Waiting /\ timers' \subseteq timers
    <3>1. /\ t \in Tasks /\ t \in Waiting /\ taskQueue \in Seq(Tasks)
          /\ taskQueue' = Append(taskQueue, t) /\ timers' = timers
          /\ dispTasks' \subseteq dispTasks /\ resumeTasks' \subseteq resumeTasks
          /\ firing' \subseteq firing
      BY <2>3 DEF ResumeEnqueue, DispatchEnqueue, TimerSends, EventInv, Inv, Types, Waiting
    <3>2. Elems(taskQueue)' = Elems(taskQueue) \cup {t}
      BY <3>1, AppendElems
    <3> QED
      BY <3>1, <3>2 DEF Waiting
  <2> QED
    BY <2>1, <2>2, <2>3 DEF Timers
<1>4. Dispatchable' \subseteq Dispatchable
  <2>1. ASSUME NEW c, (c \in posting /\ HandlerSend(c)) \/ (c \in feed /\ FeedSend(c))
        PROVE  Dispatchable' \subseteq Dispatchable
    <3>1. /\ c \in Copies /\ chan \in Seq(Copies) /\ chan' = Append(chan, c)
          /\ posting' \subseteq posting /\ feed' \subseteq feed /\ c \in Dispatchable
      BY <2>1 DEF HandlerSend, FeedSend, EventInv, Inv, Types, Dispatchable
    <3>2. Elems(chan)' = Elems(chan) \cup {c}
      BY <3>1, AppendElems
    <3> QED
      BY <3>1, <3>2 DEF Dispatchable
  <2>2. CASE UNCHANGED <<feed, chan>> /\ posting' \subseteq posting
    BY <2>2 DEF Dispatchable, Elems
  <2> QED
    BY <2>1, <2>2
       DEF Serve, Stop, ChangeTable, Rest, CloseQueue, Timers, TimerFires, TimerAbandons, TimerSends,
           Handlers, HandlerPanic, ResumeEnqueue, DispatchEnqueue, vars
<1> QED
  BY <1>1, <1>2, <1>3, <1>4

LEMMA MovesClean ==
    ASSUME EventInv, Clean,
           \/ Serve \/ Stop \/ ChangeTable \/ Rest \/ CloseQueue \/ Timers \/ Handlers
           \/ (\E c \in feed : FeedSend(c)) \/ (\E t \in resumeTasks : ResumeEnqueue(t))
           \/ (\E t \in dispTasks : DispatchEnqueue(t)) \/ UNCHANGED vars
    PROVE  Clean'
<1>1. /\ [Next]_vars /\ UNCHANGED <<status, succeeded, trackers, pc, job, ok>>
      /\ Waiting' \subseteq Waiting /\ timers' \subseteq timers
      /\ Dispatchable' \subseteq Dispatchable
  BY Moves
<1>2. \A w \in Workers : Unsettled(w)' => Unsettled(w) /\ job'[w] = job[w]
  BY <1>1 DEF Unsettled
<1> QED
  BY <1>1, <1>2, MoveClean

\* A worker takes a task, posts it or records its result.
LEMMA Posts ==
    ASSUME EventInv, NEW w \in Workers,
           \/ Take(w) \/ Acquire(w) \/ (\E good \in BOOLEAN : Deliver(w, good)) \/ RecordResult(w)
    PROVE  /\ [Next]_vars /\ UNCHANGED <<status, failed, succeeded, timers, resuming>>
           /\ Waiting' \subseteq Waiting /\ Dispatchable' = Dispatchable
           /\ \A v \in Workers : pc'[v] \in {"acquire", "send", "insert"} =>
                 \/ job'[v] \in Waiting
                 \/ pc[v] \in {"acquire", "send", "insert"} /\ job'[v] = job[v]
           /\ \A v \in Workers : pc'[v] = "settle" /\ ~ok'[v] =>
                 pc[v] = "settle" /\ ~ok[v] /\ job'[v] = job[v]
           /\ \A r \in Runs : trackers[r] # NoTracker =>
                 trackers'[r] # NoTracker /\ trackers'[r].event = trackers[r].event
<1>1. [Next]_vars /\ UNCHANGED <<status, failed, succeeded, timers, posting, feed, chan, resuming>>
  BY DEF Next, Worker, Take, Acquire, Deliver, RecordResult
<1>2. Dispatchable' = Dispatchable
  BY <1>1 DEF Dispatchable, Elems
<1>3. CASE Take(w)
  <2>1. /\ taskQueue \in Seq(Tasks) /\ taskQueue # <<>> /\ taskQueue' = Tail(taskQueue)
        /\ UNCHANGED <<dispTasks, resumeTasks, timers, firing, trackers, ok>>
    BY <1>3 DEF Take, EventInv, Inv, Types
  <2>2. Elems(taskQueue) = {Head(taskQueue)} \cup Elems(taskQueue)'
    BY <2>1, TailElems
  <2>3. Waiting' \subseteq Waiting /\ Head(taskQueue) \in Waiting
    BY <2>1, <2>2 DEF Waiting
  <2>4. /\ pc'[w] = "acquire" /\ job'[w] = Head(taskQueue)
        /\ \A v \in Workers \ {w} : pc'[v] = pc[v] /\ job'[v] = job[v]
    BY <1>3 DEF Take, Goto, EventInv, Inv, Types
  <2> QED
    BY <1>1, <1>2, <2>1, <2>3, <2>4
<1>4. CASE Acquire(w) \/ \E good \in BOOLEAN : Deliver(w, good)
  <2>1. /\ UNCHANGED <<dispTasks, resumeTasks, taskQueue, timers, firing, trackers, job>>
        /\ pc[w] \in {"acquire", "send"} /\ pc'[w] # "settle"
        /\ \A v \in Workers \ {w} : pc'[v] = pc[v] /\ ok'[v] = ok[v]
    BY <1>4 DEF Acquire, Deliver, Goto, EventInv, Inv, Types
  <2>2. Waiting' = Waiting
    BY <2>1 DEF Waiting, Elems
  <2> QED
    BY <1>1, <1>2, <2>1, <2>2
<1>5. CASE RecordResult(w)
  <2>1. /\ UNCHANGED <<dispTasks, resumeTasks, taskQueue, timers, firing>>
        /\ Return(w) \/ (Goto(w, "finalize") /\ UNCHANGED <<job, ok>>)
    BY <1>5 DEF RecordResult
  <2>2. Waiting' = Waiting
    BY <2>1 DEF Waiting, Elems
  <2>3. \A v \in Workers : pc'[v] \in {"acquire", "send", "insert", "settle"} =>
            pc'[v] = pc[v] /\ job'[v] = job[v] /\ ok'[v] = ok[v]
    BY <2>1 DEF Return, Goto, EventInv, Inv, Types
  <2>4. \A r \in Runs : trackers[r] # NoTracker =>
            trackers'[r] # NoTracker /\ trackers'[r].event = trackers[r].event
    <3> DEFINE r == job[w].run
               u == WithResult(trackers[r], job[w].sub, ok[w])
    <3>1. /\ r \in Runs /\ trackers[r] \in Trackers /\ job[w].sub \in Subscriptions
          /\ ok[w] \in BOOLEAN
      BY <1>5, TrackerOfWork DEF RecordResult, EventInv, Inv, Types
    <3>2. u # NoTracker /\ u.event = trackers[r].event
      BY <3>1, TrackerWithResult
    <3>3. trackers' = [trackers EXCEPT ![r] = u]
      BY <1>5 DEF RecordResult, WithResult
    <3> HIDE DEF u
    <3> QED
      BY <3>1, <3>2, <3>3 DEF EventInv, Inv, Types
  <2> QED
    BY <1>1, <1>2, <2>2, <2>3, <2>4
<1> QED
  BY <1>3, <1>4, <1>5

LEMMA PostClean ==
    ASSUME EventInv, Clean, NEW w \in Workers,
           \/ Take(w) \/ Acquire(w) \/ (\E good \in BOOLEAN : Deliver(w, good)) \/ RecordResult(w)
    PROVE  Clean'
<1>1. /\ [Next]_vars /\ UNCHANGED <<status, succeeded, timers>>
      /\ Waiting' \subseteq Waiting /\ Dispatchable' = Dispatchable
      /\ \A r \in Runs : trackers[r] # NoTracker =>
            trackers'[r] # NoTracker /\ trackers'[r].event = trackers[r].event
  BY Posts
<1>2. \A v \in Workers : Unsettled(v)' =>
          job'[v] \in Waiting \/ (Unsettled(v) /\ job'[v] = job[v])
  BY Posts DEF Unsettled
<1> QED
  BY <1>1, <1>2, MoveClean

\* A success is recorded: no other task is for the same event and subscriber.
LEMMA AttemptClean ==
    ASSUME EventInv, Graceful, Clean, NEW w \in Workers, RecordAttempt(w)
    PROVE  Clean'
<1> DEFINE e == job[w].event
           s == Owner[job[w].sub]
<1>1. /\ [Next]_vars /\ job[w] \in Working /\ e \in Events /\ s \in Subscribers
      /\ w \in Busy /\ ok[w] \in BOOLEAN
      /\ UNCHANGED <<status, trackers, dispTasks, resumeTasks, taskQueue, timers, firing, posting,
                     feed, chan, job, ok>>
  BY TrackerOfWork DEF RecordAttempt, Next, Worker, EventInv, Inv, Types, Busy
<1>2. /\ pc[w] = "insert" /\ pc'[w] = "settle" /\ \A v \in Workers \ {w} : pc'[v] = pc[v]
  BY DEF RecordAttempt, Goto, EventInv, Inv, Types
<1>3. Waiting' = Waiting
  BY <1>1 DEF Waiting, Elems
<1>4. CASE ~ok[w]
  <2>1. succeeded' = succeeded
    BY <1>4 DEF RecordAttempt, InsertAttempt, Graceful
  <2>2. Dispatchable' = Dispatchable
    BY <1>1 DEF Dispatchable, Elems
  <2> QED
    BY <1>1, <1>2, <1>3, <2>1, <2>2, MoveClean DEF Unsettled
<1>5. CASE ok[w]
  <2>1. succeeded' = [succeeded EXCEPT ![e][s] = succeeded[e][s] + 1]
    BY <1>5 DEF RecordAttempt, InsertAttempt, Graceful
  <2>2. /\ succeeded \in [Events -> [Subscribers -> Nat]]
        /\ \A x \in Events, y \in Subscribers : x # e \/ y # s => succeeded'[x][y] = succeeded[x][y]
    BY <2>1 DEF EventInv, Inv, Types
  <2>3. ASSUME NEW t \in Waiting \cup Working, Fresh(t), ~Same(t, job[w])
        PROVE  Fresh(t)'
    <3>1. t.event \in Events /\ Owner[t.sub] \in Subscribers
      BY TaskTypes, SubscriptionAssumption DEF EventInv
    <3>2. t.event # e \/ Owner[t.sub] # s
      BY <1>1, <2>3, OneTaskEach
    <3> QED
      BY <2>2, <2>3, <3>1, <3>2 DEF Fresh
  <2>4. Unposted'
    <3>1. ASSUME NEW t \in Waiting
          PROVE  Fresh(t)'
      <4>1. ~Same(t, job[w])
        BY <1>1 DEF EventInv, Inv, OnePlace, Apart, Waiting, Same
      <4> QED
        BY <2>3, <4>1 DEF Clean, Unposted
    <3>2. ASSUME NEW v \in Workers, Unsettled(v)'
          PROVE  Fresh(job[v])'
      <4>1. v # w /\ Unsettled(v) /\ v \in Busy
        BY <1>1, <1>2, <1>5, <3>2 DEF Unsettled, Busy
      <4>2. ~Same(job[v], job[w]) /\ job[v] \in Working
        BY <1>1, <4>1 DEF EventInv, Inv, OnePlace, Working
      <4> QED
        BY <1>1, <2>3, <4>1, <4>2 DEF Clean, Unposted, Fresh
    <3> QED
      BY <1>1, <1>3, <3>1, <3>2 DEF Unposted, Fresh
  <2>5. Unreceived'
    <3>1. Live(e) /\ status[e] \in Unfinished
      BY <1>1, TaskIsTracked
    <3> QED
      BY <1>1, <2>2, <3>1 DEF Clean, Unreceived, Live, Unfinished
  <2>6. PendingCopies' /\ PartialTimers'
    BY <1>1 DEF Clean, PendingCopies, PartialTimers, Elems
  <2>7. PendingTracked'
    BY <1>1, PendingTrackedStays DEF Clean
  <2> QED
    BY <2>4, <2>5, <2>6, <2>7 DEF Clean
<1> QED
  BY <1>1, <1>4, <1>5

\* A retry leaves its event "partial".
LEMMA RetryClean ==
    ASSUME EventInv, Graceful, Clean, NEW w \in Workers, ScheduleRetry(w)
    PROVE  Clean'
<1> DEFINE e == job[w].event
<1>1. /\ [Next]_vars /\ job[w] \in Tasks /\ job[w] \in Working /\ e \in Events
      /\ Unsettled(w) /\ pc[w] # "idle" /\ Return(w)
      /\ UNCHANGED <<succeeded, trackers, dispTasks, resumeTasks, taskQueue, firing, posting,
                     feed, chan>>
  BY TrackerOfWork DEF ScheduleRetry, Next, Worker, EventInv, Unsettled
<1>2. PICK u \in Tasks :
          /\ timers' = timers \cup {u}
          /\ u.event = e /\ u.sub = job[w].sub /\ u.run = job[w].run
  BY <1>1, RetryType DEF ScheduleRetry
<1>3. status' = [status EXCEPT ![e] = "partial"]
  BY DEF ScheduleRetry, UpdateEventStatus, Graceful
<1>4. status'[e] = "partial" /\ \A x \in Events \ {e} : status'[x] = status[x]
  BY <1>1, <1>3 DEF EventInv, Inv, Types
<1>5. Waiting' = Waiting \cup {u}
  BY <1>1, <1>2 DEF Waiting, Elems
<1>6. Live(e)
  BY <1>1, TaskIsTracked
<1> HIDE DEF e
<1>7. Unposted'
  <2>1. Fresh(u)
    BY <1>1, <1>2 DEF Clean, Unposted, Fresh, e
  <2>2. \A v \in Workers : Unsettled(v)' => Unsettled(v) /\ job'[v] = job[v]
    BY <1>1 DEF Return, Goto, Unsettled, EventInv, Inv, Types
  <2> QED
    BY <1>1, <1>5, <2>1, <2>2 DEF Clean, Unposted, Fresh
<1>8. PendingCopies'
  <2>1. Dispatchable' = Dispatchable
    BY <1>1 DEF Dispatchable, Elems
  <2>2. \A c \in Dispatchable : c.event \in Events \ {e}
    BY <1>6, DispatchableAre
  <2> QED
    BY <1>4, <2>1, <2>2 DEF Clean, PendingCopies, Dispatchable
<1>9. Unreceived'
  BY <1>1, <1>4 DEF Clean, Unreceived, Live
<1>10. PartialTimers'
  <2>1. \A t \in timers : t.event \in Events
    BY TaskTypes DEF EventInv, Waiting
  <2> QED
    BY <1>2, <1>4, <2>1 DEF Clean, PartialTimers
<1>11. PendingTracked'
  <2>1. \A x : Live(x) => x \in Events
    BY DEF Live, EventInv, Inv, Types, Trackers
  <2> QED
    BY <1>1, <1>4, <2>1, PendingTrackedStays DEF Clean
<1> QED
  BY <1>7, <1>8, <1>9, <1>10, <1>11 DEF Clean

\* The event of a finalized tracker has a final status.
LEMMA FinalizeClean ==
    ASSUME EventInv, Graceful, Clean, NEW w \in Workers, FinalizeEvent(w)
    PROVE  Clean'
<1> DEFINE r == job[w].run
           e == job[w].event
<1>1. /\ [Next]_vars /\ r \in Runs /\ e \in Events /\ pc[w] # "idle" /\ Return(w)
      /\ trackers[r] # NoTracker /\ trackers[r].event = e
      /\ trackers' = [trackers EXCEPT ![r] = NoTracker]
      /\ UNCHANGED <<succeeded, dispTasks, resumeTasks, taskQueue, timers, firing, posting, feed, chan>>
  BY TrackerOfWork DEF FinalizeEvent, Next, Worker, EventInv
<1>2. PICK st \in Final : status' = [status EXCEPT ![e] = st]
  <2>1. FinalStatus(trackers[r]) \in Final
    BY DEF FinalStatus, Final
  <2> QED
    BY <1>1, <2>1 DEF FinalizeEvent, UpdateEventStatus, Graceful
<1>3. status'[e] \in Final /\ \A x \in Events \ {e} : status'[x] = status[x]
  BY <1>1, <1>2 DEF EventInv, Inv, Types
<1>4. trackers'[r] = NoTracker /\ \A q \in Runs \ {r} : trackers'[q] = trackers[q]
  BY <1>1 DEF EventInv, Inv, Types
<1>5. Waiting' = Waiting
  BY <1>1 DEF Waiting, Elems
<1> HIDE DEF r, e
<1>6. Unposted'
  <2>1. \A v \in Workers : Unsettled(v)' => Unsettled(v) /\ job'[v] = job[v]
    BY <1>1 DEF Return, Goto, Unsettled, EventInv, Inv, Types
  <2> QED
    BY <1>1, <1>5, <2>1 DEF Clean, Unposted, Fresh
<1>7. PendingCopies'
  <2>1. Dispatchable' = Dispatchable
    BY <1>1 DEF Dispatchable, Elems
  <2>2. \A c \in Dispatchable : c.event \in Events \ {e}
    BY <1>1, DispatchableAre DEF Live
  <2> QED
    BY <1>3, <2>1, <2>2 DEF Clean, PendingCopies, Dispatchable
<1>8. Unreceived'
  <2>1. \A x \in Events \ {e} : Live(x) => Live(x)'
    BY <1>1, <1>4 DEF Live
  <2> QED
    BY <1>1, <1>3, <2>1 DEF Clean, Unreceived, Final
<1>9. PartialTimers'
  <2>1. \A x \in Waiting : x.run \in Runs \ {r}
    BY <1>1, <1>5, TidyFinalized, TaskTypes DEF EventInv, r
  <2>2. \A t \in timers : t.event \in Events \ {e}
    <3> SUFFICES ASSUME NEW t \in timers
                 PROVE  t.event \in Events \ {e}
      OBVIOUS
    <3>1. /\ t \in Waiting /\ t.run \in Runs \ {r} /\ t.event \in Events
          /\ trackers[t.run] # NoTracker /\ trackers[t.run].event = t.event
      BY <2>1, TaskTypes DEF Waiting, EventInv, Inv, Awaited
    <3> QED
      BY <1>1, <3>1 DEF EventInv, Hands, Tracked
  <2> QED
    BY <1>1, <1>3, <2>2 DEF Clean, PartialTimers
<1>10. PendingTracked'
  <2>1. \A x : Live(x) => x \in Events
    BY DEF Live, EventInv, Inv, Types, Trackers
  <2> QED
    BY <1>1, <1>3, <2>1, PendingTrackedStays DEF Clean, Final
<1> QED
  BY <1>6, <1>7, <1>8, <1>9, <1>10 DEF Clean

\* A new event has been received by nobody.
LEMMA PublishClean ==
    ASSUME EventInv, Clean, NEW e \in Events, Publish(e)
    PROVE  Clean'
<1>1. /\ [Next]_vars /\ status[e] = "none" /\ status' = [status EXCEPT ![e] = "pending"]
      /\ posting' = posting \cup {[event |-> e, retries |-> 0]}
      /\ UNCHANGED <<succeeded, trackers, dispTasks, resumeTasks, taskQueue, timers, firing, feed,
                     chan, pc, job, ok>>
  BY DEF Publish, InsertEvent, Next
<1>2. status'[e] = "pending" /\ \A x \in Events \ {e} : status'[x] = status[x]
  BY <1>1 DEF EventInv, Inv, Types
<1>3. \A x : Live(x) => x \in Events \ {e}
  <2>1. \A x : Live(x) => x \in Events
    BY DEF Live, EventInv, Inv, Types, Trackers
  <2> QED
    BY <1>1, <2>1 DEF Live, EventInv, Hands, Tracked, Unfinished
<1>4. Unposted'
  BY <1>1 DEF Clean, Unposted, Fresh, Unsettled, Waiting, Elems
<1>5. PendingCopies'
  <2>1. \A c \in Dispatchable' : c.event \in Events /\ (c.event = e \/ c \in Dispatchable)
    BY <1>1, DispatchableAre DEF Dispatchable, Elems
  <2> QED
    BY <1>2, <2>1 DEF Clean, PendingCopies, Dispatchable
<1>6. Unreceived'
  BY <1>1, <1>2 DEF Clean, Unreceived, Live
<1>7. PartialTimers'
  <2>1. \A t \in timers : t.event \in Events \ {e}
    BY <1>3, TaskIsTracked DEF Waiting
  <2> QED
    BY <1>1, <1>2, <2>1 DEF Clean, PartialTimers
<1>8. PendingTracked'
  BY <1>1, <1>2, <1>3, PendingTrackedStays DEF Clean
<1> QED
  BY <1>4, <1>5, <1>6, <1>7, <1>8 DEF Clean

\* ResumeUnfinishedDeliveries sends the pending events to everybody again.
LEMMA BootClean ==
    ASSUME EventInv, Clean, Boot
    PROVE  Clean'
<1>1. /\ [Next]_vars
      /\ UNCHANGED <<status, succeeded, trackers, dispTasks, resumeTasks, taskQueue, timers, firing,
                     posting, chan, pc, job, ok>>
  BY DEF Boot, Next
<1>2. \A c \in feed' : c \in feed \/ (c.event \in Events /\ status[c.event] = "pending")
  BY DEF Boot, Resumable, StoredCopy
<1>3. Unposted' /\ PartialTimers'
  BY <1>1 DEF Clean, Unposted, Fresh, Unsettled, Waiting, Elems, PartialTimers
<1>4. PendingCopies'
  BY <1>1, <1>2 DEF Clean, PendingCopies, Elems
<1>5. Unreceived'
  BY <1>1 DEF Clean, Unreceived, Live
<1>6. PendingTracked'
  BY <1>1, PendingTrackedStays DEF Clean
<1> QED
  BY <1>3, <1>4, <1>5, <1>6 DEF Clean

\* The event of a taken copy gets a final status.
LEMMA LetGoClean ==
    ASSUME EventInv, Clean, [Next]_vars, NEW c, CopyTaken(c), NEW st \in Final,
           status' = [status EXCEPT ![c.event] = st],
           UNCHANGED <<succeeded, trackers, dispTasks, resumeTasks, taskQueue, timers, firing,
                       posting, feed, pc, job, ok>>
    PROVE  Clean'
<1>1. /\ c.event \in Events /\ c \in HeldCopies
      /\ HeldCopies' \subseteq HeldCopies
      /\ \A d \in HeldCopies' : d.event # c.event /\ d.event \in Events
  BY TakenCopy
<1>2. ~Live(c.event)
  BY <1>1 DEF EventInv, Hands, Copied
<1>3. status'[c.event] \in Final /\ \A x \in Events \ {c.event} : status'[x] = status[x]
  BY <1>1 DEF EventInv, Inv, Types
<1>4. Unposted'
  BY DEF Clean, Unposted, Fresh, Unsettled, Waiting, Elems
<1>5. PendingCopies'
  <2>1. Elems(chan)' \subseteq Elems(chan)
    <3>1. chan \in Seq(Copies)
      BY DEF EventInv, Inv, Types
    <3>2. CASE chan # <<>> /\ chan' = Tail(chan)
      BY <3>1, <3>2, TailElems
    <3> QED
      BY <3>2 DEF CopyTaken, Elems
  <2>2. Dispatchable' \subseteq Dispatchable /\ Dispatchable' \subseteq HeldCopies'
    BY <2>1 DEF Dispatchable, HeldCopies
  <2> QED
    BY <1>1, <1>3, <2>2 DEF Clean, PendingCopies, Dispatchable
<1>6. Unreceived'
  BY <1>3 DEF Clean, Unreceived, Live, Final
<1>7. PartialTimers'
  <2>1. \A t \in timers : t.event \in Events \ {c.event}
    BY <1>2, TaskIsTracked, TaskTypes DEF Waiting, EventInv
  <2> QED
    BY <1>3, <2>1 DEF Clean, PartialTimers
<1>8. PendingTracked'
  <2>1. \A x : Live(x) => x \in Events
    BY DEF Live, EventInv, Inv, Types, Trackers
  <2> QED
    BY <1>3, <2>1, PendingTrackedStays DEF Clean, Final
<1> QED
  BY <1>4, <1>5, <1>6, <1>7, <1>8 DEF Clean

\* Tasks are built for subscribers that have not received the event.
LEMMA TakenUpClean ==
    ASSUME EventInv, Clean, [Next]_vars, NEW c, CopyTaken(c), NEW r \in Runs,
           NEW S \in SUBSET Subscriptions, NEW prior,
           \A b \in S : succeeded[c.event][Owner[b]] = 0,
           trackers[r] = NoTracker,
           trackers' = [trackers EXCEPT ![r] = NewTracker(c, S)],
           \/ dispTasks' = TasksFor(c, r, S, prior) /\ UNCHANGED resumeTasks
           \/ resumeTasks' = TasksFor(c, r, S, prior) /\ UNCHANGED dispTasks,
           UNCHANGED <<status, succeeded, taskQueue, timers, firing, posting, feed, pc, job, ok>>
    PROVE  Clean'
<1>1. c.event \in Events /\ c \in Copies
  BY TakenCopy
<1>2. \A t \in TasksFor(c, r, S, prior) : Fresh(t)
  BY DEF TasksFor, Fresh
<1>3. Waiting' \subseteq Waiting \cup TasksFor(c, r, S, prior)
  BY DEF Waiting, Elems
<1>4. Unposted'
  BY <1>2, <1>3 DEF Clean, Unposted, Fresh, Unsettled
<1>5. PendingCopies'
  <2>1. Elems(chan)' \subseteq Elems(chan)
    <3>1. chan \in Seq(Copies)
      BY DEF EventInv, Inv, Types
    <3>2. CASE chan # <<>> /\ chan' = Tail(chan)
      BY <3>1, <3>2, TailElems
    <3> QED
      BY <3>2 DEF CopyTaken, Elems
  <2> QED
    BY <2>1 DEF Clean, PendingCopies
<1>6. \A q \in Runs \ {r} : trackers'[q] = trackers[q]
  BY DEF EventInv, Inv, Types
<1>7. Unreceived'
  BY <1>6 DEF Clean, Unreceived, Live
<1>8. PartialTimers'
  BY DEF Clean, PartialTimers
<1>9. PendingTracked'
  BY PendingTrackedStays DEF Clean
<1> QED
  BY <1>4, <1>5, <1>7, <1>8, <1>9 DEF Clean

LEMMA ResumeClean ==
    ASSUME EventInv, Graceful, Clean, NEW c \in resuming, ResumePartialEvent(c)
    PROVE  Clean'
<1>1. /\ [Next]_vars /\ CopyTaken(c)
      /\ UNCHANGED <<succeeded, dispTasks, taskQueue, timers, firing, posting, feed, pc, job, ok>>
  BY DEF ResumePartialEvent, CopyTaken, Next, Resume
<1>2. c.event \in Events
  BY <1>1, TakenCopy
<1>3. CASE ResumeGivesUp(c)
  <2>1. /\ Waiting' = Waiting /\ Dispatchable' = Dispatchable
        /\ UNCHANGED <<status, trackers>>
    BY <1>1, <1>3 DEF ResumeGivesUp, Waiting, Dispatchable, Elems, ResumePartialEvent
  <2> QED
    BY <1>1, <2>1, MoveClean DEF Unsettled
<1>4. ASSUME NEW st \in {"recorded", "delivered"}, ResumeWithoutTasks(c, st)
      PROVE  Clean'
  <2>1. /\ st \in Final /\ status' = [status EXCEPT ![c.event] = st]
        /\ UNCHANGED <<trackers, resumeTasks>>
    BY <1>4 DEF ResumeWithoutTasks, UpdateEventStatus, Graceful, Final
  <2> QED
    BY <1>1, <2>1, LetGoClean
<1>5. ASSUME NEW r \in Runs, ResumeWithTasks(c, r)
      PROVE  Clean'
  <2>1. Remaining(c.event) \in SUBSET Subscriptions
    BY <1>2, ChosenType DEF EventInv, Inv
  <2>2. \A b \in Remaining(c.event) : succeeded[c.event][Owner[b]] = 0
    BY DEF Remaining
  <2> QED
    BY <1>1, <1>5, <2>1, <2>2, TakenUpClean DEF ResumeWithTasks
<1> QED
  BY <1>3, <1>4, <1>5 DEF ResumePartialEvent

LEMMA DispatchClean ==
    ASSUME EventInv, Graceful, Clean, DispatchEvent
    PROVE  Clean'
<1>1. PICK c : c = Head(chan)
  OBVIOUS
<1>2. /\ [Next]_vars /\ CopyTaken(c)
      /\ UNCHANGED <<succeeded, resumeTasks, taskQueue, timers, firing, posting, feed, pc, job, ok>>
  BY <1>1 DEF DispatchEvent, CopyTaken, Next, Dispatcher
<1>3. c.event \in Events
  BY <1>2, TakenCopy
<1>4. ASSUME NEW st \in {"failed", "recorded"}, UpdateEventStatus(c.event, c.retries, st),
             UNCHANGED <<dispTasks, heap>>
      PROVE  Clean'
  <2>1. st \in Final /\ status' = [status EXCEPT ![c.event] = st]
    BY <1>4 DEF UpdateEventStatus, Graceful, Final
  <2> QED
    BY <1>2, <1>4, <2>1, LetGoClean
<1>5. ASSUME NEW r \in Runs, DispatchWithTasks(c, r)
      PROVE  Clean'
  <2>1. Chosen(c.event) \in SUBSET Subscriptions
    BY <1>3, ChosenType DEF EventInv, Inv
  <2>2. c \in Dispatchable
    BY <1>1, TailElems DEF DispatchEvent, EventInv, Inv, Types, Dispatchable
  <2>3. status[c.event] = "pending" /\ ~Live(c.event)
    BY <2>2, DispatchableAre DEF Clean, PendingCopies, Dispatchable
  <2>4. \A b \in Chosen(c.event) : succeeded[c.event][Owner[b]] = 0
    BY <1>3, <2>1, <2>3, SubscriptionAssumption DEF Clean, Unreceived
  <2> QED
    BY <1>2, <1>5, <2>1, <2>4, TakenUpClean DEF DispatchWithTasks
<1> QED
  BY <1>1, <1>4, <1>5 DEF DispatchEvent, DispatchWithoutTasks

\* When the workers have drained the queue, an event that somebody has received is
\* final or "partial": a tracked one that is "pending" would still have a task.
LEMMA ExitClean ==
    ASSUME EventInv, CountInv, Clean, Exit
    PROVE  Clean'
<1>1. Waiting = {} /\ Working = {} /\ Busy = {}
  BY ClosedIsEmpty DEF Exit, CountInv, Waiting, Working, Elems
<1>2. \A e \in Events : status[e] = "pending" => ~Live(e)
  <2> SUFFICES ASSUME NEW r \in Runs, trackers[r] # NoTracker,
                      status[trackers[r].event] = "pending"
               PROVE  FALSE
    BY DEF Live
  <2>1. Missing(r) = {}
    BY <1>1 DEF Clean, PendingTracked, Covered
  <2> QED
    BY <1>1, <2>1 DEF Clean, PendingTracked, Concluding, Busy
<1>3. /\ posting' = {} /\ feed' = {} /\ chan' = <<>> /\ timers' = {}
      /\ Waiting' = {} /\ UNCHANGED <<status, succeeded>>
      /\ \A w \in Workers : pc'[w] = "idle"
      /\ \A r \in Runs : trackers'[r] = NoTracker
  BY DEF Exit, ProcessEnds, Waiting, Elems
<1>4. Unposted' /\ PendingCopies' /\ PartialTimers' /\ PendingTracked'
  BY <1>3 DEF Unposted, Unsettled, PendingCopies, Elems, PartialTimers, PendingTracked
<1>5. Unreceived'
  BY <1>2, <1>3 DEF Clean, Unreceived
<1> QED
  BY <1>4, <1>5 DEF Clean

LEMMA NextClean ==
    ASSUME EventInv, CountInv, Graceful, Clean, [Next]_vars, Graceful'
    PROVE  Clean'
<1>1. ~FeedPanic /\ ~Crash
  BY DEF FeedPanic, Crash, Graceful
<1>2. ASSUME NEW w \in Workers, Worker(w)
      PROVE  Clean'
  BY <1>2, PostClean, AttemptClean, RetryClean, FinalizeClean DEF Worker
<1> QED
  BY <1>1, <1>2, MovesClean, PublishClean, BootClean, ResumeClean, DispatchClean, ExitClean
     DEF Next, Resume, Feeder, Dispatcher

\* A subscriber whose 2xx is on record is not posted the event again as long as the
\* process is only stopped gracefully and the database answers.
THEOREM DeliveredOnce == Spec => []NoRedelivery
<1>1. Init => CleanInv
  BY InitTypes, InitTidy, InitHands, InitCounts, InitClean
     DEF CleanInv, EventInv, CountInv, Inv, Tidy
<1>2. CleanInv /\ [Next]_vars => CleanInv'
  <2> SUFFICES ASSUME CleanInv, [Next]_vars
               PROVE  CleanInv'
    OBVIOUS
  <2>1. EventInv'
    BY NextTypes, NextTidy, NextHands DEF CleanInv, EventInv, Inv, Tidy
  <2>2. CountInv'
    BY <2>1, NextCounts, NextQuiet DEF CleanInv, CountInv, EventInv
  <2>3. Graceful' => Graceful
    <3>1. crashes \in Nat
      BY DEF CleanInv, EventInv, Inv, Types
    <3>2. crashes' = crashes \/ crashes' = crashes + 1
      BY DEF Next, vars, Boot, Resume, ResumePartialEvent, ResumeEnqueue, Serve, Publish, Handlers,
             HandlerSend, HandlerPanic, Feeder, FeedSend, FeedPanic, Dispatcher, DispatchEvent,
             DispatchEnqueue, CloseQueue, Worker, Take, Acquire, Deliver, RecordAttempt,
             RecordResult, FinalizeEvent, ScheduleRetry, Timers, TimerFires, TimerAbandons,
             TimerSends, ChangeTable, Stop, Exit, Crash, Rest
    <3> QED
      BY <3>1, <3>2 DEF Graceful
  <2> QED
    BY <2>1, <2>2, <2>3, NextClean DEF CleanInv
<1>3. CleanInv => NoRedelivery
  BY DEF CleanInv, Graceful, Clean, Unposted, Unsettled, Fresh, NoRedelivery, Busy
<1> QED
  BY <1>1, <1>2, <1>3, PTL DEF Spec

-----------------------------------------------------------------------------
(* Restarts cost a subscriber at most one attempt each beyond its limit.   *)
(* A task under way counts all failed attempts on record but one for each  *)
(* restart: those are the attempts of an event that was still "pending".   *)

\* How often the process has ended, or a little more.
Ended == stops + crashes - (IF phase \in {"stopping", "closed"} THEN 1 ELSE 0)

StopCounted == phase \in {"stopping", "closed"} => stops > 0

\* The failures of s at e exceed some limit of s by no more than n.
Sound(e, s, n) ==
    \E b \in Subscriptions : Owner[b] = s /\ failed[e][s] <= MaxRetries(b) + n

Within(e, s, n) == failed[e][s] = 0 \/ Sound(e, s, n)

\* A task that is to be posted, if only once more.
Ripe(t) ==
    /\ failed[t.event][Owner[t.sub]] <= t.attempt + Ended
    /\ t.attempt <= MaxRetries(t.sub) \/ Sound(t.event, Owner[t.sub], Ended)
    /\ status[t.event] = "pending" => t.attempt = 0

WaitingRipe == \A t \in Waiting : Ripe(t)

WorkingRipe ==
    \A w \in Workers :
        /\ pc[w] \in {"acquire", "send", "insert"} => Ripe(job[w])
        /\ pc[w] = "settle" /\ ~ok[w] =>
              failed[job[w].event][Owner[job[w].sub]] <= job[w].attempt + 1 + Ended

AllWithin == \A e \in Events, s \in Subscribers : Within(e, s, Ended + 1)

\* An event without a tracker can be dispatched, if "pending", or resumed.
UntrackedFew ==
    \A e \in Events, s \in Subscribers : ~Live(e) =>
        /\ status[e] = "none" => failed[e][s] = 0
        /\ status[e] = "pending" => failed[e][s] <= Ended
        /\ status[e] = "partial" => Within(e, s, Ended)

\* Nobody has been retried for a pending event.
PendingFew ==
    \A e \in Events, s \in Subscribers : status[e] = "pending" => failed[e][s] <= Ended + 1

\* main resumes events that are "partial".
PartialCopies == \A c \in resuming : status[c.event] = "partial"

Effort ==
    /\ StopCounted /\ WaitingRipe /\ WorkingRipe /\ AllWithin /\ UntrackedFew
    /\ PendingFew /\ PendingCopies /\ PartialCopies

EffortInv == EventInv /\ (~DbMayFail => Effort)

LEMMA EndedType ==
    ASSUME EventInv, StopCounted
    PROVE  Ended \in Nat /\ Ended <= stops + crashes
  BY DEF Ended, StopCounted, EventInv, Inv, Types

LEMMA FailedType ==
    ASSUME EventInv
    PROVE  \A e \in Events, s \in Subscribers : failed[e][s] \in Nat
  BY DEF EventInv, Inv, Types

LEMMA RetriesType == \A b \in Subscriptions : MaxRetries(b) \in Int
  BY SubscriptionAssumption, ConfigAssumption DEF MaxRetries

LEMMA InitEffort == Init => Effort
<1> SUFFICES ASSUME Init
             PROVE  Effort
  OBVIOUS
<1>1. \A e \in Events, s \in Subscribers : failed[e][s] = 0 /\ status[e] = "none"
  BY DEF Init
<1>2. StopCounted /\ WaitingRipe /\ WorkingRipe /\ PendingCopies /\ PartialCopies
  BY DEF Init, StopCounted, WaitingRipe, WorkingRipe, PendingCopies, PartialCopies, Waiting, Elems
<1>3. AllWithin /\ UntrackedFew /\ PendingFew
  BY <1>1 DEF AllWithin, UntrackedFew, PendingFew, Within
<1> QED
  BY <1>2, <1>3 DEF Effort

\* The end of the process is counted, and no other step is.
LEMMA EndsAreCounted ==
    ASSUME EventInv, StopCounted, [Next]_vars
    PROVE  /\ StopCounted'
           /\ \/ FeedPanic \/ Exit \/ Crash
              \/ Ended' = Ended
<1>1. CASE FeedPanic \/ Exit \/ Crash
  BY <1>1 DEF FeedPanic, Exit, Crash, ProcessEnds, StopCounted
<1>2. CASE Boot \/ Serve
  BY <1>2 DEF Boot, Serve, StopCounted, Ended
<1>3. CASE Stop
  BY <1>3 DEF Stop, StopCounted, Ended, EventInv, Inv, Types
<1>4. CASE CloseQueue
  BY <1>4 DEF CloseQueue, StopCounted, Ended
<1>5. CASE UNCHANGED <<phase, stops, crashes>>
  BY <1>5 DEF StopCounted, Ended
<1> QED
  BY <1>1, <1>2, <1>3, <1>4, <1>5
     DEF Next, vars, Resume, ResumePartialEvent, ResumeEnqueue, Publish, Handlers, HandlerSend,
         HandlerPanic, Feeder, FeedSend, Dispatcher, DispatchEvent, DispatchEnqueue, Worker, Take,
         Acquire, Deliver, RecordAttempt, RecordResult, FinalizeEvent, ScheduleRetry, Timers,
         TimerFires, TimerAbandons, TimerSends, ChangeTable, Rest

\* The process ends: what it held is forgotten, and one restart more is counted.
LEMMA EndEffort ==
    ASSUME EventInv, Effort, [Next]_vars, FeedPanic \/ Exit \/ Crash
    PROVE  Effort'
<1>1. /\ ProcessEnds /\ UNCHANGED <<status, failed>>
      /\ \A r \in Runs : trackers'[r] = NoTracker
  BY DEF FeedPanic, Exit, Crash, ProcessEnds
<1>2. StopCounted /\ StopCounted'
  BY EndsAreCounted DEF Effort
<1>3. Ended \in Nat /\ Ended' \in Nat /\ Ended' >= Ended + 1
  <2>1. Ended \in Nat
    BY <1>2, EndedType
  <2>2. stops' \in Nat /\ crashes' \in Nat /\ phase' = "down" /\ stops \in Nat /\ crashes \in Nat
        /\ stops' = stops /\ crashes' \in {crashes, crashes + 1}
        /\ (crashes' = crashes => phase = "closed")
    BY DEF FeedPanic, Exit, Crash, ProcessEnds, EventInv, Inv, Types
  <2>3. Ended' = stops' + crashes'
    BY <2>2 DEF Ended
  <2>4. CASE crashes' = crashes
    <3>1. Ended = stops + crashes - 1
      BY <2>2, <2>4 DEF Ended
    <3> QED
      BY <2>1, <2>2, <2>3, <2>4, <3>1
  <2>5. CASE crashes' = crashes + 1
    <3>1. Ended <= stops + crashes
      BY <1>2, EndedType
    <3> QED
      BY <2>1, <2>2, <2>3, <2>5, <3>1
  <2> QED
    BY <2>2, <2>4, <2>5
<1>4. WaitingRipe' /\ WorkingRipe' /\ PendingCopies' /\ PartialCopies'
  BY <1>1 DEF ProcessEnds, WaitingRipe, WorkingRipe, PendingCopies, PartialCopies, Waiting, Elems
<1>5. ASSUME NEW e \in Events, NEW s \in Subscribers
      PROVE  /\ failed'[e][s] = failed[e][s] /\ status'[e] = status[e]
             /\ status[e] = "none" => failed[e][s] = 0
             /\ status[e] = "pending" => failed[e][s] <= Ended' /\ failed[e][s] <= Ended' + 1
             /\ failed[e][s] = 0 \/ \E b \in Subscriptions :
                    /\ Owner[b] = s /\ failed[e][s] <= MaxRetries(b) + Ended'
                    /\ failed[e][s] <= MaxRetries(b) + (Ended' + 1)
  <2>1. failed[e][s] \in Nat
    BY FailedType
  <2>2. status[e] = "none" => ~Live(e)
    BY DEF Live, EventInv, Hands, Tracked, Unfinished
  <2>3. status[e] = "none" => failed[e][s] = 0
    BY <2>2 DEF Effort, UntrackedFew
  <2>4. status[e] = "pending" => failed[e][s] <= Ended + 1
    BY DEF Effort, PendingFew
  <2>5. failed[e][s] = 0 \/ \E b \in Subscriptions :
            Owner[b] = s /\ failed[e][s] <= MaxRetries(b) + (Ended + 1)
    BY DEF Effort, AllWithin, Within, Sound
  <2> QED
    BY <1>1, <1>3, <2>1, <2>3, <2>4, <2>5, RetriesType
<1>6. AllWithin' /\ UntrackedFew' /\ PendingFew'
  BY <1>5 DEF AllWithin, UntrackedFew, PendingFew, Within, Sound
<1> QED
  BY <1>2, <1>4, <1>6 DEF Effort

\* Tasks change hands, and new ones are ripe.
LEMMA TasksStayRipe ==
    ASSUME EventInv, Effort, UNCHANGED failed, Ended' = Ended,
           \A e \in Events : status'[e] = "pending" => status[e] \in {"none", "pending"},
           \A t \in Waiting' : t \in Waiting \/ Ripe(t)',
           \A w \in Workers :
               /\ pc'[w] \in {"acquire", "send", "insert"} =>
                     \/ job'[w] \in Waiting
                     \/ pc[w] \in {"acquire", "send", "insert"} /\ job'[w] = job[w]
               /\ pc'[w] = "settle" /\ ~ok'[w] => pc[w] = "settle" /\ ~ok[w] /\ job'[w] = job[w]
    PROVE  WaitingRipe' /\ WorkingRipe'
<1>1. ASSUME NEW t \in Waiting \cup Working, Ripe(t)
      PROVE  /\ failed'[t.event][Owner[t.sub]] <= t.attempt + Ended'
             /\ t.attempt <= MaxRetries(t.sub) \/ Sound(t.event, Owner[t.sub], Ended)'
             /\ status'[t.event] = "pending" => t.attempt = 0
  <2>1. t.event \in Events /\ status[t.event] \in Unfinished
    BY TaskTypes, TaskIsTracked DEF EventInv
  <2>2. status'[t.event] = "pending" => status[t.event] = "pending"
    BY <2>1 DEF Unfinished
  <2> QED
    BY <1>1, <2>2 DEF Ripe, Sound
<1>2. WaitingRipe'
  BY <1>1 DEF Effort, WaitingRipe, Ripe, Sound
<1>3. \A w \in Workers : pc[w] \in {"acquire", "send", "insert"} => job[w] \in Working
  BY DEF Working, Busy
<1>4. WorkingRipe'
  <2> SUFFICES ASSUME NEW w \in Workers
               PROVE  /\ pc'[w] \in {"acquire", "send", "insert"} => Ripe(job[w])'
                      /\ pc'[w] = "settle" /\ ~ok'[w] =>
                            failed'[job'[w].event][Owner[job'[w].sub]] <= job'[w].attempt + 1 + Ended'
    BY DEF WorkingRipe
  <2>1. ASSUME pc'[w] \in {"acquire", "send", "insert"}
        PROVE  Ripe(job[w])'
    <3>1. PICK t \in Waiting \cup Working : t = job'[w] /\ Ripe(t)
      BY <1>3, <2>1 DEF Effort, WaitingRipe, WorkingRipe
    <3> QED
      BY <1>1, <3>1 DEF Ripe, Sound
  <2>2. pc'[w] = "settle" /\ ~ok'[w] =>
            failed'[job'[w].event][Owner[job'[w].sub]] <= job'[w].attempt + 1 + Ended'
    BY DEF Effort, WorkingRipe
  <2> QED
    BY <2>1, <2>2
<1> QED
  BY <1>2, <1>4

\* No failure is recorded: a pending event was pending or is new, and an event that is
\* untracked now was so before or is final.
LEMMA EffortStays ==
    ASSUME EventInv, Effort, StopCounted', UNCHANGED failed, Ended' = Ended,
           WaitingRipe', WorkingRipe', PendingCopies', PartialCopies',
           \A e \in Events : status'[e] = "pending" => status[e] \in {"none", "pending"},
           \A e \in Events : ~Live(e)' =>
               \/ status'[e] \in Final
               \/ ~Live(e) /\ status'[e] = status[e]
               \/ status[e] = "none" /\ status'[e] = "pending"
    PROVE  Effort'
<1>1. Ended \in Nat
  BY EndedType DEF Effort
<1>2. AllWithin'
  BY DEF Effort, AllWithin, Within, Sound
<1>3. ASSUME NEW e \in Events, NEW s \in Subscribers
      PROVE  /\ status[e] = "none" => failed[e][s] = 0
             /\ status[e] \in {"none", "pending"} => failed[e][s] <= Ended + 1
  <2>1. status[e] = "none" => ~Live(e)
    BY DEF Live, EventInv, Hands, Tracked, Unfinished
  <2> QED
    BY <1>1, <2>1 DEF Effort, UntrackedFew, PendingFew
<1>4. PendingFew'
  BY <1>3 DEF PendingFew
<1>5. UntrackedFew'
  BY <1>1, <1>3 DEF Effort, UntrackedFew, Within, Sound, Final
<1> QED
  BY <1>2, <1>4, <1>5 DEF Effort

\* Copies stay what they are as long as the status of their events does.
LEMMA CopiesStayRight ==
    ASSUME EventInv, Effort, Dispatchable' \subseteq Dispatchable, resuming' \subseteq resuming,
           \A c \in HeldCopies' : status'[c.event] = status[c.event]
    PROVE  PendingCopies' /\ PartialCopies'
<1>1. Dispatchable' \subseteq HeldCopies' /\ resuming' \subseteq HeldCopies'
  BY DEF Dispatchable, HeldCopies
<1> QED
  BY <1>1 DEF Effort, PendingCopies, PartialCopies, Dispatchable

\* Tasks and copies move, and nothing is written.
LEMMA MovesEffort ==
    ASSUME EventInv, Effort, StopCounted', Ended' = Ended, UNCHANGED <<status, failed>>,
           Waiting' \subseteq Waiting, Dispatchable' \subseteq Dispatchable,
           resuming' \subseteq resuming,
           \A v \in Workers : pc'[v] \in {"acquire", "send", "insert"} =>
               \/ job'[v] \in Waiting
               \/ pc[v] \in {"acquire", "send", "insert"} /\ job'[v] = job[v],
           \A v \in Workers : pc'[v] = "settle" /\ ~ok'[v] =>
               pc[v] = "settle" /\ ~ok[v] /\ job'[v] = job[v],
           \A r \in Runs : trackers[r] # NoTracker =>
               trackers'[r] # NoTracker /\ trackers'[r].event = trackers[r].event
    PROVE  Effort'
<1>1. WaitingRipe' /\ WorkingRipe'
  BY TasksStayRipe
<1>2. PendingCopies' /\ PartialCopies'
  BY CopiesStayRight
<1>3. \A e \in Events : ~Live(e)' => ~Live(e)
  BY DEF Live
<1> QED
  BY <1>1, <1>2, <1>3, EffortStays

\* A failed attempt is recorded: no other task is for the same event and subscriber.
LEMMA AttemptEffort ==
    ASSUME EventInv, ~DbMayFail, Effort, StopCounted', Ended' = Ended,
           NEW w \in Workers, RecordAttempt(w)
    PROVE  Effort'
<1> DEFINE e == job[w].event
           s == Owner[job[w].sub]
<1>1. /\ job[w] \in Working /\ e \in Events /\ s \in Subscribers /\ job[w].attempt \in Nat
      /\ job[w].sub \in Subscriptions /\ w \in Busy /\ ok[w] \in BOOLEAN
      /\ UNCHANGED <<status, trackers, dispTasks, resumeTasks, taskQueue, timers, firing, posting,
                     feed, resuming, chan, job, ok>>
  BY TrackerOfWork DEF RecordAttempt, EventInv, Inv, Types, Busy
<1>2. /\ pc[w] = "insert" /\ pc'[w] = "settle" /\ \A v \in Workers \ {w} : pc'[v] = pc[v]
  BY DEF RecordAttempt, Goto, EventInv, Inv, Types
<1>3. Waiting' = Waiting /\ Dispatchable' = Dispatchable
  BY <1>1 DEF Waiting, Dispatchable, Elems
<1>4. CASE ok[w]
  <2>1. failed' = failed
    BY <1>4 DEF RecordAttempt, InsertAttempt
  <2> QED
    BY <1>1, <1>2, <1>3, <1>4, <2>1, MovesEffort
<1>5. CASE ~ok[w]
  <2>1. failed' = [failed EXCEPT ![e][s] = failed[e][s] + 1]
    BY <1>5 DEF RecordAttempt, InsertAttempt
  <2>2. /\ failed[e][s] \in Nat /\ failed'[e][s] = failed[e][s] + 1
        /\ \A x \in Events, y \in Subscribers : x # e \/ y # s => failed'[x][y] = failed[x][y]
    BY <1>1, <2>1 DEF EventInv, Inv, Types
  <2>3. /\ Live(e) /\ status[e] \in Unfinished
    BY <1>1, TaskIsTracked
  <2>4. /\ failed[e][s] <= job[w].attempt + Ended
        /\ job[w].attempt <= MaxRetries(job[w].sub) \/ Sound(e, s, Ended)
        /\ status[e] = "pending" => job[w].attempt = 0
    BY <1>2 DEF Effort, WorkingRipe, Ripe
  <2>5. Ended \in Nat
    BY EndedType DEF Effort
  <2>6. ASSUME NEW t \in Waiting \cup Working, ~Same(t, job[w])
        PROVE  /\ Ripe(t) => Ripe(t)'
               /\ failed'[t.event][Owner[t.sub]] = failed[t.event][Owner[t.sub]]
    <3>1. t.event \in Events /\ Owner[t.sub] \in Subscribers
      BY TaskTypes, SubscriptionAssumption DEF EventInv
    <3>2. t.event # e \/ Owner[t.sub] # s
      BY <1>1, <2>6, OneTaskEach
    <3>3. failed'[t.event][Owner[t.sub]] = failed[t.event][Owner[t.sub]]
      BY <2>2, <3>1, <3>2
    <3> QED
      BY <1>1, <2>6, <3>3 DEF Ripe, Sound
  <2>7. WaitingRipe'
    <3>1. \A t \in Waiting : ~Same(t, job[w])
      BY <1>1 DEF EventInv, Inv, OnePlace, Apart, Waiting, Same
    <3> QED
      BY <1>3, <2>6, <3>1 DEF Effort, WaitingRipe
  <2> HIDE DEF e, s
  <2>8. WorkingRipe'
    <3> SUFFICES ASSUME NEW v \in Workers
                 PROVE  /\ pc'[v] \in {"acquire", "send", "insert"} => Ripe(job[v])'
                        /\ pc'[v] = "settle" /\ ~ok'[v] =>
                              failed'[job'[v].event][Owner[job'[v].sub]] <= job'[v].attempt + 1 + Ended'
      BY DEF WorkingRipe
    <3>1. CASE v = w
      BY <1>1, <1>2, <2>2, <2>4, <2>5, <3>1 DEF e, s
    <3>2. ASSUME v # w, pc[v] # "idle"
          PROVE  job[v] \in Waiting \cup Working /\ ~Same(job[v], job[w])
      BY <1>1, <3>2 DEF EventInv, Inv, OnePlace, Working, Busy
    <3>3. ASSUME v # w, pc'[v] \in {"acquire", "send", "insert"}
          PROVE  Ripe(job[v])'
      <4>1. PICK t \in Waiting \cup Working : t = job[v] /\ ~Same(t, job[w]) /\ Ripe(t)
        BY <1>2, <3>2, <3>3 DEF Effort, WorkingRipe
      <4> QED
        BY <1>1, <2>6, <4>1 DEF Ripe, Sound
    <3>4. ASSUME v # w, pc'[v] = "settle", ~ok'[v]
          PROVE  failed'[job'[v].event][Owner[job'[v].sub]] <= job'[v].attempt + 1 + Ended'
      <4>1. PICK t \in Waiting \cup Working : t = job[v] /\ ~Same(t, job[w])
        BY <1>2, <3>2, <3>4
      <4>2. failed[job[v].event][Owner[job[v].sub]] <= job[v].attempt + 1 + Ended
        BY <1>1, <1>2, <3>4 DEF Effort, WorkingRipe
      <4> QED
        BY <1>1, <2>6, <4>1, <4>2
    <3> QED
      BY <1>2, <3>1, <3>3, <3>4
  <2>9. AllWithin'
    <3> SUFFICES ASSUME NEW x \in Events, NEW y \in Subscribers
                 PROVE  Within(x, y, Ended + 1)'
      BY DEF AllWithin
    <3>1. CASE x # e \/ y # s
      BY <2>2, <3>1 DEF Effort, AllWithin, Within, Sound
    <3>2. CASE x = e /\ y = s
      <4>1. PICK b \in Subscriptions : Owner[b] = s /\ failed[e][s] <= MaxRetries(b) + Ended
        <5>1. CASE Sound(e, s, Ended)
          BY <5>1 DEF Sound
        <5>2. CASE job[w].attempt <= MaxRetries(job[w].sub)
          <6>1. failed[e][s] <= MaxRetries(job[w].sub) + Ended
            BY <1>1, <2>2, <2>4, <2>5, <5>2, RetriesType
          <6> QED
            BY <1>1, <6>1 DEF s
        <5> QED
          BY <2>4, <5>1, <5>2
      <4>2. failed'[e][s] <= MaxRetries(b) + (Ended + 1)
        BY <2>2, <2>5, <4>1, RetriesType
      <4> QED
        BY <3>2, <4>1, <4>2 DEF Within, Sound
    <3> QED
      BY <3>1, <3>2
  <2>10. UntrackedFew'
    BY <1>1, <2>2, <2>3 DEF Effort, UntrackedFew, Within, Sound, Live
  <2>11. PendingFew'
    BY <1>1, <2>2, <2>4, <2>5 DEF Effort, PendingFew
  <2>12. PendingCopies' /\ PartialCopies'
    BY <1>1, <1>3, CopiesStayRight
  <2> QED
    BY <2>7, <2>8, <2>9, <2>10, <2>11, <2>12 DEF Effort
<1> QED
  BY <1>1, <1>4, <1>5

\* A retry is one attempt further than the task it follows, which had not exhausted
\* its limit.
LEMMA RetryEffort ==
    ASSUME EventInv, ~DbMayFail, Effort, StopCounted', Ended' = Ended,
           NEW w \in Workers, ScheduleRetry(w)
    PROVE  Effort'
<1> DEFINE e == job[w].event
           s == Owner[job[w].sub]
<1>1. /\ job[w] \in Tasks /\ job[w] \in Working /\ e \in Events /\ s \in Subscribers
      /\ job[w].attempt \in Nat /\ job[w].sub \in Subscriptions
      /\ pc[w] = "settle" /\ ~ok[w] /\ ~Exhausted(job[w]) /\ Return(w)
      /\ UNCHANGED <<failed, trackers, dispTasks, resumeTasks, taskQueue, firing, posting, feed,
                     resuming, chan>>
  BY TrackerOfWork DEF ScheduleRetry, EventInv
<1>2. PICK u \in Tasks :
          /\ timers' = timers \cup {u}
          /\ u.event = e /\ u.sub = job[w].sub /\ u.attempt = job[w].attempt + 1
  BY <1>1, RetryType DEF ScheduleRetry
<1>3. status' = [status EXCEPT ![e] = "partial"]
  BY DEF ScheduleRetry, UpdateEventStatus
<1>4. status'[e] = "partial" /\ \A x \in Events \ {e} : status'[x] = status[x]
  BY <1>1, <1>3 DEF EventInv, Inv, Types
<1>5. Waiting' = Waiting \cup {u} /\ Dispatchable' = Dispatchable /\ HeldCopies' = HeldCopies
  BY <1>1, <1>2 DEF Waiting, Dispatchable, HeldCopies, Elems
<1>6. Live(e)
  BY <1>1, TaskIsTracked
<1>7. failed[e][s] <= job[w].attempt + 1 + Ended
  BY <1>1 DEF Effort, WorkingRipe
<1>8. job[w].attempt + 1 <= MaxRetries(job[w].sub)
  BY <1>1, RetriesType DEF Exhausted
<1>9. Ripe(u)'
  BY <1>1, <1>2, <1>4, <1>7, <1>8 DEF Ripe
<1>10. \A v \in Workers :
          pc'[v] \in {"acquire", "send", "insert", "settle"} =>
              pc[v] = pc'[v] /\ ok'[v] = ok[v] /\ job'[v] = job[v]
  BY <1>1 DEF Return, Goto, EventInv, Inv, Types
<1> HIDE DEF e, s
<1>11. WaitingRipe' /\ WorkingRipe'
  BY <1>1, <1>4, <1>5, <1>9, <1>10, TasksStayRipe
<1>12. PendingCopies' /\ PartialCopies'
  <2>1. \A c \in HeldCopies : c.event \in Events \ {e}
    <3>1. HeldCopies \subseteq Copies
      BY ElemsType DEF HeldCopies, EventInv, Inv, Types
    <3> QED
      BY <1>6, <3>1 DEF EventInv, Hands, Copied, Copies
  <2> QED
    BY <1>1, <1>4, <1>5, <2>1, CopiesStayRight
<1>13. \A x : Live(x)' <=> Live(x)
  BY <1>1 DEF Live
<1> QED
  BY <1>1, <1>4, <1>6, <1>11, <1>12, <1>13, EffortStays

\* The event of a finalized tracker has a final status.
LEMMA FinalizeEffort ==
    ASSUME EventInv, ~DbMayFail, Effort, StopCounted', Ended' = Ended,
           NEW w \in Workers, FinalizeEvent(w)
    PROVE  Effort'
<1> DEFINE r == job[w].run
           e == job[w].event
<1>1. /\ r \in Runs /\ e \in Events /\ Return(w)
      /\ trackers[r] # NoTracker /\ trackers[r].event = e
      /\ trackers' = [trackers EXCEPT ![r] = NoTracker]
      /\ UNCHANGED <<failed, dispTasks, resumeTasks, taskQueue, timers, firing, posting, feed,
                     resuming, chan>>
  BY TrackerOfWork DEF FinalizeEvent, EventInv
<1>2. PICK st \in Final : status' = [status EXCEPT ![e] = st]
  <2>1. FinalStatus(trackers[r]) \in Final
    BY DEF FinalStatus, Final
  <2> QED
    BY <1>1, <2>1 DEF FinalizeEvent, UpdateEventStatus
<1>3. status'[e] \in Final /\ \A x \in Events \ {e} : status'[x] = status[x]
  BY <1>1, <1>2 DEF EventInv, Inv, Types
<1>4. \A q \in Runs \ {r} : trackers'[q] = trackers[q]
  BY <1>1 DEF EventInv, Inv, Types
<1>5. Waiting' = Waiting /\ Dispatchable' = Dispatchable /\ HeldCopies' = HeldCopies
  BY <1>1 DEF Waiting, Dispatchable, HeldCopies, Elems
<1>6. \A v \in Workers :
          pc'[v] \in {"acquire", "send", "insert", "settle"} =>
              pc[v] = pc'[v] /\ ok'[v] = ok[v] /\ job'[v] = job[v]
  BY <1>1 DEF Return, Goto, EventInv, Inv, Types
<1> HIDE DEF r, e
<1>7. \A x \in Events : status'[x] = "pending" => status[x] \in {"none", "pending"}
  BY <1>3 DEF Final
<1>8. WaitingRipe' /\ WorkingRipe'
  BY <1>1, <1>5, <1>6, <1>7, TasksStayRipe
<1>9. PendingCopies' /\ PartialCopies'
  <2>1. \A c \in HeldCopies : c.event \in Events \ {e}
    <3>1. HeldCopies \subseteq Copies
      BY ElemsType DEF HeldCopies, EventInv, Inv, Types
    <3> QED
      BY <1>1, <3>1 DEF EventInv, Hands, Copied, Copies, Live
  <2> QED
    BY <1>1, <1>3, <1>5, <2>1, CopiesStayRight
<1>10. \A x \in Events \ {e} : Live(x) => Live(x)'
  BY <1>1, <1>4 DEF Live
<1> QED
  BY <1>1, <1>3, <1>7, <1>8, <1>9, <1>10, EffortStays

\* A new event has no failures.
LEMMA PublishEffort ==
    ASSUME EventInv, Effort, StopCounted', Ended' = Ended, NEW e \in Events, Publish(e)
    PROVE  Effort'
<1>1. /\ status[e] = "none" /\ status' = [status EXCEPT ![e] = "pending"]
      /\ posting' = posting \cup {[event |-> e, retries |-> 0]}
      /\ UNCHANGED <<failed, trackers, dispTasks, resumeTasks, taskQueue, timers, firing, feed,
                     resuming, chan, pc, job, ok>>
  BY DEF Publish, InsertEvent
<1>2. status'[e] = "pending" /\ \A x \in Events \ {e} : status'[x] = status[x]
  BY <1>1 DEF EventInv, Inv, Types
<1>3. \A x \in Events : status'[x] = "pending" => status[x] \in {"none", "pending"}
  BY <1>1, <1>2
<1>4. Waiting' = Waiting
  BY <1>1 DEF Waiting, Elems
<1>5. WaitingRipe' /\ WorkingRipe'
  BY <1>1, <1>3, <1>4, TasksStayRipe
<1>6. \A c \in HeldCopies : c.event \in Events \ {e}
  <2>1. HeldCopies \subseteq Copies
    BY ElemsType DEF HeldCopies, EventInv, Inv, Types
  <2> QED
    BY <1>1, <2>1 DEF EventInv, Hands, Copied, Copies, Unfinished
<1>7. PendingCopies'
  <2>1. \A c \in Dispatchable' : c.event = e \/ c \in Dispatchable
    BY <1>1 DEF Dispatchable, Elems
  <2>2. Dispatchable \subseteq HeldCopies
    BY DEF Dispatchable, HeldCopies
  <2> QED
    BY <1>2, <1>6, <2>1, <2>2 DEF Effort, PendingCopies, Dispatchable
<1>8. PartialCopies'
  BY <1>1, <1>2, <1>6 DEF Effort, PartialCopies, HeldCopies
<1>9. \A x : Live(x)' <=> Live(x)
  BY <1>1 DEF Live
<1> QED
  BY <1>1, <1>2, <1>3, <1>5, <1>7, <1>8, <1>9, EffortStays

\* ResumeUnfinishedDeliveries reads what is pending and what is partial.
LEMMA BootEffort ==
    ASSUME EventInv, Effort, StopCounted', Ended' = Ended, Boot
    PROVE  Effort'
<1>1. UNCHANGED <<status, failed, trackers, dispTasks, resumeTasks, taskQueue, timers, firing,
                  posting, chan, pc, job, ok>>
  BY DEF Boot
<1>2. /\ \A c \in feed' : c \in feed \/ status[c.event] = "pending"
      /\ \A c \in resuming' : c \in resuming \/ status[c.event] = "partial"
  BY DEF Boot, Resumable, StoredCopy
<1>3. Waiting' = Waiting
  BY <1>1 DEF Waiting, Elems
<1>4. WaitingRipe' /\ WorkingRipe'
  BY <1>1, <1>3, TasksStayRipe
<1>5. PendingCopies' /\ PartialCopies'
  BY <1>1, <1>2 DEF Effort, PendingCopies, PartialCopies, Elems
<1>6. \A x : Live(x)' <=> Live(x)
  BY <1>1 DEF Live
<1> QED
  BY <1>1, <1>4, <1>5, <1>6, EffortStays

\* The copies that are left when one is taken.
LEMMA CopiesLeft ==
    ASSUME EventInv, NEW c, CopyTaken(c), UNCHANGED <<posting, feed>>
    PROVE  Dispatchable' \subseteq Dispatchable /\ resuming' \subseteq resuming
<1>1. chan \in Seq(Copies)
  BY DEF EventInv, Inv, Types
<1>2. CASE chan # <<>> /\ chan' = Tail(chan) /\ UNCHANGED resuming
  <2>1. Elems(chan)' \subseteq Elems(chan)
    BY <1>1, <1>2, TailElems
  <2> QED
    BY <1>2, <2>1 DEF Dispatchable
<1>3. CASE resuming' = resuming \ {c} /\ UNCHANGED chan
  BY <1>3 DEF Dispatchable, Elems
<1> QED
  BY <1>2, <1>3 DEF CopyTaken

\* The event of a taken copy gets a final status, or is left alone.
LEMMA LetGoEffort ==
    ASSUME EventInv, Effort, StopCounted', Ended' = Ended, NEW c, CopyTaken(c),
           UNCHANGED status \/ \E st \in Final : status' = [status EXCEPT ![c.event] = st],
           UNCHANGED <<failed, trackers, dispTasks, resumeTasks, taskQueue, timers, firing,
                       posting, feed, pc, job, ok>>
    PROVE  Effort'
<1>1. /\ c.event \in Events
      /\ \A d \in HeldCopies' : d.event # c.event /\ d.event \in Events
  BY TakenCopy
<1>2. /\ \A x \in Events \ {c.event} : status'[x] = status[x]
      /\ status'[c.event] = status[c.event] \/ status'[c.event] \in Final
  BY <1>1 DEF EventInv, Inv, Types
<1>3. \A x \in Events : status'[x] = "pending" => status[x] \in {"none", "pending"}
  BY <1>2 DEF Final
<1>4. Waiting' = Waiting
  BY DEF Waiting, Elems
<1>5. WaitingRipe' /\ WorkingRipe'
  BY <1>3, <1>4, TasksStayRipe
<1>6. PendingCopies' /\ PartialCopies'
  BY <1>1, <1>2, CopiesLeft, CopiesStayRight
<1>7. \A x : Live(x)' <=> Live(x)
  BY DEF Live
<1> QED
  BY <1>2, <1>3, <1>5, <1>6, <1>7, EffortStays

\* Ripe tasks are built for the event of a taken copy.
LEMMA TakenUpEffort ==
    ASSUME EventInv, Effort, StopCounted', Ended' = Ended, NEW c, CopyTaken(c),
           NEW r \in Runs, NEW S \in SUBSET Subscriptions, NEW prior,
           trackers[r] = NoTracker,
           trackers' = [trackers EXCEPT ![r] = NewTracker(c, S)],
           \/ dispTasks' = TasksFor(c, r, S, prior) /\ UNCHANGED resumeTasks
           \/ resumeTasks' = TasksFor(c, r, S, prior) /\ UNCHANGED dispTasks,
           \A t \in TasksFor(c, r, S, prior) : Ripe(t)',
           UNCHANGED <<status, failed, taskQueue, timers, firing, posting, feed, pc, job, ok>>
    PROVE  Effort'
<1>1. Waiting' \subseteq Waiting \cup TasksFor(c, r, S, prior)
  BY DEF Waiting, Elems
<1>2. WaitingRipe' /\ WorkingRipe'
  BY <1>1, TasksStayRipe
<1>3. PendingCopies' /\ PartialCopies'
  BY CopiesLeft, CopiesStayRight
<1>4. \A q \in Runs \ {r} : trackers'[q] = trackers[q]
  BY DEF EventInv, Inv, Types
<1>5. \A x \in Events : ~Live(x)' => ~Live(x)
  BY <1>4 DEF Live
<1> QED
  BY <1>2, <1>3, <1>5, EffortStays

LEMMA ResumeEffort ==
    ASSUME EventInv, ~DbMayFail, Effort, StopCounted', Ended' = Ended,
           NEW c \in resuming, ResumePartialEvent(c)
    PROVE  Effort'
<1> DEFINE e == c.event
<1>1. /\ CopyTaken(c)
      /\ UNCHANGED <<failed, dispTasks, taskQueue, timers, firing, posting, feed, pc, job, ok>>
  BY DEF ResumePartialEvent, CopyTaken
<1>2. e \in Events /\ c \in HeldCopies
  BY <1>1, TakenCopy
<1>3. CASE ResumeGivesUp(c)
  BY <1>1, <1>3, LetGoEffort DEF ResumeGivesUp
<1>4. ASSUME NEW st \in {"recorded", "delivered"}, ResumeWithoutTasks(c, st)
      PROVE  Effort'
  <2>1. /\ st \in Final /\ status' = [status EXCEPT ![c.event] = st]
        /\ UNCHANGED <<trackers, resumeTasks>>
    BY <1>4 DEF ResumeWithoutTasks, UpdateEventStatus, Final
  <2> QED
    BY <1>1, <2>1, LetGoEffort
<1>5. ASSUME NEW r \in Runs, ResumeWithTasks(c, r)
      PROVE  Effort'
  <2>1. Remaining(e) \in SUBSET Subscriptions /\ Remaining(e) \subseteq Chosen(e)
    BY <1>2, ChosenType DEF EventInv, Inv
  <2>2. status[e] = "partial" /\ ~Live(e) /\ Ended \in Nat
    BY <1>2, EndedType DEF Effort, PartialCopies, EventInv, Hands, Copied
  <2>3. UNCHANGED status
    BY <1>5 DEF ResumeWithTasks
  <2> HIDE DEF e
  <2>4. ASSUME NEW b \in Remaining(e)
        PROVE  /\ failed[e][Owner[b]] <= failed[e][Owner[b]] + Ended
               /\ failed[e][Owner[b]] <= MaxRetries(b) \/ Sound(e, Owner[b], Ended)
    <3>1. b \in Subscriptions /\ Owner[b] \in Subscribers /\ failed[e][Owner[b]] \in Nat
      BY <1>2, <2>1, SubscriptionAssumption, FailedType DEF e
    <3>2. MaxRetries(b) \in Int /\ MaxRetries(b) > -1
      BY <2>1, <3>1, RetriesType DEF Chosen, Selected, Candidates
    <3>3. failed[e][Owner[b]] = 0 \/ Sound(e, Owner[b], Ended)
      BY <1>2, <2>2, <3>1 DEF Effort, UntrackedFew, Within, e
    <3> QED
      BY <2>2, <3>1, <3>2, <3>3
  <2>5. ASSUME NEW t \in TasksFor(c, r, Remaining(e), failed[e])
        PROVE  Ripe(t)'
    <3>1. PICK b \in Remaining(e) : t.event = e /\ t.sub = b /\ t.attempt = failed[e][Owner[b]]
      BY DEF TasksFor, e
    <3> QED
      BY <1>1, <2>2, <2>3, <2>4, <3>1 DEF Ripe, Sound
  <2> QED
    BY <1>1, <1>5, <2>1, <2>3, <2>5, TakenUpEffort DEF ResumeWithTasks, e
<1> QED
  BY <1>3, <1>4, <1>5 DEF ResumePartialEvent

LEMMA DispatchEffort ==
    ASSUME EventInv, ~DbMayFail, Effort, StopCounted', Ended' = Ended, DispatchEvent
    PROVE  Effort'
<1>1. PICK c : c = Head(chan)
  OBVIOUS
<1> DEFINE e == c.event
<1>2. /\ CopyTaken(c)
      /\ UNCHANGED <<failed, resumeTasks, taskQueue, timers, firing, posting, feed, pc, job, ok>>
  BY <1>1 DEF DispatchEvent, CopyTaken
<1>3. e \in Events
  BY <1>2, TakenCopy
<1>4. ASSUME NEW st \in {"failed", "recorded"}, UpdateEventStatus(c.event, c.retries, st),
             UNCHANGED <<dispTasks, heap>>
      PROVE  Effort'
  <2>1. st \in Final /\ status' = [status EXCEPT ![c.event] = st]
    BY <1>4 DEF UpdateEventStatus, Final
  <2> QED
    BY <1>2, <1>4, <2>1, LetGoEffort
<1>5. ASSUME NEW r \in Runs, DispatchWithTasks(c, r)
      PROVE  Effort'
  <2>1. Chosen(e) \in SUBSET Subscriptions
    BY <1>3, ChosenType DEF EventInv, Inv
  <2>2. c \in Dispatchable
    BY <1>1, TailElems DEF DispatchEvent, EventInv, Inv, Types, Dispatchable
  <2>3. status[e] = "pending" /\ ~Live(e) /\ Ended \in Nat
    BY <2>2, DispatchableAre, EndedType DEF Effort, PendingCopies, Dispatchable
  <2>4. UNCHANGED status
    BY <1>5 DEF DispatchWithTasks
  <2>5. ASSUME NEW b \in Chosen(e)
        PROVE  Owner[b] \in Subscribers /\ failed[e][Owner[b]] <= 0 + Ended /\ 0 <= MaxRetries(b)
    <3>1. b \in Subscriptions /\ Owner[b] \in Subscribers
      BY <2>1, SubscriptionAssumption
    <3>2. MaxRetries(b) \in Int /\ MaxRetries(b) > -1
      BY <3>1, RetriesType DEF Chosen, Selected, Candidates
    <3>3. failed[e][Owner[b]] <= Ended
      BY <1>3, <2>3, <3>1 DEF Effort, UntrackedFew
    <3> QED
      BY <2>3, <3>1, <3>2, <3>3
  <2>6. ASSUME NEW t \in TasksFor(c, r, Chosen(e), NoPrior)
        PROVE  Ripe(t)'
    <3>1. PICK b \in Chosen(e) : t.event = e /\ t.sub = b /\ t.attempt = NoPrior[Owner[b]]
      BY DEF TasksFor
    <3>2. t.attempt = 0
      BY <2>5, <3>1 DEF NoPrior
    <3> HIDE DEF e
    <3> QED
      BY <1>2, <2>4, <2>5, <3>1, <3>2 DEF Ripe
  <2> QED
    BY <1>2, <1>5, <2>1, <2>4, <2>6, TakenUpEffort DEF DispatchWithTasks
<1> QED
  BY <1>1, <1>4, <1>5 DEF DispatchEvent, DispatchWithoutTasks

LEMMA NextEffort ==
    ASSUME EventInv, ~DbMayFail, Effort, [Next]_vars
    PROVE  Effort'
<1>1. StopCounted' /\ (FeedPanic \/ Exit \/ Crash \/ Ended' = Ended)
  BY EndsAreCounted DEF Effort
<1>2. CASE FeedPanic \/ Exit \/ Crash
  BY <1>2, EndEffort
<1> SUFFICES ASSUME Ended' = Ended, ~FeedPanic, ~Exit, ~Crash
             PROVE  Effort'
  BY <1>1, <1>2
<1>3. CASE \/ Serve \/ Stop \/ ChangeTable \/ Rest \/ CloseQueue \/ Timers \/ Handlers
           \/ (\E c \in feed : FeedSend(c)) \/ (\E t \in resumeTasks : ResumeEnqueue(t))
           \/ (\E t \in dispTasks : DispatchEnqueue(t)) \/ UNCHANGED vars
  <2>1. /\ UNCHANGED <<status, failed, trackers, pc, job, ok, resuming>>
        /\ Waiting' \subseteq Waiting /\ Dispatchable' \subseteq Dispatchable
    BY <1>3, Moves
  <2> QED
    BY <1>1, <2>1, MovesEffort
<1>4. ASSUME NEW w \in Workers,
             \/ Take(w) \/ Acquire(w) \/ (\E good \in BOOLEAN : Deliver(w, good)) \/ RecordResult(w)
      PROVE  Effort'
  <2>1. /\ UNCHANGED <<status, failed, resuming>>
        /\ Waiting' \subseteq Waiting /\ Dispatchable' = Dispatchable
        /\ \A v \in Workers : pc'[v] \in {"acquire", "send", "insert"} =>
              \/ job'[v] \in Waiting
              \/ pc[v] \in {"acquire", "send", "insert"} /\ job'[v] = job[v]
        /\ \A v \in Workers : pc'[v] = "settle" /\ ~ok'[v] =>
              pc[v] = "settle" /\ ~ok[v] /\ job'[v] = job[v]
        /\ \A r \in Runs : trackers[r] # NoTracker =>
              trackers'[r] # NoTracker /\ trackers'[r].event = trackers[r].event
    BY <1>4, Posts
  <2> QED
    BY <1>1, <2>1, MovesEffort
<1>5. ASSUME NEW w \in Workers, Worker(w)
      PROVE  Effort'
  BY <1>1, <1>4, <1>5, AttemptEffort, RetryEffort, FinalizeEffort DEF Worker
<1> QED
  BY <1>1, <1>3, <1>5, PublishEffort, BootEffort, ResumeEffort, DispatchEffort
     DEF Next, Resume, Feeder, Dispatcher

\* Without lost writes a subscriber is posted an event no more often than its limit,
\* the first attempt and the restarts allow.
THEOREM AttemptsLimited == Spec => []AttemptsBounded
<1>1. Init => EffortInv
  BY InitTypes, InitTidy, InitHands, InitEffort DEF EffortInv, EventInv, Inv, Tidy
<1>2. EffortInv /\ [Next]_vars => EffortInv'
  <2> SUFFICES ASSUME EffortInv, [Next]_vars
               PROVE  EffortInv'
    OBVIOUS
  <2>1. EventInv'
    BY NextTypes, NextTidy, NextHands DEF EffortInv, EventInv, Inv, Tidy
  <2> QED
    BY <2>1, NextEffort DEF EffortInv
<1>3. EffortInv => AttemptsBounded
  <2> SUFFICES ASSUME EffortInv, ~DbMayFail, NEW e \in Events, NEW s \in Subscribers,
                      failed[e][s] > 0
               PROVE  \E b \in Subscriptions :
                          Owner[b] = s /\ failed[e][s] <= MaxRetries(b) + 1 + stops + crashes
    BY DEF AttemptsBounded
  <2>1. EventInv /\ Effort
    BY DEF EffortInv
  <2>2. failed[e][s] \in Nat /\ Ended \in Nat /\ Ended <= stops + crashes
    BY <2>1, FailedType, EndedType DEF Effort
  <2>3. PICK b \in Subscriptions : Owner[b] = s /\ failed[e][s] <= MaxRetries(b) + (Ended + 1)
    BY <2>1, <2>2 DEF Effort, AllWithin, Within, Sound
  <2>4. MaxRetries(b) \in Int /\ stops \in Nat /\ crashes \in Nat
    BY <2>1, RetriesType DEF EventInv, Inv, Types
  <2> QED
    BY <2>2, <2>3, <2>4
<1> QED
  BY <1>1, <1>2, <1>3, PTL DEF Spec
=============================================================================
