------------------------------- MODULE Replay -------------------------------
(***************************************************************************)
(* The pages of an event beside the delivery pipeline: replay to all,      *)
(* which sends the event as the page read it on DeliveryChan once more,    *)
(* replay to one subscriber, which posts it from a goroutine of its own    *)
(* that neither the semaphores, the trackers nor inflightWg know of, and   *)
(* the form that creates an event.                                         *)
(***************************************************************************)
EXTENDS Delivery

CONSTANTS
    Goroutines,  \* that run ReplayToSubscriber
    NoReplay,    \* such a goroutine does not exist
    MaxReplays   \* bound

Replays == [at : {"reset", "post", "insert", "finish"}, event : Events,
            to : Subscribers, retries : Nat, good : BOOLEAN]

ASSUME ReplayAssumption == NoReplay \notin Replays /\ MaxReplays \in Nat

VARIABLES
    solo,    \* solo[g]: the replay to one subscriber that goroutine g runs
    replays  \* replays asked for so far

soloVars == <<solo, replays>>
replayVars == <<vars, soloVars>>

ReplayInit ==
    /\ Init
    /\ solo = [g \in Goroutines |-> NoReplay]
    /\ replays = 0

-----------------------------------------------------------------------------
(* Requests.  A handler may outlive the 30 s that Shutdown grants it.      *)

\* POST /events/{id}/replay: the event, whatever its status, is about to be sent on
\* DeliveryChan (HandlerSend).  Its row is not written.
ReplayAll(e) ==
    /\ phase \in {"serving", "stopping"} /\ status[e] # "none"
    /\ replays < MaxReplays /\ StoredCopy(e) \notin posting
    /\ posting' = posting \cup {StoredCopy(e)}
    /\ replays' = replays + 1
    /\ UNCHANGED <<db, world, main, counts, feed, queues, pool, retry, heap, limits,
                   solo>>

\* POST /events/{id}/replay/{subscriberId}, of any stored event and any stored subscriber:
\* the page of the event offers those that an attempt is on record for, but the handler
\* does not ask for one.
ReplaySubscriber(g, e, s) ==
    /\ phase \in {"serving", "stopping"} /\ status[e] # "none" /\ s \in Known
    /\ replays < MaxReplays /\ solo[g] = NoReplay
    /\ solo' = [solo EXCEPT ![g] = [at |-> "reset", event |-> e, to |-> s,
                                    retries |-> retries[e], good |-> FALSE]]
    /\ replays' = replays + 1
    /\ UNCHANGED vars

\* POST /events/new: once its form is valid, createEventHandler again.
EventCreateSubmit(e) == Publish(e) /\ UNCHANGED soloVars

-----------------------------------------------------------------------------
(* ReplayToSubscriber.                                                     *)

At(g, point) == solo[g] # NoReplay /\ solo[g].at = point

ResetStatus(g) ==
    /\ At(g, "reset")
    /\ UpdateEventStatus(solo[g].event, solo[g].retries, "pending")
    /\ solo' = [solo EXCEPT ![g].at = "post"]
    /\ UNCHANGED <<failed, succeeded, world, main, counts, senders, queues, pool,
                   retry, heap, limits, replays>>

\* The POST of deliverToSubscriber.
Post(g, good) ==
    /\ At(g, "post")
    /\ accepted' = IF good THEN accepted \cup {<<solo[g].event, solo[g].to>>} ELSE accepted
    /\ solo' = [solo EXCEPT ![g].at = "insert", ![g].good = good]
    /\ UNCHANGED <<db, plan, table, changes, main, counts, senders, queues, pool,
                   retry, heap, limits, replays>>

RecordReplay(g) ==
    /\ At(g, "insert")
    /\ InsertAttempt(solo[g].event, solo[g].to, solo[g].good)
    /\ solo' = [solo EXCEPT ![g].at = "finish"]
    /\ UNCHANGED <<status, retries, world, main, counts, senders, queues, pool,
                   retry, heap, limits, replays>>

\* Mutant: the status is left as it was reset.
EndUnwritten(g) ==
    /\ At(g, "finish")
    /\ solo' = [solo EXCEPT ![g] = NoReplay]
    /\ UNCHANGED <<vars, replays>>

\* The outcome for this one subscriber becomes the status of the event.
EndReplay(g) ==
    /\ At(g, "finish")
    /\ UpdateEventStatus(solo[g].event, solo[g].retries,
                         IF solo[g].good THEN "delivered" ELSE "failed")
    /\ solo' = [solo EXCEPT ![g] = NoReplay]
    /\ UNCHANGED <<failed, succeeded, world, main, counts, senders, queues, pool,
                   retry, heap, limits, replays>>

ReplayToSubscriber(g) ==
    \/ ResetStatus(g) \/ (\E good \in BOOLEAN : Post(g, good))
    \/ RecordReplay(g) \/ EndReplay(g)

-----------------------------------------------------------------------------
\* The goroutines go on until the process ends; nobody waits for them.
Pipeline ==
    /\ Next
    /\ solo' = IF phase # "down" /\ phase' = "down"
               THEN [g \in Goroutines |-> NoReplay] ELSE solo
    /\ UNCHANGED replays

ReplayNext ==
    \/ Pipeline
    \/ \E e \in Events : ReplayAll(e) \/ EventCreateSubmit(e)
    \/ \E g \in Goroutines, e \in Events, s \in Subscribers : ReplaySubscriber(g, e, s)
    \/ \E g \in Goroutines : ReplayToSubscriber(g)

ReplaySpec == ReplayInit /\ [][ReplayNext]_replayVars

-----------------------------------------------------------------------------
\* The types of Delivery hold beside replays too: no queue overflows and inflightWg
\* stays at zero or above although replays to one subscriber do not count themselves.
ReplayTypeOK ==
    /\ TypeOK
    /\ solo \in [Goroutines -> Replays \cup {NoReplay}]
    /\ replays \in 0..MaxReplays

\* While the server runs, an unfinished event is in somebody's hands, also when a
\* replay and the pipeline overwrite each other's statuses: whoever writes pending or
\* partial has still to write a final status (unless a database or cache error drops
\* it).
NothingStranded ==
    (phase = "serving" /\ ~DbMayFail /\ ~CacheMayFail) =>
        \A e \in Events : status[e] \in Unfinished =>
            Held(e) \/ \E g \in Goroutines : solo[g] # NoReplay /\ solo[g].event = e

\* The failed attempts on record for e, numbered for each subscriber.
FailedAttempts(e) == UNION {{s} \X (1..failed[e][s]) : s \in Subscribers}

\* retry_count is "increment[ed] ... for each retry cycle" (tasks/prd-slurpee-event-
\* broker.md): retries, resumes and replays that start from stale copies of the row
\* may lose increments, but it never counts a retry that no failed attempt preceded.
RetriesCounted ==
    ~DbMayFail => \A e \in Events : retries[e] <= Cardinality(FailedAttempts(e))
=============================================================================
