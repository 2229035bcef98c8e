------------------------------ MODULE LiveView ------------------------------
(***************************************************************************)
(* The events page of views/events.go and events.templ: the list, page by  *)
(* page, and the live stream that replaces it.  A page has one EventSource *)
(* while it is live; its channel is renewed when the browser reconnects.   *)
(* The bytes written to a connection reach the page in order, or are lost  *)
(* with the connection.                                                    *)
(***************************************************************************)
EXTENDS EventBus, FiniteSets, SequencesExt

CONSTANTS
    Filters,      \* what the subject field of the filter form may hold
    NoFilter,     \* an empty field
    Filter,       \* Filter[c]: what it holds on the page of c while that is live
    Selected,     \* Selected[f]: the events that the queries select: subject LIKE '%f%'
    Streamed,     \* Streamed[f]: those whose subject contains f, in any case of letters
    Link,         \* Link[f]: the filter that the server reads out of a link made with f
    NoID,         \* no Last-Event-ID yet
    eventsPerPage,
    MaxRestarts   \* bound: restarts of the process

ASSUME LiveAssumption ==
    /\ NoFilter \in Filters /\ Filter \in [Channels -> Filters]
    /\ Selected \in [Filters -> SUBSET Events] /\ Streamed \in [Filters -> SUBSET Events]
    /\ Link \in [Filters -> Filters]
    /\ NoID \notin Nat
    /\ eventsPerPage \in Nat \ {0} /\ MaxRestarts \in Nat

VARIABLES
    conn,      \* conn[c]: the page's connection, "off" when it shows the list
    last,      \* last[c]: time in the id of the last message received
    since,     \* since[c]: time in the Last-Event-ID of the request being served
    wire,      \* wire[c]: written, not yet received
    walk,      \* walk[c]: the reading of the list, page by page
    restarts,
    \* history
    known,     \* known[c]: events stored when the present connection subscribed
    seen,      \* seen[c]: events whose created message the live page has received
    told       \* told[c]: events that a "missed" message it has received counts (its
               \* script does not show the count: showMissedBanner leaves the row empty)

stream == <<conn, last, since, wire, known, seen, told>>
vars == <<busVars, stream, walk, restarts>>

Running == {"counting", "open"}
NoWalk == [page |-> 0, asked |-> NoFilter, filter |-> NoFilter, more |-> FALSE,
           base |-> {}, read |-> {}]

\* Every variable keeps to its type, and a channel is in the bus exactly while the
\* handler of its stream runs (defer unsubscribe, views/events.go:506).
TypeOK ==
    /\ BusTypeOK
    /\ conn \in [Channels -> {"off", "opening", "counting", "open", "lost", "refused"}]
    /\ \A c \in Channels : c \in subscribers <=> conn[c] \in Running
    /\ last \in [Channels -> Nat \cup {NoID}] /\ since \in [Channels -> Nat \cup {NoID}]
    /\ known \in [Channels -> SUBSET Events]
    /\ seen \in [Channels -> SUBSET Events] /\ told \in [Channels -> SUBSET Events]
    /\ restarts \in 0..MaxRestarts

Init ==
    /\ BusInit
    /\ conn = [c \in Channels |-> "off"]
    /\ last = [c \in Channels |-> NoID] /\ since = [c \in Channels |-> NoID]
    /\ wire = [c \in Channels |-> <<>>]
    /\ walk = [c \in Channels |-> NoWalk]
    /\ restarts = 0
    /\ known = [c \in Channels |-> {}]
    /\ seen = [c \in Channels |-> {}] /\ told = [c \in Channels |-> {}]

(***************************** The live stream *****************************)

\* startLive: a new EventSource.
startLive(c) ==
    /\ conn[c] = "off"
    /\ conn' = [conn EXCEPT ![c] = "opening"]
    /\ walk' = [walk EXCEPT ![c] = NoWalk]
    /\ UNCHANGED <<busVars, last, since, wire, known, seen, told, restarts>>

\* CountEventsAfterTimestamp: the events that its query counts.
EventsAfter(c, t) == {e \in Stored \cap Selected[Filter[c]] : timestamp[e] > t}

\* eventsStreamHandler up to its loop.
Listen(c) ==
    /\ Subscribe(c)
    /\ known' = [known EXCEPT ![c] = Stored]
    /\ UNCHANGED wire

Count(c) ==
    LET counted == IF since[c] = NoID THEN {} ELSE EventsAfter(c, since[c])
    IN  /\ \/ /\ counted # {}
              /\ wire' = [wire EXCEPT ![c] = Append(@, [type |-> "missed", events |-> counted])]
              /\ UNCHANGED missing
           \/ \* nothing to count, or an error of the query, which tells the page nothing
              /\ missing' = [missing EXCEPT ![c] = @ \cup counted]
              /\ UNCHANGED wire
        /\ UNCHANGED <<subscribers, buffer, known>>

\* Mutant: the count first, then the subscription.
CountFirst(c) ==
    /\ \/ conn[c] = "opening" /\ Count(c) /\ conn' = [conn EXCEPT ![c] = "counting"]
       \/ conn[c] = "counting" /\ Listen(c) /\ conn' = [conn EXCEPT ![c] = "open"]
    /\ UNCHANGED <<timestamp, now, pub, last, since, seen, told, walk, restarts>>

eventsStreamHandler(c) ==
    /\ \/ conn[c] = "opening" /\ Listen(c) /\ conn' = [conn EXCEPT ![c] = "counting"]
       \/ conn[c] = "counting" /\ Count(c) /\ conn' = [conn EXCEPT ![c] = "open"]
    /\ UNCHANGED <<timestamp, now, pub, last, since, seen, told, walk, restarts>>

\* matchesStreamFilters: a status_changed message has no subject, and passes no filter.
matchesStreamFilters(msg, c) ==
    \/ Filter[c] = NoFilter
    \/ msg.type # "status_changed" /\ msg.event \in Streamed[Filter[c]]

\* The loop of eventsStreamHandler.
Forward(c) ==
    /\ conn[c] = "open" /\ buffer[c] # <<>>
    /\ buffer' = [buffer EXCEPT ![c] = Tail(@)]
    /\ wire' = [wire EXCEPT ![c] = IF matchesStreamFilters(Head(buffer[c]), c)
                                   THEN Append(@, Head(buffer[c])) ELSE @]
    /\ UNCHANGED <<timestamp, now, pub, subscribers, missing,
                   conn, last, since, known, seen, told, walk, restarts>>

\* The handlers of attachEventSourceHandlers.
Receive(c) ==
    /\ conn[c] \in Running /\ wire[c] # <<>>
    /\ wire' = [wire EXCEPT ![c] = Tail(@)]
    /\ LET msg == Head(wire[c])
       IN  IF msg.type = "missed"
           THEN /\ told' = [told EXCEPT ![c] = @ \cup msg.events]
                /\ UNCHANGED <<last, seen>>
           ELSE /\ last' = [last EXCEPT ![c] = msg.at]
                /\ seen' = [seen EXCEPT ![c] = IF msg.type = "created"
                                               THEN @ \cup {msg.event} ELSE @]
                /\ UNCHANGED told
    /\ UNCHANGED <<busVars, conn, since, known, walk, restarts>>

\* Mutant: without the deferred call of unsubscribe.
HangupSilently(c) ==
    /\ wire' = [wire EXCEPT ![c] = <<>>]
    /\ UNCHANGED <<timestamp, now, pub, subscribers, buffer, walk, restarts>>

\* The handler, if one runs, returns and unsubscribes.
Hangup(c) ==
    /\ IF c \in subscribers THEN Unsubscribe(c) ELSE UNCHANGED <<subscribers, buffer>>
    /\ wire' = [wire EXCEPT ![c] = <<>>]
    /\ UNCHANGED <<timestamp, now, pub, walk, restarts>>

Break(c) ==
    /\ conn[c] \in {"opening"} \cup Running
    /\ conn' = [conn EXCEPT ![c] = "lost"]
    /\ Hangup(c)
    /\ UNCHANGED <<missing, last, since, known, seen, told>>

\* The EventSource goes with all that it remembers; reconnectWithFilters then starts another.
stopLive(c) ==
    /\ conn[c] # "off"
    /\ conn' = [conn EXCEPT ![c] = "off"]
    /\ Hangup(c)
    /\ last' = [last EXCEPT ![c] = NoID] /\ since' = [since EXCEPT ![c] = NoID]
    /\ known' = [known EXCEPT ![c] = {}] /\ missing' = [missing EXCEPT ![c] = {}]
    /\ seen' = [seen EXCEPT ![c] = {}] /\ told' = [told EXCEPT ![c] = {}]

\* The browser asks again, with the id of the last message it has received; without a
\* session it is sent to the login page instead, and gives up.
Reconnect(c) ==
    /\ conn[c] = "lost"
    /\ \/ /\ conn' = [conn EXCEPT ![c] = "opening"]
          /\ since' = [since EXCEPT ![c] = last[c]]
       \/ /\ restarts > 0
          /\ conn' = [conn EXCEPT ![c] = "refused"]
          /\ UNCHANGED since
    /\ UNCHANGED <<busVars, last, wire, known, seen, told, walk, restarts>>

\* The process ends, by a signal or a crash, and another starts: connections, messages
\* and sessions are gone.
Restart ==
    /\ restarts < MaxRestarts
    /\ restarts' = restarts + 1
    /\ pub' = Idle
    /\ subscribers' = {}
    /\ buffer' = [c \in Channels |-> <<>>]
    /\ wire' = [c \in Channels |-> <<>>]
    /\ conn' = [c \in Channels |-> IF conn[c] \in {"opening"} \cup Running
                                   THEN "lost" ELSE conn[c]]
    /\ UNCHANGED <<timestamp, now, missing, last, since, known, seen, told, walk>>

(******************************** The list *********************************)

\* ORDER BY timestamp DESC: the order of equal timestamps is any.
NewestFirst(S) ==
    {rows \in SetToSeqs(S) : \A i \in DOMAIN rows, j \in DOMAIN rows :
                               i < j => timestamp[rows[i]] >= timestamp[rows[j]]}

\* LIMIT limit OFFSET offset.
Window(rows, limit, offset) ==
    SubSeq(rows, offset + 1, IF offset + limit < Len(rows) THEN offset + limit ELSE Len(rows))

\* Mutant: the query is not asked for the row that tells of a next page.
AskExact(rows, page) ==
    LET got == Window(rows, eventsPerPage, (page - 1) * eventsPerPage)
    IN  [rows |-> Window(got, eventsPerPage, 0), hasNext |-> Len(got) > eventsPerPage]

\* What eventsListHandler makes of the answer to its query.
Ask(rows, page) ==
    LET got == Window(rows, eventsPerPage + 1, (page - 1) * eventsPerPage)
    IN  [rows |-> Window(got, eventsPerPage, 0), hasNext |-> Len(got) > eventsPerPage]

ShowPage(c, w) ==
    \E rows \in NewestFirst(Stored \cap Selected[w.filter]) :
       LET answer == Ask(rows, w.page)
       IN  walk' = [walk EXCEPT ![c] = [w EXCEPT !.more = answer.hasNext,
                                                 !.read = w.read \cup ToSet(answer.rows)]]

\* The link to a page, as the server reads it: the filter is put into it as it is, and
\* one with a & + # or % is read as another (the page number stands before it).
filterQueryString(w, page) == [w EXCEPT !.page = page, !.filter = Link[w.filter]]

\* Previous and Next, where there is such a page.
eventsTableAndPagination(w) ==
    {filterQueryString(w, p) : p \in {w.page - 1} \cap (1..w.page)}
    \cup {filterQueryString(w, w.page + 1) : more \in {TRUE} \cap {w.more}}

\* eventsListHandler: page 1 with what the form holds, or the page behind a link.
eventsListHandler(c) ==
    /\ conn[c] = "off"
    /\ \E w \in {[NoWalk EXCEPT !.page = 1, !.asked = f, !.filter = f, !.base = Stored] :
                    f \in Filters} \cup eventsTableAndPagination(walk[c]) :
          ShowPage(c, w)
    /\ UNCHANGED <<busVars, stream, restarts>>

(*************************** The specification *****************************)

Outside == UNCHANGED <<stream, walk, restarts>>

Next ==
    \/ \E p \in Publishers : (Happen(p) \/ Publish(p)) /\ Outside
    \/ \E c \in Channels :
          \/ startLive(c) \/ eventsStreamHandler(c) \/ Forward(c) \/ Receive(c)
          \/ Break(c) \/ stopLive(c) \/ Reconnect(c) \/ eventsListHandler(c)
    \/ Restart

\* A goroutine that has called Publish goes on.  Nothing is asked of the pages, of their
\* connections or of the handlers that serve them.
Spec == Init /\ [][Next]_vars
             /\ \A p \in Publishers : WF_vars(Publish(p) /\ Outside)

(******************************* Properties ********************************)

\* Publish returns whatever the pages and their connections do: a page that stops
\* reading holds up no worker and no request (tasks/prd-live-event-stream.md FR-2,
\* app/eventbus.go:80).
NeverHeldUp == \A p \in Publishers : pub[p] # Nobody ~> pub[p] = Nobody

\* The created message of e is on its way to c, from its handler or from the server.
Coming(c, e) ==
    \/ \E p \in Publishers : pub[p] # Nobody /\ pub[p].msg.type = "created"
                             /\ pub[p].msg.event = e
    \/ \E i \in DOMAIN buffer[c] : buffer[c][i].type = "created" /\ buffer[c][i].event = e
    \/ \E i \in DOMAIN wire[c] :
          \/ wire[c][i].type = "created" /\ wire[c][i].event = e
          \/ wire[c][i].type = "missed" /\ e \in wire[c][i].events

Accounted(c, e) == e \in seen[c] \cup told[c] \cup missing[c] \/ Coming(c, e)

\* The stream owes its page the message of e, stored since the connection subscribed.
Streams(c, e) == e \in Streamed[Filter[c]] \ known[c]

\* The stream owes its page a count with e, stored before, and later than the message
\* that the page has given as the last one it had.
Counts(c, e) ==
    e \in Selected[Filter[c]] \cap known[c] /\ since[c] # NoID /\ timestamp[e] > since[c]

\* An open stream passes over no event.  One that is stored before its channel is in the
\* bus and is later than the last message the page had is counted for it, though stored
\* while the page was away, or while another process ran that ended with the message
\* unsent; one that is stored from then on has its message sent, the time before the
\* count included (views/events.go:505-538).  Either has arrived or is on the way: only
\* a full buffer or an error of the query of this very connection may cost the page one.
\* Each is held to its own filter, that of the query or that of the stream, and a page
\* that comes back without having had a message is owed nothing of the time between.
NoGap ==
    \A c \in Channels : conn[c] = "open" =>
        \A e \in Stored : Streams(c, e) \/ Counts(c, e) => Accounted(c, e)

\* Another event that the queries select with f has the timestamp of e.
Tied(e, f) == \E d \in Stored \cap Selected[f] : d # e /\ timestamp[d] = timestamp[e]

\* Who reads the list to its last page has read every event that was stored, and selected
\* by their filter, when they asked for the first page, though others are inserted
\* meanwhile, with old timestamps too: but for an event that shares its timestamp with
\* another of the list, and if the links carry the filter (views/events.go:69-135).
PagesCover ==
    \A c \in Channels :
        LET w == walk[c]
        IN  w.page > 0 /\ ~w.more /\ Link[w.asked] = w.asked =>
               \A e \in w.base \cap Selected[w.asked] : e \in w.read \/ Tied(e, w.asked)
=============================================================================
