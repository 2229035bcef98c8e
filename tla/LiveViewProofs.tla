---------------------------- MODULE LiveViewProofs ----------------------------
(***************************************************************************)
(* Safety of the event bus, the live stream and the list behind the events *)
(* page, for all values of the constants.                                  *)
(*                                                                         *)
(* NoGap: what a publisher has left to serve, a buffer and a connection    *)
(* hold accounts for every event from the step in which it is inserted, or *)
(* counted (AllHeard).  PagesCover: the rank of an event in the list only  *)
(* grows, so that what an insertion moves has been read (ReadSoFar).       *)
(***************************************************************************)
EXTENDS LiveView, FiniteSetTheorems, SequenceTheorems, TLAPS

USE DEF bus, busVars, stream, vars

-----------------------------------------------------------------------------
(* The invariants.                                                         *)

\* What the server writes to a connection.
Written == Messages \cup [type : {"missed"}, events : SUBSET Events]

StreamTypes == TypeOK /\ wire \in [Channels -> Seq(Written)]

\* What a connection found stored stays stored.
KnownStored == \A c \in Channels : known[c] \subseteq Stored

Created(m, e) == m.type = "created" /\ m.event = e

\* The created message of e is still to be put into the buffer of c.
InHand(c, e) ==
    \E p \in Publishers : /\ pub[p] # Nobody /\ Created(pub[p].msg, e)
                          /\ pub[p].step = "lock" \/ c \in pub[p].left

Buffered(c, e) == \E i \in DOMAIN buffer[c] : Created(buffer[c][i], e)

Tells(m, e) == Created(m, e) \/ (m.type = "missed" /\ e \in m.events)

OnWire(c, e) == \E i \in DOMAIN wire[c] : Tells(wire[c][i], e)

Learned(c, e) == e \in seen[c] \cup told[c] \cup missing[c] \/ OnWire(c, e)

Heard(c, e) == Learned(c, e) \/ InHand(c, e) \/ Buffered(c, e)

\* What the handler of c has to send, and what its count has had to tell.
ToSend(c, e) == conn[c] \in Running /\ e \in Stored /\ Streams(c, e)
ToTell(c, e) == conn[c] = "open" /\ e \in Stored /\ Counts(c, e)

\* A message that is still in the buffer makes up for no count: the filter of the stream
\* may stop it.
Settled(c, e) == (ToSend(c, e) => Heard(c, e)) /\ (ToTell(c, e) => Learned(c, e))

AllHeard == \A c \in Channels, e \in Events : Settled(c, e)

\* The pages of a reading, and the place of an event in the list.
Walks == [page : Nat, asked : Filters, filter : Filters, more : BOOLEAN,
          base : SUBSET Events, read : SUBSET Events]

Ahead(e, F) == {f \in Stored \cap F : timestamp[f] >= timestamp[e]}

\* The first pages, up to the present one, have been read as they are now.
Reads(w) ==
    /\ w.base \subseteq Stored /\ (w.page > 0 \/ ~w.more)
    /\ w.page > 0 /\ Link[w.asked] = w.asked =>
          /\ w.filter = w.asked
          /\ \A e \in w.base \cap Selected[w.asked] :
                \/ Tied(e, w.asked) \/ e \in w.read
                \/ w.more /\ ~(Cardinality(Ahead(e, Selected[w.asked])) <= w.page * eventsPerPage)

ReadSoFar ==
    /\ IsFiniteSet(Stored) /\ walk \in [Channels -> Walks]
    /\ \A c \in Channels : Reads(walk[c])

Inv == StreamTypes /\ KnownStored /\ AllHeard /\ ReadSoFar

-----------------------------------------------------------------------------
(* Sequences.                                                              *)

LEMMA AppendHas ==
    ASSUME NEW M, NEW s \in Seq(M), NEW m \in M
    PROVE  /\ Append(s, m) \in Seq(M) /\ Len(Append(s, m)) = Len(s) + 1
           /\ \A i \in DOMAIN s : i \in DOMAIN Append(s, m) /\ Append(s, m)[i] = s[i]
           /\ \E i \in DOMAIN Append(s, m) : Append(s, m)[i] = m
<1>1. /\ Append(s, m) \in Seq(M) /\ Len(Append(s, m)) = Len(s) + 1
      /\ \A i \in DOMAIN s : i \in DOMAIN Append(s, m) /\ Append(s, m)[i] = s[i]
  OBVIOUS
<1>2. Len(s) + 1 \in DOMAIN Append(s, m) /\ Append(s, m)[Len(s) + 1] = m
  OBVIOUS
<1> QED
  BY <1>1, <1>2

LEMMA TailHas ==
    ASSUME NEW M, NEW s \in Seq(M), s # <<>>
    PROVE  /\ Head(s) \in M /\ Tail(s) \in Seq(M) /\ Len(Tail(s)) < Len(s)
           /\ \A i \in DOMAIN s :
                 s[i] = Head(s) \/ \E j \in DOMAIN Tail(s) : Tail(s)[j] = s[i]
<1>1. /\ Head(s) \in M /\ Tail(s) \in Seq(M) /\ Len(Tail(s)) = Len(s) - 1 /\ Len(s) \in Nat
      /\ \A j \in 1..Len(s) - 1 : Tail(s)[j] = s[j + 1]
  BY HeadTailProperties
<1>2. ASSUME NEW i \in DOMAIN s, i # 1
      PROVE  \E j \in DOMAIN Tail(s) : Tail(s)[j] = s[i]
  <2>1. i - 1 \in 1..Len(s) - 1 /\ (i - 1) + 1 = i
    BY <1>2
  <2> QED
    BY <1>1, <2>1
<1> QED
  BY <1>1, <1>2

-----------------------------------------------------------------------------
(* Type correctness.                                                       *)

\* A message made by p, whose event has a row by now.
LEMMA MakeTypes ==
    ASSUME StreamTypes, NEW p \in Publishers, NEW type \in Types, NEW e \in Events,
           NEW t \in Nat, Make(p, type, e, t), Outside,
           timestamp' = timestamp \/ timestamp' = [timestamp EXCEPT ![e] = t],
           timestamp'[e] # NotStored
    PROVE  /\ StreamTypes' /\ Stored \subseteq Stored'
           /\ pub'[p] # Nobody /\ pub'[p].msg = [type |-> type, event |-> e, at |-> t]
           /\ pub'[p].step = "lock" /\ pub[p] = Nobody
           /\ \A q \in Publishers \ {p} : pub'[q] = pub[q]
<1> DEFINE n == [msg |-> [type |-> type, event |-> e, at |-> t], step |-> "lock", left |-> {}]
<1>1. /\ pub[p] = Nobody /\ now < MaxMessages /\ now' = now + 1
      /\ pub' = [pub EXCEPT ![p] = n] /\ UNCHANGED <<bus, stream, walk, restarts>>
  BY DEF Make, Outside
<1>2. n \in Publications /\ n # Nobody /\ n.msg = [type |-> type, event |-> e, at |-> t]
      /\ n.step = "lock" /\ n.left = {} /\ n.msg.event = e
  BY BusAssumption DEF Publications, Messages
<1> HIDE DEF n
<1>3. BusTypeOK /\ MaxMessages \in Nat /\ NotStored \notin Nat
  BY BusAssumption DEF StreamTypes, TypeOK
<1>4. /\ pub' \in [Publishers -> Publications \cup {Nobody}] /\ pub'[p] = n
      /\ \A q \in Publishers \ {p} : pub'[q] = pub[q]
  BY <1>1, <1>2, <1>3 DEF BusTypeOK
<1>5. /\ timestamp' \in [Events -> Nat \cup {NotStored}]
      /\ Stored \subseteq Stored' /\ e \in Stored'
  <2>1. CASE timestamp' = timestamp
    BY <1>3, <2>1 DEF BusTypeOK, Stored
  <2>2. CASE timestamp' = [timestamp EXCEPT ![e] = t]
    BY <1>3, <2>2 DEF BusTypeOK, Stored
  <2> QED
    BY <2>1, <2>2
<1>6. now' \in 0..MaxMessages
  BY <1>1, <1>3 DEF BusTypeOK
<1>7. ASSUME NEW q \in Publishers, pub'[q] # Nobody
      PROVE  /\ pub'[q].msg.event \in Stored' /\ pub'[q].left \subseteq subscribers'
             /\ pub'[q].step = "send" <=> pub'[q].left # {}
  BY <1>1, <1>2, <1>3, <1>4, <1>5, <1>7 DEF BusTypeOK
<1>8. BusTypeOK'
  BY <1>1, <1>3, <1>4, <1>5, <1>6, <1>7 DEF BusTypeOK
<1> QED
  BY <1>1, <1>2, <1>4, <1>5, <1>8 DEF StreamTypes, TypeOK

\* What the publishers do is to make messages of events that have a row, or to have one
\* inserted first.
LEMMA HappenIs ==
    ASSUME StreamTypes, NEW p \in Publishers, Happen(p)
    PROVE  \E type \in Types, e \in Events, t \in Nat :
              /\ Make(p, type, e, t) /\ timestamp'[e] # NotStored
              /\ \/ timestamp' = timestamp
                 \/ /\ timestamp' = [timestamp EXCEPT ![e] = t]
                    /\ e \notin Stored /\ type = "created"
<1>1. /\ timestamp \in [Events -> Nat \cup {NotStored}] /\ now \in Nat
      /\ Supplied \subseteq Nat /\ NotStored \notin Nat /\ now + 1 \in Nat
  BY BusAssumption DEF StreamTypes, TypeOK, BusTypeOK
<1>2. ASSUME NEW e \in Events, PublishCreatedEvent(p, e)
      PROVE  \E t \in Nat : /\ Make(p, "created", e, t) /\ timestamp'[e] # NotStored
                            /\ timestamp' = [timestamp EXCEPT ![e] = t] /\ e \notin Stored
  BY <1>1, <1>2 DEF PublishCreatedEvent
<1>3. ASSUME NEW e \in Events, NEW type \in Types, PublishProgress(p, e, type)
      PROVE  /\ Make(p, type, e, now + 1) /\ timestamp'[e] # NotStored
             /\ timestamp' = timestamp
  BY <1>3 DEF PublishProgress, Stored
<1>4. "created" \in Types
  BY DEF Types
<1> QED
  BY <1>1, <1>2, <1>3, <1>4 DEF Happen

\* Publish begins with every channel there is, and ends after the last one.
LEMMA LockTypes ==
    ASSUME StreamTypes, NEW p \in Publishers, Lock(p), Outside
    PROVE  /\ StreamTypes'
           /\ \A q \in Publishers \ {p} : pub'[q] = pub[q]
           /\ \/ pub'[p] = Nobody /\ subscribers = {}
              \/ pub'[p] # Nobody /\ pub'[p].msg = pub[p].msg /\ pub'[p].left = subscribers
<1>1. /\ BusTypeOK /\ pub[p] # Nobody /\ pub[p].step = "lock" /\ pub[p] \in Publications
      /\ Nobody \notin Publications /\ subscribers \in SUBSET Channels
  BY BusAssumption DEF Lock, StreamTypes, TypeOK, BusTypeOK
<1> DEFINE n == [pub[p] EXCEPT !.step = "send", !.left = subscribers]
<1>2. n \in Publications /\ n.msg = pub[p].msg /\ n.step = "send" /\ n.left = subscribers
  BY <1>1 DEF Publications
<1> HIDE DEF n
<1>3. pub' = [pub EXCEPT ![p] = IF subscribers = {} THEN Nobody ELSE n]
  BY DEF Lock, n
<1>4. UNCHANGED <<timestamp, now, bus, stream, walk, restarts>>
  BY DEF Lock, Outside
<1>5. /\ pub' \in [Publishers -> Publications \cup {Nobody}]
      /\ \A q \in Publishers \ {p} : pub'[q] = pub[q]
      /\ pub'[p] = IF subscribers = {} THEN Nobody ELSE n
  BY <1>1, <1>2, <1>3 DEF BusTypeOK
<1>6. ASSUME NEW q \in Publishers, pub'[q] # Nobody
      PROVE  /\ pub'[q].msg.event \in Stored /\ pub'[q].left \subseteq subscribers
             /\ pub'[q].step = "send" <=> pub'[q].left # {}
  BY <1>1, <1>2, <1>5, <1>6 DEF BusTypeOK
<1>7. BusTypeOK'
  BY <1>1, <1>4, <1>5, <1>6 DEF BusTypeOK, Stored
<1> QED
  BY <1>1, <1>2, <1>4, <1>5, <1>7 DEF StreamTypes, TypeOK

LEMMA SendTypes ==
    ASSUME StreamTypes, NEW p \in Publishers, NEW c \in Channels, Send(p, c), Outside
    PROVE  /\ StreamTypes'
           /\ \A q \in Publishers \ {p} : pub'[q] = pub[q]
           /\ \/ pub'[p] = Nobody /\ pub[p].left = {c}
              \/ /\ pub'[p] # Nobody /\ pub'[p].msg = pub[p].msg
                 /\ pub'[p].left = pub[p].left \ {c}
<1>1. /\ BusTypeOK /\ pub[p] # Nobody /\ pub[p] \in Publications /\ c \in pub[p].left
      /\ Nobody \notin Publications /\ pub[p].left \subseteq subscribers
      /\ pub[p].msg \in Messages /\ pub[p].step = "send"
      /\ buffer \in [Channels -> Seq(Messages)] /\ BufferSize \in Nat
  BY BusAssumption DEF Send, StreamTypes, TypeOK, BusTypeOK, Publications
<1> DEFINE n == [pub[p] EXCEPT !.left = pub[p].left \ {c}]
<1>2. n \in Publications /\ n.msg = pub[p].msg /\ n.step = "send" /\ n.left = pub[p].left \ {c}
  BY <1>1 DEF Publications
<1> HIDE DEF n
<1>3. pub' = [pub EXCEPT ![p] = IF pub[p].left = {c} THEN Nobody ELSE n]
  <2>1. Served(p, c) /\ pub \in [Publishers -> Publications \cup {Nobody}]
    BY <1>1 DEF Send, BusTypeOK
  <2> QED
    BY <2>1 DEF Served, n
<1>4. UNCHANGED <<timestamp, now, subscribers, stream, walk, restarts>>
  BY DEF Send, Outside
<1>5. /\ pub' \in [Publishers -> Publications \cup {Nobody}]
      /\ \A q \in Publishers \ {p} : pub'[q] = pub[q]
      /\ pub'[p] = IF pub[p].left = {c} THEN Nobody ELSE n
  BY <1>1, <1>2, <1>3 DEF BusTypeOK
<1>6. ASSUME NEW q \in Publishers, pub'[q] # Nobody
      PROVE  /\ pub'[q].msg.event \in Stored /\ pub'[q].left \subseteq subscribers
             /\ pub'[q].step = "send" <=> pub'[q].left # {}
  BY <1>1, <1>2, <1>5, <1>6 DEF BusTypeOK
<1>7. /\ buffer' \in [Channels -> Seq(Messages)]
      /\ \A d \in Channels : Len(buffer'[d]) <= BufferSize
      /\ missing' \in [Channels -> SUBSET Events]
  <2>1. CASE UNCHANGED buffer
    <3>1. pub[p].msg.event \in Events
      BY <1>1 DEF Messages
    <3> QED
      BY <1>1, <2>1, <3>1 DEF Send, BusTypeOK
  <2>2. CASE /\ Len(buffer[c]) < BufferSize /\ UNCHANGED missing
             /\ buffer' = [buffer EXCEPT ![c] = Append(buffer[c], pub[p].msg)]
    <3>1. /\ Append(buffer[c], pub[p].msg) \in Seq(Messages)
          /\ Len(Append(buffer[c], pub[p].msg)) = Len(buffer[c]) + 1
      BY <1>1, AppendHas
    <3>2. Len(buffer[c]) \in Nat
      BY <1>1
    <3> QED
      BY <1>1, <2>2, <3>1, <3>2 DEF BusTypeOK
  <2> QED
    BY <2>1, <2>2 DEF Send
<1>8. BusTypeOK'
  BY <1>1, <1>4, <1>5, <1>6, <1>7 DEF BusTypeOK, Stored
<1> QED
  BY <1>1, <1>2, <1>4, <1>5, <1>8 DEF StreamTypes, TypeOK

\* Whoever changes the channels in the bus finds no publisher in the middle of them.
LEMMA NobodySends ==
    ASSUME StreamTypes, Lockable, NEW p \in Publishers, pub[p] # Nobody
    PROVE  pub[p].left = {} /\ pub[p].step = "lock"
  BY DEF StreamTypes, TypeOK, BusTypeOK, Lockable

\* Emptying a buffer or a connection keeps the types.
LEMMA Emptied ==
    ASSUME NEW M, NEW f \in [Channels -> Seq(M)], NEW c \in Channels
    PROVE  /\ [f EXCEPT ![c] = <<>>] \in [Channels -> Seq(M)]
           /\ [f EXCEPT ![c] = <<>>][c] = <<>>
           /\ \A d \in Channels \ {c} : [f EXCEPT ![c] = <<>>][d] = f[d]
  OBVIOUS

LEMMA BusWithout ==
    ASSUME StreamTypes, NEW c \in Channels,
           \/ Subscribe(c) \/ Unsubscribe(c) \/ UNCHANGED <<subscribers, buffer>>,
           UNCHANGED <<timestamp, now, pub>>, missing' \in [Channels -> SUBSET Events]
    PROVE  BusTypeOK'
<1>1. BusTypeOK /\ BufferSize \in Nat /\ Len(<<>>) = 0
  BY BusAssumption DEF StreamTypes, TypeOK
<1>2. CASE UNCHANGED <<subscribers, buffer>>
  BY <1>1, <1>2 DEF BusTypeOK, Stored
<1>3. CASE Subscribe(c) \/ Unsubscribe(c)
  <2>1. Lockable /\ buffer' = [buffer EXCEPT ![c] = <<>>] /\ subscribers' \subseteq Channels
    BY <1>1, <1>3 DEF Subscribe, Unsubscribe, BusTypeOK
  <2>2. /\ buffer' \in [Channels -> Seq(Messages)] /\ buffer'[c] = <<>>
        /\ \A d \in Channels \ {c} : buffer'[d] = buffer[d]
    BY <1>1, <2>1, Emptied DEF BusTypeOK
  <2>3. \A d \in Channels : Len(buffer'[d]) <= BufferSize
    BY <1>1, <2>2 DEF BusTypeOK
  <2>4. \A p \in Publishers : pub[p] # Nobody => pub[p].left = {} /\ pub[p].step = "lock"
    BY <2>1, NobodySends
  <2>5. \A p \in Publishers : pub'[p] # Nobody =>
          /\ pub'[p].msg.event \in Stored' /\ pub'[p].left \subseteq subscribers'
          /\ pub'[p].step = "send" <=> pub'[p].left # {}
    BY <1>1, <2>4 DEF BusTypeOK, Stored
  <2> QED
    BY <1>1, <2>1, <2>2, <2>3, <2>5 DEF BusTypeOK
<1> QED
  BY <1>2, <1>3

\* A connection ends: its channel leaves the bus, and what was written is lost.
LEMMA HangupTypes ==
    ASSUME StreamTypes, NEW c \in Channels, Hangup(c), missing' \in [Channels -> SUBSET Events]
    PROVE  /\ BusTypeOK' /\ subscribers' = subscribers \ {c}
           /\ wire' \in [Channels -> Seq(Written)]
           /\ \A d \in Channels \ {c} : buffer'[d] = buffer[d] /\ wire'[d] = wire[d]
           /\ UNCHANGED <<timestamp, now, pub, walk, restarts>>
<1>1. wire' = [wire EXCEPT ![c] = <<>>] /\ UNCHANGED <<timestamp, now, pub, walk, restarts>>
  BY DEF Hangup
<1>2. wire \in [Channels -> Seq(Written)] /\ buffer \in [Channels -> Seq(Messages)]
  BY DEF StreamTypes, TypeOK, BusTypeOK
<1>3. wire' \in [Channels -> Seq(Written)] /\ \A d \in Channels \ {c} : wire'[d] = wire[d]
  BY <1>1, <1>2, Emptied
<1>4. Unsubscribe(c) \/ (UNCHANGED <<subscribers, buffer>> /\ c \notin subscribers)
  BY DEF Hangup
<1>5. /\ subscribers' = subscribers \ {c}
      /\ \A d \in Channels \ {c} : buffer'[d] = buffer[d]
  BY <1>2, <1>4, Emptied DEF Unsubscribe
<1>6. BusTypeOK'
  BY <1>1, <1>4, BusWithout
<1> QED
  BY <1>1, <1>3, <1>5, <1>6

\* The missed message counts events.
LEMMA MissedIsWritten ==
    ASSUME NEW E \in SUBSET Events
    PROVE  /\ [type |-> "missed", events |-> E] \in Written
           /\ \A e \in E : Tells([type |-> "missed", events |-> E], e)
  BY DEF Written, Tells

\* What a count adds to the connection or to the history tells of every event counted.
LEMMA CountIs ==
    ASSUME StreamTypes, NEW c \in Channels, Count(c), since[c] # NoID
    PROVE  \E E \in SUBSET Events :
              /\ \A e \in Stored \cap Selected[Filter[c]] : timestamp[e] > since[c] => e \in E
              /\ \/ UNCHANGED missing
                    /\ wire' = [wire EXCEPT ![c] = Append(@, [type |-> "missed", events |-> E])]
                 \/ missing' = [missing EXCEPT ![c] = @ \cup E] /\ UNCHANGED wire
<1> DEFINE E == EventsAfter(c, since[c])
<1>1. E \in SUBSET Events
  BY DEF EventsAfter, Stored
<1>2. \A e \in Stored \cap Selected[Filter[c]] : timestamp[e] > since[c] => e \in E
  BY DEF EventsAfter
<1>3. \/ UNCHANGED missing
         /\ wire' = [wire EXCEPT ![c] = Append(@, [type |-> "missed", events |-> E])]
      \/ missing' = [missing EXCEPT ![c] = @ \cup E] /\ UNCHANGED wire
  BY DEF Count
<1> QED
  BY <1>1, <1>2, <1>3

\* Types are kept by the pages and their connections.
LEMMA PageTypes ==
    ASSUME StreamTypes, NEW c \in Channels,
           \/ startLive(c) \/ eventsStreamHandler(c) \/ Forward(c) \/ Receive(c)
           \/ Break(c) \/ stopLive(c) \/ Reconnect(c) \/ eventsListHandler(c)
    PROVE  StreamTypes'
<1> DEFINE States == {"off", "opening", "counting", "open", "lost", "refused"}
           Rest == /\ conn' \in [Channels -> States]
                   /\ \A d \in Channels : d \in subscribers' <=> conn'[d] \in Running
                   /\ last' \in [Channels -> Nat \cup {NoID}] /\ since' \in [Channels -> Nat \cup {NoID}]
                   /\ known' \in [Channels -> SUBSET Events]
                   /\ seen' \in [Channels -> SUBSET Events] /\ told' \in [Channels -> SUBSET Events]
                   /\ restarts' \in 0..MaxRestarts
<1>1. /\ BusTypeOK /\ conn \in [Channels -> States]
      /\ \A d \in Channels : d \in subscribers <=> conn[d] \in Running
      /\ last \in [Channels -> Nat \cup {NoID}] /\ since \in [Channels -> Nat \cup {NoID}]
      /\ known \in [Channels -> SUBSET Events]
      /\ seen \in [Channels -> SUBSET Events] /\ told \in [Channels -> SUBSET Events]
      /\ restarts \in 0..MaxRestarts
      /\ wire \in [Channels -> Seq(Written)] /\ missing \in [Channels -> SUBSET Events]
      /\ subscribers \subseteq Channels /\ buffer \in [Channels -> Seq(Messages)]
      /\ Running = {"counting", "open"}
  BY DEF StreamTypes, TypeOK, BusTypeOK, Running
<1>2. CASE startLive(c)
  <2>1. Rest
    BY <1>1, <1>2 DEF startLive
  <2> QED
    BY <1>1, <1>2, <2>1 DEF startLive, StreamTypes, TypeOK, BusTypeOK, Stored
<1>3. CASE Reconnect(c)
  <2>1. Rest
    BY <1>1, <1>3 DEF Reconnect
  <2> QED
    BY <1>1, <1>3, <2>1 DEF Reconnect, StreamTypes, TypeOK, BusTypeOK, Stored
<1>4. CASE eventsListHandler(c)
  BY <1>1, <1>4 DEF eventsListHandler, StreamTypes, TypeOK, BusTypeOK, Stored
<1>5. CASE Break(c)
  <2>1. /\ Hangup(c) /\ conn' = [conn EXCEPT ![c] = "lost"]
        /\ UNCHANGED <<missing, last, since, known, seen, told>>
    BY <1>5 DEF Break
  <2>2. BusTypeOK' /\ subscribers' = subscribers \ {c} /\ wire' \in [Channels -> Seq(Written)]
        /\ restarts' = restarts
    BY <1>1, <2>1, HangupTypes
  <2>3. Rest
    BY <1>1, <2>1, <2>2
  <2> QED
    BY <2>2, <2>3 DEF StreamTypes, TypeOK
<1>6. CASE stopLive(c)
  <2>1. /\ Hangup(c) /\ conn' = [conn EXCEPT ![c] = "off"]
        /\ last' = [last EXCEPT ![c] = NoID] /\ since' = [since EXCEPT ![c] = NoID]
        /\ known' = [known EXCEPT ![c] = {}] /\ missing' = [missing EXCEPT ![c] = {}]
        /\ seen' = [seen EXCEPT ![c] = {}] /\ told' = [told EXCEPT ![c] = {}]
    BY <1>6 DEF stopLive
  <2>2. missing' \in [Channels -> SUBSET Events]
    BY <1>1, <2>1
  <2>3. BusTypeOK' /\ subscribers' = subscribers \ {c} /\ wire' \in [Channels -> Seq(Written)]
        /\ restarts' = restarts
    BY <2>1, <2>2, HangupTypes
  <2>4. Rest
    BY <1>1, <2>1, <2>3
  <2> QED
    BY <2>3, <2>4 DEF StreamTypes, TypeOK
<1>7. CASE conn[c] = "opening" /\ eventsStreamHandler(c)
  <2>1. /\ Subscribe(c) /\ conn' = [conn EXCEPT ![c] = "counting"]
        /\ known' = [known EXCEPT ![c] = Stored]
        /\ UNCHANGED <<wire, timestamp, now, pub, last, since, seen, told, restarts>>
    BY <1>7 DEF eventsStreamHandler, Listen
  <2>2. BusTypeOK' /\ subscribers' = subscribers \cup {c}
    <3>1. missing' \in [Channels -> SUBSET Events] /\ subscribers' = subscribers \cup {c}
      BY <1>1, <2>1 DEF Subscribe
    <3> QED
      BY <2>1, <3>1, BusWithout
  <2>3. Rest
    BY <1>1, <2>1, <2>2 DEF Stored
  <2> QED
    BY <1>1, <2>1, <2>2, <2>3 DEF StreamTypes, TypeOK
<1>8. CASE conn[c] = "counting" /\ eventsStreamHandler(c)
  <2>1. /\ Count(c) /\ conn' = [conn EXCEPT ![c] = "open"]
        /\ UNCHANGED <<subscribers, buffer, known, timestamp, now, pub, last, since, seen, told, restarts>>
    BY <1>8 DEF eventsStreamHandler, Count
  <2>2. wire' \in [Channels -> Seq(Written)] /\ missing' \in [Channels -> SUBSET Events]
    <3>1. CASE since[c] = NoID
      BY <1>1, <2>1, <3>1 DEF Count
    <3>2. CASE since[c] # NoID
      <4>1. PICK E \in SUBSET Events :
               \/ UNCHANGED missing
                  /\ wire' = [wire EXCEPT ![c] = Append(@, [type |-> "missed", events |-> E])]
               \/ missing' = [missing EXCEPT ![c] = @ \cup E] /\ UNCHANGED wire
        BY <2>1, <3>2, CountIs
      <4>2. Append(wire[c], [type |-> "missed", events |-> E]) \in Seq(Written)
        BY <1>1, MissedIsWritten, AppendHas
      <4> QED
        BY <1>1, <4>1, <4>2
    <3> QED
      BY <3>1, <3>2
  <2>3. BusTypeOK'
    BY <2>1, <2>2, BusWithout
  <2>4. Rest
    BY <1>1, <1>8, <2>1
  <2> QED
    BY <2>2, <2>3, <2>4 DEF StreamTypes, TypeOK
<1>9. CASE Forward(c)
  <2>1. /\ conn[c] = "open" /\ buffer[c] # <<>> /\ buffer' = [buffer EXCEPT ![c] = Tail(@)]
        /\ \/ UNCHANGED wire \/ wire' = [wire EXCEPT ![c] = Append(@, Head(buffer[c]))]
        /\ UNCHANGED <<timestamp, now, pub, subscribers, missing, conn, last, since, known, seen,
                       told, restarts>>
    BY <1>1, <1>9 DEF Forward
  <2>2. Head(buffer[c]) \in Messages /\ Tail(buffer[c]) \in Seq(Messages)
        /\ Len(Tail(buffer[c])) < Len(buffer[c])
    BY <1>1, <2>1, TailHas
  <2>3. wire' \in [Channels -> Seq(Written)]
    <3>1. Head(buffer[c]) \in Written
      BY <2>2 DEF Written
    <3>2. Append(wire[c], Head(buffer[c])) \in Seq(Written)
      BY <1>1, <3>1, AppendHas
    <3> QED
      BY <1>1, <2>1, <3>2
  <2>4. /\ buffer' \in [Channels -> Seq(Messages)]
        /\ \A d \in Channels : Len(buffer'[d]) <= BufferSize
    <3>1. Len(buffer[c]) \in Nat /\ Len(Tail(buffer[c])) \in Nat /\ BufferSize \in Nat
      BY <1>1, <2>2, BusAssumption
    <3> QED
      BY <1>1, <2>1, <2>2, <3>1 DEF BusTypeOK
  <2>5. BusTypeOK'
    BY <1>1, <2>1, <2>4 DEF BusTypeOK, Stored
  <2>6. Rest
    BY <1>1, <2>1
  <2> QED
    BY <2>3, <2>5, <2>6 DEF StreamTypes, TypeOK
<1>10. CASE Receive(c)
  <2>1. /\ wire[c] # <<>> /\ wire' = [wire EXCEPT ![c] = Tail(@)]
        /\ UNCHANGED <<busVars, conn, since, known, restarts>>
    BY <1>10 DEF Receive
  <2>2. Head(wire[c]) \in Written /\ Tail(wire[c]) \in Seq(Written)
    BY <1>1, <2>1, TailHas
  <2>3. /\ last' \in [Channels -> Nat \cup {NoID}]
        /\ seen' \in [Channels -> SUBSET Events] /\ told' \in [Channels -> SUBSET Events]
    <3>1. CASE Head(wire[c]).type = "missed"
      <4>1. Head(wire[c]).events \in SUBSET Events
        BY <2>2, <3>1 DEF Written, Messages, Types
      <4>2. /\ told' = [told EXCEPT ![c] = @ \cup Head(wire[c]).events]
            /\ UNCHANGED <<last, seen>>
        BY <1>10, <3>1 DEF Receive
      <4> QED
        BY <1>1, <4>1, <4>2
    <3>2. CASE Head(wire[c]).type # "missed"
      <4>1. Head(wire[c]).at \in Nat /\ Head(wire[c]).event \in Events
        BY <2>2, <3>2 DEF Written, Messages, Types
      <4>2. /\ last' = [last EXCEPT ![c] = Head(wire[c]).at] /\ UNCHANGED told
            /\ \/ UNCHANGED seen
               \/ seen' = [seen EXCEPT ![c] = @ \cup {Head(wire[c]).event}]
        BY <1>1, <1>10, <3>2 DEF Receive
      <4>3. last' \in [Channels -> Nat \cup {NoID}]
        BY <1>1, <4>1, <4>2
      <4>4. seen' \in [Channels -> SUBSET Events]
        <5>1. PICK e \in Events : e = Head(wire[c]).event
          BY <4>1
        <5>2. UNCHANGED seen \/ seen' = [seen EXCEPT ![c] = seen[c] \cup {e}]
          BY <4>2, <5>1
        <5>3. seen[c] \cup {e} \in SUBSET Events
          BY <1>1
        <5> QED
          BY <1>1, <5>2, <5>3
      <4> QED
        BY <1>1, <4>2, <4>3, <4>4
    <3> QED
      BY <3>1, <3>2
  <2>4. wire' \in [Channels -> Seq(Written)]
    BY <1>1, <2>1, <2>2
  <2>5. BusTypeOK'
    BY <1>1, <2>1 DEF BusTypeOK, Stored
  <2> QED
    BY <1>1, <2>1, <2>3, <2>4, <2>5 DEF StreamTypes, TypeOK
<1> QED
  BY <1>2, <1>3, <1>4, <1>5, <1>6, <1>7, <1>8, <1>9, <1>10 DEF eventsStreamHandler

LEMMA RestartTypes ==
    ASSUME StreamTypes, Restart
    PROVE  StreamTypes'
<1>1. /\ pub' = [p \in Publishers |-> Nobody] /\ subscribers' = {}
      /\ buffer' = [c \in Channels |-> <<>>] /\ wire' = [c \in Channels |-> <<>>]
      /\ conn' = [c \in Channels |-> IF conn[c] \in {"opening"} \cup Running THEN "lost" ELSE conn[c]]
      /\ restarts < MaxRestarts /\ restarts' = restarts + 1
      /\ UNCHANGED <<timestamp, now, missing, last, since, known, seen, told>>
  BY DEF Restart, Idle
<1>2. BusTypeOK /\ BufferSize \in Nat /\ Len(<<>>) = 0 /\ MaxRestarts \in Nat
  BY BusAssumption, LiveAssumption DEF StreamTypes, TypeOK
<1>3. buffer' \in [Channels -> Seq(Messages)] /\ wire' \in [Channels -> Seq(Written)]
  BY <1>1
<1>4. \A c \in Channels : Len(buffer'[c]) <= BufferSize
  BY <1>1, <1>2
<1>5. BusTypeOK'
  BY <1>1, <1>2, <1>3, <1>4 DEF BusTypeOK, Stored
<1>6. /\ conn' \in [Channels -> {"off", "opening", "counting", "open", "lost", "refused"}]
      /\ \A c \in Channels : conn'[c] \notin Running
  BY <1>1 DEF StreamTypes, TypeOK, Running
<1>7. restarts' \in 0..MaxRestarts
  BY <1>1, <1>2 DEF StreamTypes, TypeOK
<1> QED
  BY <1>1, <1>3, <1>5, <1>6, <1>7 DEF StreamTypes, TypeOK

-----------------------------------------------------------------------------
(* Every event due is heard of.                                            *)

LEMMA KnownIsStored ==
    ASSUME StreamTypes, KnownStored, [Next]_vars
    PROVE  KnownStored'
<1>1. CASE UNCHANGED <<timestamp, known>>
  BY <1>1 DEF KnownStored, Stored
<1>2. ASSUME NEW p \in Publishers, Happen(p), Outside
      PROVE  KnownStored'
  <2>1. Stored \subseteq Stored'
    BY <1>2, HappenIs, MakeTypes
  <2>2. known' = known
    BY <1>2 DEF Outside
  <2> QED
    BY <2>1, <2>2 DEF KnownStored
<1>3. ASSUME NEW c \in Channels, conn[c] = "opening", eventsStreamHandler(c)
      PROVE  KnownStored'
  <2>1. known' = [known EXCEPT ![c] = Stored] /\ UNCHANGED timestamp
    BY <1>3 DEF eventsStreamHandler, Listen
  <2>2. Stored' = Stored
    BY <2>1 DEF Stored
  <2> QED
    BY <2>1, <2>2 DEF KnownStored, StreamTypes, TypeOK
<1>4. ASSUME NEW c \in Channels, stopLive(c)
      PROVE  KnownStored'
  BY <1>4 DEF stopLive, Hangup, KnownStored, StreamTypes, TypeOK, Stored
<1>5. ASSUME NEW c \in Channels,
             \/ startLive(c) \/ (conn[c] = "counting" /\ eventsStreamHandler(c)) \/ Forward(c)
             \/ Receive(c) \/ Break(c) \/ Reconnect(c) \/ eventsListHandler(c)
      PROVE  UNCHANGED <<timestamp, known>>
  BY <1>5 DEF startLive, eventsStreamHandler, Count, Forward, Receive, Break, Hangup, Reconnect,
              eventsListHandler
<1>6. ASSUME NEW p \in Publishers, Publish(p), Outside
      PROVE  UNCHANGED <<timestamp, known>>
  BY <1>6 DEF Publish, Lock, Send, Outside
<1>7. Restart => UNCHANGED <<timestamp, known>>
  BY DEF Restart
<1>8. ASSUME NEW c \in Channels, eventsStreamHandler(c)
      PROVE  conn[c] = "opening" \/ conn[c] = "counting"
  BY <1>8 DEF eventsStreamHandler
<1> QED
  BY <1>1, <1>2, <1>3, <1>4, <1>5, <1>6, <1>7, <1>8 DEF Next

\* A step that brings nothing more to send or to tell loses nothing that is heard of.
LEMMA Carry ==
    ASSUME NEW d \in Channels, NEW e \in Events, Settled(d, e),
           UNCHANGED timestamp, conn'[d] = conn[d], since'[d] = since[d], known'[d] = known[d],
           Heard(d, e) => Heard(d, e)', Learned(d, e) => Learned(d, e)'
    PROVE  Settled(d, e)'
<1>1. (ToSend(d, e)' => ToSend(d, e)) /\ (ToTell(d, e)' => ToTell(d, e))
  BY DEF ToSend, ToTell, Streams, Counts, Stored
<1> QED
  BY <1>1 DEF Settled

\* A page of which a step changes nothing.
LEMMA Elsewhere ==
    ASSUME NEW d \in Channels, NEW e \in Events, Settled(d, e),
           UNCHANGED <<timestamp, pub>>, conn'[d] = conn[d], since'[d] = since[d],
           known'[d] = known[d], seen'[d] = seen[d], told'[d] = told[d], missing'[d] = missing[d],
           buffer'[d] = buffer[d], wire'[d] = wire[d]
    PROVE  Settled(d, e)'
<1>1. InHand(d, e) => InHand(d, e)'
  BY DEF InHand
<1>2. /\ Buffered(d, e) => Buffered(d, e)'
      /\ OnWire(d, e) => OnWire(d, e)'
  BY DEF Buffered, OnWire
<1>3. (Learned(d, e) => Learned(d, e)') /\ (Heard(d, e) => Heard(d, e)')
  BY <1>1, <1>2 DEF Learned, Heard
<1> QED
  BY <1>3, Carry

LEMMA MakeHeard ==
    ASSUME StreamTypes, KnownStored, AllHeard, NEW p \in Publishers, Happen(p), Outside
    PROVE  StreamTypes' /\ AllHeard'
<1>1. PICK type \in Types, x \in Events, t \in Nat :
         /\ Make(p, type, x, t) /\ timestamp'[x] # NotStored
         /\ \/ timestamp' = timestamp
            \/ /\ timestamp' = [timestamp EXCEPT ![x] = t]
               /\ x \notin Stored /\ type = "created"
  BY HappenIs
<1>2. /\ StreamTypes' /\ pub'[p] # Nobody /\ pub[p] = Nobody
      /\ pub'[p].msg = [type |-> type, event |-> x, at |-> t] /\ pub'[p].step = "lock"
      /\ \A q \in Publishers \ {p} : pub'[q] = pub[q]
  BY <1>1, MakeTypes
<1>3. UNCHANGED <<bus, stream>>
  BY <1>1 DEF Make, Outside
<1>4. ASSUME NEW d \in Channels, NEW e \in Events
      PROVE  Settled(d, e)'
  <2>1. InHand(d, e) => InHand(d, e)'
    BY <1>2 DEF InHand
  <2>2. (Buffered(d, e) => Buffered(d, e)') /\ (OnWire(d, e) => OnWire(d, e)')
    BY <1>3 DEF Buffered, OnWire
  <2>3. (Learned(d, e) => Learned(d, e)') /\ (Heard(d, e) => Heard(d, e)')
    BY <1>3, <2>1, <2>2 DEF Learned, Heard
  <2>4. Settled(d, e)
    BY DEF AllHeard
  <2>5. CASE e = x /\ x \notin Stored
    <3>1. type = "created"
      BY <1>1, <2>5 DEF Stored
    <3>2. Created(pub'[p].msg, e)
      BY <1>2, <2>5, <3>1 DEF Created
    <3>3. Heard(d, e)'
      BY <1>2, <3>2 DEF Heard, InHand
    <3>4. ~ToTell(d, e)'
      <4>1. e \notin known[d]
        BY <2>5 DEF KnownStored
      <4> QED
        BY <1>3, <4>1 DEF ToTell, Counts
    <3> QED
      BY <3>3, <3>4 DEF Settled
  <2>6. CASE ~(e = x /\ x \notin Stored)
    <3>1. timestamp'[e] = timestamp[e]
      BY <1>1, <2>6 DEF StreamTypes, TypeOK, BusTypeOK
    <3>2. (ToSend(d, e)' => ToSend(d, e)) /\ (ToTell(d, e)' => ToTell(d, e))
      BY <1>3, <3>1 DEF ToSend, ToTell, Streams, Counts, Stored
    <3> QED
      BY <2>3, <2>4, <3>2 DEF Settled
  <2> QED
    BY <2>5, <2>6
<1> QED
  BY <1>2, <1>4 DEF AllHeard

LEMMA LockHeard ==
    ASSUME StreamTypes, AllHeard, NEW p \in Publishers, Lock(p), Outside
    PROVE  StreamTypes' /\ AllHeard'
<1>1. /\ StreamTypes' /\ \A q \in Publishers \ {p} : pub'[q] = pub[q]
      /\ \/ pub'[p] = Nobody /\ subscribers = {}
         \/ pub'[p] # Nobody /\ pub'[p].msg = pub[p].msg /\ pub'[p].left = subscribers
  BY LockTypes
<1>2. UNCHANGED <<timestamp, bus, stream>>
  BY DEF Lock, Outside
<1>3. ASSUME NEW d \in Channels, NEW e \in Events
      PROVE  Settled(d, e)'
  <2>1. Settled(d, e)
    BY DEF AllHeard
  <2>2. (Buffered(d, e) => Buffered(d, e)') /\ (OnWire(d, e) => OnWire(d, e)')
    BY <1>2 DEF Buffered, OnWire
  <2>3. Learned(d, e) => Learned(d, e)'
    BY <1>2, <2>2 DEF Learned
  <2>4. CASE d \in subscribers
    <3>1. InHand(d, e) => InHand(d, e)'
      BY <1>1, <2>4 DEF InHand
    <3>2. Heard(d, e) => Heard(d, e)'
      BY <2>2, <2>3, <3>1 DEF Heard
    <3> QED
      BY <1>2, <2>1, <2>3, <3>2, Carry
  <2>5. CASE d \notin subscribers
    <3>1. conn'[d] \notin Running
      BY <1>2, <2>5 DEF StreamTypes, TypeOK
    <3> QED
      BY <3>1 DEF Settled, ToSend, ToTell, Running
  <2> QED
    BY <2>4, <2>5
<1> QED
  BY <1>1, <1>3 DEF AllHeard

LEMMA SendHeard ==
    ASSUME StreamTypes, AllHeard, NEW p \in Publishers, NEW c \in Channels, Send(p, c), Outside
    PROVE  StreamTypes' /\ AllHeard'
<1>1. /\ StreamTypes' /\ \A q \in Publishers \ {p} : pub'[q] = pub[q]
      /\ \/ pub'[p] = Nobody /\ pub[p].left = {c}
         \/ /\ pub'[p] # Nobody /\ pub'[p].msg = pub[p].msg
            /\ pub'[p].left = pub[p].left \ {c}
  BY SendTypes
<1>2. UNCHANGED <<timestamp, conn, since, known, seen, told, wire>>
  BY DEF Send, Outside
<1>3. /\ buffer \in [Channels -> Seq(Messages)] /\ missing \in [Channels -> SUBSET Events]
      /\ pub[p] # Nobody /\ pub[p].msg \in Messages /\ pub[p].step # "lock"
  BY DEF Send, StreamTypes, TypeOK, BusTypeOK, Publications
<1>4. \/ /\ buffer' = [buffer EXCEPT ![c] = Append(buffer[c], pub[p].msg)] /\ UNCHANGED missing
      \/ /\ missing' = [missing EXCEPT ![c] = @ \cup {pub[p].msg.event : t \in {"created"} \cap {pub[p].msg.type}}]
         /\ UNCHANGED buffer
  BY <1>3 DEF Send
<1>5. ASSUME NEW d \in Channels, NEW e \in Events
      PROVE  Settled(d, e)'
  <2>1. missing[d] \subseteq missing'[d]
    BY <1>3, <1>4
  <2>2. Buffered(d, e) => Buffered(d, e)'
    <3>1. CASE UNCHANGED buffer
      BY <3>1 DEF Buffered
    <3>2. CASE buffer' = [buffer EXCEPT ![c] = Append(buffer[c], pub[p].msg)]
      <4>1. \A i \in DOMAIN buffer[d] : i \in DOMAIN buffer'[d] /\ buffer'[d][i] = buffer[d][i]
        BY <1>3, <3>2, AppendHas
      <4> QED
        BY <4>1 DEF Buffered
    <3> QED
      BY <1>4, <3>1, <3>2
  <2>3. Learned(d, e) => Learned(d, e)'
    BY <1>2, <2>1 DEF Learned, OnWire
  <2>4. InHand(d, e) => InHand(d, e)' \/ Buffered(d, e)' \/ e \in missing'[d]
    <3> SUFFICES ASSUME NEW q \in Publishers, pub[q] # Nobody, Created(pub[q].msg, e),
                        pub[q].step = "lock" \/ d \in pub[q].left
                 PROVE  InHand(d, e)' \/ Buffered(d, e)' \/ e \in missing'[d]
      BY DEF InHand
    <3>1. CASE q # p
      BY <1>1, <3>1 DEF InHand
    <3>2. CASE q = p /\ d # c
      BY <1>1, <1>3, <3>2 DEF InHand
    <3>3. CASE q = p /\ d = c
      <4>1. CASE buffer' = [buffer EXCEPT ![c] = Append(buffer[c], pub[p].msg)]
        <5>0. buffer'[c] = Append(buffer[c], pub[p].msg) /\ buffer[c] \in Seq(Messages)
          BY <1>3, <4>1
        <5>1. \E i \in DOMAIN Append(buffer[c], pub[p].msg) :
                 Append(buffer[c], pub[p].msg)[i] = pub[p].msg
          <6>1. pub[p].msg \in Messages /\ buffer[c] \in Seq(Messages)
            BY <1>3, <5>0
          <6> QED
            BY <6>1, AppendHas
        <5> QED
          BY <3>3, <5>0, <5>1 DEF Buffered
      <4>2. CASE missing' = [missing EXCEPT ![c] = @ \cup {pub[p].msg.event : t \in {"created"} \cap {pub[p].msg.type}}]
        BY <1>3, <3>3, <4>2 DEF Created
      <4> QED
        BY <1>4, <4>1, <4>2
    <3> QED
      BY <3>1, <3>2, <3>3
  <2>5. Heard(d, e) => Heard(d, e)'
    BY <2>2, <2>3, <2>4 DEF Heard, Learned
  <2>6. Settled(d, e)
    BY DEF AllHeard
  <2> QED
    BY <1>2, <2>3, <2>5, <2>6, Carry
<1> QED
  BY <1>1, <1>5 DEF AllHeard

\* A page whose handler does not run is owed nothing.
LEMMA NotRunning ==
    ASSUME NEW d \in Channels, conn'[d] \notin Running, NEW e \in Events
    PROVE  Settled(d, e)'
  BY DEF Settled, ToSend, ToTell, Running

LEMMA HangupHeard ==
    ASSUME StreamTypes, AllHeard, NEW c \in Channels, Break(c) \/ stopLive(c)
    PROVE  AllHeard'
<1>1. /\ missing \in [Channels -> SUBSET Events] /\ conn'[c] \notin Running
      /\ \A d \in Channels \ {c} :
            /\ conn'[d] = conn[d] /\ since'[d] = since[d] /\ known'[d] = known[d]
            /\ seen'[d] = seen[d] /\ told'[d] = told[d] /\ missing'[d] = missing[d]
  BY DEF StreamTypes, TypeOK, BusTypeOK, Break, stopLive, Running
<1>2. missing' \in [Channels -> SUBSET Events] /\ Hangup(c)
  BY <1>1 DEF Break, stopLive
<1>3. /\ UNCHANGED <<timestamp, pub>>
      /\ \A d \in Channels \ {c} : buffer'[d] = buffer[d] /\ wire'[d] = wire[d]
  BY <1>2, HangupTypes
<1>4. ASSUME NEW d \in Channels, NEW e \in Events
      PROVE  Settled(d, e)'
  <2>1. CASE d = c
    BY <1>1, <2>1, NotRunning
  <2>2. CASE d # c
    <3>1. Settled(d, e)
      BY DEF AllHeard
    <3> QED
      BY <1>1, <1>3, <2>2, <3>1, Elsewhere
  <2> QED
    BY <2>1, <2>2
<1> QED
  BY <1>4 DEF AllHeard

\* When its channel comes into the bus, a connection owes nothing yet: what is stored is
\* for the count, that follows.
LEMMA ListenHeard ==
    ASSUME StreamTypes, AllHeard, NEW c \in Channels, conn[c] = "opening", eventsStreamHandler(c)
    PROVE  AllHeard'
<1>1. /\ Subscribe(c) /\ conn' = [conn EXCEPT ![c] = "counting"]
      /\ known' = [known EXCEPT ![c] = Stored]
      /\ UNCHANGED <<wire, timestamp, pub, since, seen, told>>
  BY DEF eventsStreamHandler, Listen
<1>2. /\ conn'[c] = "counting" /\ known'[c] = Stored /\ Stored' = Stored
      /\ \A d \in Channels \ {c} : /\ conn'[d] = conn[d] /\ known'[d] = known[d]
                                   /\ buffer'[d] = buffer[d] /\ missing'[d] = missing[d]
  BY <1>1 DEF StreamTypes, TypeOK, BusTypeOK, Subscribe, Stored
<1>3. ASSUME NEW d \in Channels, NEW e \in Events
      PROVE  Settled(d, e)'
  <2>1. CASE d = c
    BY <1>2, <2>1 DEF Settled, ToSend, ToTell, Streams
  <2>2. CASE d # c
    <3>1. Settled(d, e)
      BY DEF AllHeard
    <3> QED
      BY <1>1, <1>2, <2>2, <3>1, Elsewhere
  <2> QED
    BY <2>1, <2>2
<1> QED
  BY <1>3 DEF AllHeard

\* The count comes after the subscription, so that it finds all that was stored before.
LEMMA CountHeard ==
    ASSUME StreamTypes, AllHeard, NEW c \in Channels, conn[c] = "counting", eventsStreamHandler(c)
    PROVE  AllHeard'
<1>1. /\ Count(c) /\ conn' = [conn EXCEPT ![c] = "open"]
      /\ UNCHANGED <<buffer, known, timestamp, pub, since, seen, told>>
  BY DEF eventsStreamHandler, Count
<1>2. /\ conn'[c] = "open" /\ conn \in [Channels -> {"off", "opening", "counting", "open", "lost", "refused"}]
      /\ wire \in [Channels -> Seq(Written)] /\ missing \in [Channels -> SUBSET Events]
      /\ \A d \in Channels \ {c} : conn'[d] = conn[d]
  BY <1>1 DEF StreamTypes, TypeOK, BusTypeOK
<1>3. \A d \in Channels \ {c} : wire'[d] = wire[d] /\ missing'[d] = missing[d]
  BY <1>1, <1>2 DEF Count
<1>4. ASSUME NEW e \in Events
      PROVE  Settled(c, e)'
  <2>1. Heard(c, e) => Heard(c, e)'
    <3>1. PICK m : \/ UNCHANGED wire
                   \/ m \in Written /\ wire' = [wire EXCEPT ![c] = Append(wire[c], m)]
      <4>1. EventsAfter(c, since[c]) \in SUBSET Events
        BY DEF EventsAfter, Stored
      <4>2. [type |-> "missed", events |-> EventsAfter(c, since[c])] \in Written
        BY <4>1, MissedIsWritten
      <4> QED
        BY <1>1, <4>2 DEF Count
    <3>2. OnWire(c, e) => OnWire(c, e)'
      <4>1. CASE UNCHANGED wire
        BY <4>1 DEF OnWire
      <4>2. CASE m \in Written /\ wire' = [wire EXCEPT ![c] = Append(wire[c], m)]
        <5>1. wire[c] \in Seq(Written) /\ wire'[c] = Append(wire[c], m)
          BY <1>2, <4>2
        <5>2. \A i \in DOMAIN wire[c] : i \in DOMAIN wire'[c] /\ wire'[c][i] = wire[c][i]
          BY <4>2, <5>1, AppendHas
        <5> QED
          BY <5>2 DEF OnWire
      <4> QED
        BY <3>1, <4>1, <4>2
    <3>3. missing[c] \subseteq missing'[c]
      BY <1>1, <1>2 DEF Count
    <3>4. (InHand(c, e) => InHand(c, e)') /\ (Buffered(c, e) => Buffered(c, e)')
      BY <1>1 DEF InHand, Buffered
    <3> QED
      BY <1>1, <3>2, <3>3, <3>4 DEF Heard, Learned
  <2>2. ToSend(c, e)' => ToSend(c, e)
    BY <1>1 DEF ToSend, Streams, Stored, Running
  <2>3. ASSUME ToTell(c, e)'
        PROVE  Learned(c, e)'
    <3>1. since[c] # NoID /\ timestamp[e] > since[c] /\ e \in Stored \cap Selected[Filter[c]]
      BY <1>1, <2>3 DEF ToTell, Counts, Stored
    <3>2. PICK E \in SUBSET Events :
            /\ \A x \in Stored \cap Selected[Filter[c]] : timestamp[x] > since[c] => x \in E
            /\ \/ UNCHANGED missing
                  /\ wire' = [wire EXCEPT ![c] = Append(@, [type |-> "missed", events |-> E])]
               \/ missing' = [missing EXCEPT ![c] = @ \cup E] /\ UNCHANGED wire
      BY <1>1, <3>1, CountIs
    <3>3. e \in E
      BY <3>1, <3>2
    <3>4. CASE missing' = [missing EXCEPT ![c] = @ \cup E]
      BY <1>2, <3>3, <3>4 DEF Learned
    <3>5. CASE wire' = [wire EXCEPT ![c] = Append(@, [type |-> "missed", events |-> E])]
      <4>1. /\ [type |-> "missed", events |-> E] \in Written
            /\ Tells([type |-> "missed", events |-> E], e)
        BY <3>3, MissedIsWritten
      <4>2. wire'[c] = Append(wire[c], [type |-> "missed", events |-> E]) /\ wire[c] \in Seq(Written)
        BY <1>2, <3>5
      <4>3. PICK i \in DOMAIN wire'[c] : wire'[c][i] = [type |-> "missed", events |-> E]
        BY <4>1, <4>2, AppendHas
      <4>4. OnWire(c, e)'
        BY <4>1, <4>3 DEF OnWire
      <4> QED
        BY <4>4 DEF Learned
    <3> QED
      BY <3>2, <3>4, <3>5
  <2>4. Settled(c, e)
    BY DEF AllHeard
  <2> QED
    BY <2>1, <2>2, <2>3, <2>4 DEF Settled
<1>5. ASSUME NEW d \in Channels \ {c}, NEW e \in Events
      PROVE  Settled(d, e)'
  <2>1. Settled(d, e)
    BY DEF AllHeard
  <2> QED
    BY <1>1, <1>2, <1>3, <2>1, Elsewhere
<1> QED
  BY <1>4, <1>5 DEF AllHeard

\* The loop passes on what its filter lets through, and a page takes in what arrives.
LEMMA ForwardHeard ==
    ASSUME StreamTypes, AllHeard, NEW c \in Channels, Forward(c)
    PROVE  AllHeard'
<1> DEFINE m == Head(buffer[c])
<1>1. /\ conn[c] = "open" /\ buffer[c] # <<>> /\ buffer' = [buffer EXCEPT ![c] = Tail(buffer[c])]
      /\ wire' = [wire EXCEPT ![c] = IF matchesStreamFilters(m, c) THEN Append(wire[c], m) ELSE wire[c]]
      /\ UNCHANGED <<timestamp, pub, missing, conn, since, known, seen, told>>
  BY DEF Forward, StreamTypes, TypeOK, BusTypeOK
<1>2. /\ buffer \in [Channels -> Seq(Messages)] /\ wire \in [Channels -> Seq(Written)]
  BY DEF StreamTypes, TypeOK, BusTypeOK
<1>3. /\ m \in Messages /\ Tail(buffer[c]) \in Seq(Messages)
      /\ \A i \in DOMAIN buffer[c] :
            buffer[c][i] = m \/ \E j \in DOMAIN Tail(buffer[c]) : Tail(buffer[c])[j] = buffer[c][i]
  BY <1>1, <1>2, TailHas
<1> HIDE DEF m
<1>4. m \in Written
  BY <1>3 DEF Written
<1>5. /\ \A i \in DOMAIN wire[c] : i \in DOMAIN Append(wire[c], m) /\ Append(wire[c], m)[i] = wire[c][i]
      /\ \E i \in DOMAIN Append(wire[c], m) : Append(wire[c], m)[i] = m
  <2>1. wire[c] \in Seq(Written)
    BY <1>2
  <2> QED
    BY <1>4, <2>1, AppendHas
<1>6. /\ buffer'[c] = Tail(buffer[c])
      /\ wire'[c] = IF matchesStreamFilters(m, c) THEN Append(wire[c], m) ELSE wire[c]
      /\ \A d \in Channels \ {c} : buffer'[d] = buffer[d] /\ wire'[d] = wire[d]
  BY <1>1, <1>2
<1>7. ASSUME NEW e \in Events
      PROVE  Settled(c, e)'
  <2>1. InHand(c, e) => InHand(c, e)'
    BY <1>1 DEF InHand
  <2>2. OnWire(c, e) => OnWire(c, e)'
    BY <1>5, <1>6 DEF OnWire
  <2>3. Learned(c, e) => Learned(c, e)'
    BY <1>1, <2>2 DEF Learned
  <2>4. ASSUME e \in Streamed[Filter[c]], Buffered(c, e)
        PROVE  Buffered(c, e)' \/ OnWire(c, e)'
    <3>1. PICK i \in DOMAIN buffer[c] : Created(buffer[c][i], e)
      BY <2>4 DEF Buffered
    <3>2. CASE buffer[c][i] = m
      <4>1. matchesStreamFilters(m, c)
        BY <2>4, <3>1, <3>2 DEF matchesStreamFilters, Created
      <4> QED
        BY <1>5, <1>6, <3>1, <3>2, <4>1 DEF OnWire, Tells
    <3>3. CASE buffer[c][i] # m
      BY <1>3, <1>6, <3>1, <3>3 DEF Buffered
    <3> QED
      BY <3>2, <3>3
  <2>5. (ToSend(c, e)' => ToSend(c, e)) /\ (ToTell(c, e)' => ToTell(c, e))
    BY <1>1 DEF ToSend, ToTell, Streams, Counts, Stored
  <2>6. ToSend(c, e) /\ Heard(c, e) => Heard(c, e)'
    BY <2>1, <2>3, <2>4 DEF ToSend, Streams, Heard, Learned
  <2>7. Settled(c, e)
    BY DEF AllHeard
  <2> QED
    BY <2>3, <2>5, <2>6, <2>7 DEF Settled
<1>8. ASSUME NEW d \in Channels \ {c}, NEW e \in Events
      PROVE  Settled(d, e)'
  <2>1. Settled(d, e)
    BY DEF AllHeard
  <2> QED
    BY <1>1, <1>6, <2>1, Elsewhere
<1> QED
  BY <1>7, <1>8 DEF AllHeard

LEMMA ReceiveHeard ==
    ASSUME StreamTypes, AllHeard, NEW c \in Channels, Receive(c)
    PROVE  AllHeard'
<1> DEFINE m == Head(wire[c])
<1>1. /\ wire[c] # <<>> /\ wire' = [wire EXCEPT ![c] = Tail(wire[c])]
      /\ UNCHANGED <<timestamp, pub, buffer, missing, conn, since, known>>
  BY DEF Receive, StreamTypes
<1>2. /\ wire \in [Channels -> Seq(Written)]
      /\ seen \in [Channels -> SUBSET Events] /\ told \in [Channels -> SUBSET Events]
  BY DEF StreamTypes, TypeOK
<1>3. /\ Tail(wire[c]) \in Seq(Written)
      /\ \A i \in DOMAIN wire[c] :
            wire[c][i] = m \/ \E j \in DOMAIN Tail(wire[c]) : Tail(wire[c])[j] = wire[c][i]
  BY <1>1, <1>2, TailHas
<1>4. /\ m.type = "missed" => told' = [told EXCEPT ![c] = told[c] \cup m.events] /\ seen' = seen
      /\ m.type = "created" => seen' = [seen EXCEPT ![c] = seen[c] \cup {m.event}] /\ told' = told
      /\ m.type \notin {"missed", "created"} => seen' = [seen EXCEPT ![c] = seen[c]] /\ told' = told
  BY <1>2 DEF Receive
<1> HIDE DEF m
<1>5. /\ seen[c] \subseteq seen'[c] /\ told[c] \subseteq told'[c]
      /\ m.type = "missed" => m.events \subseteq told'[c]
      /\ m.type = "created" => m.event \in seen'[c]
      /\ \A d \in Channels \ {c} : seen'[d] = seen[d] /\ told'[d] = told[d]
  BY <1>2, <1>4
<1>6. wire'[c] = Tail(wire[c]) /\ \A d \in Channels \ {c} : wire'[d] = wire[d]
  BY <1>1, <1>2
<1>7. ASSUME NEW e \in Events
      PROVE  Settled(c, e)'
  <2>1. (InHand(c, e) => InHand(c, e)') /\ (Buffered(c, e) => Buffered(c, e)')
    BY <1>1 DEF InHand, Buffered
  <2>2. OnWire(c, e) => OnWire(c, e)' \/ e \in seen'[c] \cup told'[c]
    <3> SUFFICES ASSUME NEW i \in DOMAIN wire[c], Tells(wire[c][i], e)
                 PROVE  OnWire(c, e)' \/ e \in seen'[c] \cup told'[c]
      BY DEF OnWire
    <3>1. CASE wire[c][i] = m
      BY <1>5, <3>1 DEF Tells, Created
    <3>2. CASE wire[c][i] # m
      BY <1>3, <1>6, <3>2 DEF OnWire
    <3> QED
      BY <3>1, <3>2
  <2>3. Learned(c, e) => Learned(c, e)'
    BY <1>1, <1>5, <2>2 DEF Learned
  <2>4. Heard(c, e) => Heard(c, e)'
    BY <2>1, <2>3 DEF Heard
  <2>5. Settled(c, e)
    BY DEF AllHeard
  <2> QED
    BY <1>1, <2>3, <2>4, <2>5, Carry
<1>8. ASSUME NEW d \in Channels \ {c}, NEW e \in Events
      PROVE  Settled(d, e)'
  <2>1. Settled(d, e)
    BY DEF AllHeard
  <2> QED
    BY <1>1, <1>5, <1>6, <2>1, Elsewhere
<1> QED
  BY <1>7, <1>8 DEF AllHeard

-----------------------------------------------------------------------------
(* The list.                                                               *)

\* An event that shares its timestamp with no other of the list stands there where the
\* number of those that are not older says.
LEMMA PlaceInList ==
    ASSUME StreamTypes, NEW S \in SUBSET Stored, IsFiniteSet(S), NEW rows \in NewestFirst(S)
    PROVE  /\ Cardinality(S) \in Nat /\ rows \in [1..Cardinality(S) -> S]
           /\ \A e \in S : (\A d \in S : d # e => timestamp[d] # timestamp[e]) =>
                 \E i \in 1..Cardinality(S) :
                    rows[i] = e /\ Cardinality({f \in S : timestamp[f] >= timestamp[e]}) = i
<1> DEFINE N == Cardinality(S)
<1>1. N \in Nat /\ IsFiniteSet(1..N) /\ Cardinality(1..N) = N
  BY FS_CardinalityType, FS_Interval
<1> HIDE DEF N
<1>2. /\ rows \in [1..N -> S] /\ \A i, j \in 1..N : i # j => rows[i] # rows[j]
      /\ \A i, j \in 1..N : i < j => timestamp[rows[i]] >= timestamp[rows[j]]
  BY DEF NewestFirst, SetToSeqs, N
<1>3. rows \in Injection(1..N, S)
  BY <1>2 DEF Injection, IsInjective
<1>4. rows \in Surjection(1..N, S)
  BY <1>1, <1>3, FS_Injection DEF N
<1>5. ASSUME NEW e \in S, \A d \in S : d # e => timestamp[d] # timestamp[e]
      PROVE  \E i \in 1..N :
                rows[i] = e /\ Cardinality({f \in S : timestamp[f] >= timestamp[e]}) = i
  <2>1. PICK i \in 1..N : rows[i] = e
    BY <1>4 DEF Surjection
  <2> DEFINE T == {f \in S : timestamp[f] >= timestamp[e]}
             g == [j \in 1..i |-> rows[j]]
  <2>2. \A f \in S : timestamp[f] \in Nat
    BY DEF StreamTypes, TypeOK, BusTypeOK, Stored
  <2>3. ASSUME NEW j \in 1..N
        PROVE  rows[j] \in T <=> j <= i
    <3>1. CASE j < i
      BY <1>1, <1>2, <2>1, <3>1
    <3>2. CASE j = i
      BY <1>2, <2>1, <2>2, <3>2
    <3>3. CASE j > i
      <4>1. rows[j] # e /\ rows[j] \in S /\ timestamp[e] >= timestamp[rows[j]]
        BY <1>1, <1>2, <2>1, <3>3
      <4>2. timestamp[rows[j]] # timestamp[e]
        BY <1>5, <4>1
      <4> QED
        BY <1>1, <2>2, <3>3, <4>1, <4>2
    <3> QED
      BY <1>1, <3>1, <3>2, <3>3
  <2>4. g \in [1..i -> T]
    BY <1>1, <1>2, <2>3
  <2>5. g \in Injection(1..i, T)
    BY <1>1, <1>2, <2>4 DEF Injection, IsInjective
  <2>6. g \in Surjection(1..i, T)
    <3>1. ASSUME NEW f \in T
          PROVE  \E j \in 1..i : g[j] = f
      <4>1. PICK j \in 1..N : rows[j] = f
        BY <1>4 DEF Surjection
      <4>2. j \in 1..i
        BY <1>1, <2>3, <4>1
      <4> QED
        BY <4>1, <4>2
    <3> QED
      BY <2>4, <3>1 DEF Surjection
  <2>7. ExistsBijection(1..i, T)
    BY <2>5, <2>6 DEF ExistsBijection, Bijection
  <2>8. IsFiniteSet(1..i) /\ Cardinality(1..i) = i
    BY <1>1, FS_Interval
  <2>9. Cardinality(T) = i
    BY <2>7, <2>8, FS_Bijection
  <2> QED
    BY <2>1, <2>9
<1> QED
  BY <1>1, <1>2, <1>5 DEF N

\* got is the part of rows, of length N, that a query with that limit and offset gives.
IsWindow(got, rows, N, limit, offset, S) ==
    \E n \in Nat :
       /\ n = IF offset + limit < N THEN limit ELSE IF offset < N THEN N - offset ELSE 0
       /\ got \in [1..n -> S] /\ Len(got) = n
       /\ \A i \in 1..n : got[i] = rows[offset + i]

LEMMA WindowIs ==
    ASSUME NEW S, NEW N \in Nat, NEW rows \in [1..N -> S], NEW limit \in Nat, NEW offset \in Nat
    PROVE  IsWindow(Window(rows, limit, offset), rows, N, limit, offset, S)
<1>1. Len(rows) = N
  OBVIOUS
<1> DEFINE last1 == IF offset + limit < N THEN offset + limit ELSE N
           got == SubSeq(rows, offset + 1, last1)
           n == IF offset + limit < N THEN limit ELSE IF offset < N THEN N - offset ELSE 0
<1>2. /\ last1 \in Int /\ offset + 1 \in Int /\ \A i \in offset + 1..last1 : i \in 1..N
      /\ n \in Nat /\ n = (IF offset + 1 <= last1 THEN last1 - (offset + 1) + 1 ELSE 0)
  OBVIOUS
<1>3. \A i \in offset + 1..last1 : rows[i] \in S
  BY <1>2
<1>4. /\ got \in Seq(S) /\ Len(got) = n
      /\ \A i \in 1..last1 - (offset + 1) + 1 : got[i] = rows[offset + 1 + i - 1]
  <2>1. PICK a \in Int, b \in Int : a = offset + 1 /\ b = last1
    BY <1>2
  <2>2. \A i \in a..b : rows[i] \in S
    BY <1>3, <2>1
  <2>3. /\ SubSeq(rows, a, b) \in Seq(S)
        /\ Len(SubSeq(rows, a, b)) = IF a <= b THEN b - a + 1 ELSE 0
        /\ \A i \in 1..b - a + 1 : SubSeq(rows, a, b)[i] = rows[a + i - 1]
    BY <2>1, <2>2, SubSeqProperties
  <2> HIDE DEF last1, n
  <2> QED
    BY <1>2, <2>1, <2>3
<1>5. \A i \in 1..n : i \in 1..last1 - (offset + 1) + 1 /\ offset + 1 + i - 1 = offset + i
  BY <1>2
<1>6. \A i \in 1..n : got[i] = rows[offset + i]
  BY <1>4, <1>5
<1>7. got \in [1..n -> S]
  <2> HIDE DEF got, n
  <2> QED
    BY <1>2, <1>4
<1>8. got = Window(rows, limit, offset)
  BY <1>1 DEF Window
<1> HIDE DEF got, n
<1> QED
  BY <1>2, <1>4, <1>6, <1>7, <1>8 DEF n, IsWindow

\* A page holds its part of the list, and says that there is another unless the list ends.
HoldsPage(answer, rows, N, offset, S) ==
    /\ answer.hasNext \in BOOLEAN /\ ToSet(answer.rows) \subseteq S
    /\ ~answer.hasNext => N <= offset + eventsPerPage
    /\ \A i \in 1..N : offset < i /\ i <= offset + eventsPerPage =>
                         rows[i] \in ToSet(answer.rows)

LEMMA PageIs ==
    ASSUME NEW S, NEW N \in Nat, NEW rows \in [1..N -> S], NEW page \in Nat \ {0},
           NEW offset \in Nat, offset = (page - 1) * eventsPerPage,
           NEW answer, answer = Ask(rows, page)
    PROVE  HoldsPage(answer, rows, N, offset, S)
<1> DEFINE size == eventsPerPage
           got == Window(rows, size + 1, offset)
           shown == Window(got, size, 0)
<1>1. size \in Nat /\ size + 1 \in Nat /\ 0 \in Nat
  BY LiveAssumption
<1>2. PICK m \in Nat :
        /\ m = IF offset + (size + 1) < N THEN size + 1 ELSE IF offset < N THEN N - offset ELSE 0
        /\ got \in [1..m -> S] /\ Len(got) = m
        /\ \A i \in 1..m : got[i] = rows[offset + i]
  <2>1. IsWindow(got, rows, N, size + 1, offset, S)
    BY <1>1, WindowIs
  <2> QED
    BY <2>1 DEF IsWindow
<1> HIDE DEF got
<1>3. PICK k \in Nat :
        /\ k = IF 0 + size < m THEN size ELSE IF 0 < m THEN m - 0 ELSE 0
        /\ shown \in [1..k -> S]
        /\ \A i \in 1..k : shown[i] = got[0 + i]
  <2>1. IsWindow(shown, got, m, size, 0, S)
    BY <1>1, <1>2, WindowIs
  <2> QED
    BY <2>1 DEF IsWindow
<1>4. answer = [rows |-> shown, hasNext |-> Len(got) > size]
  BY DEF Ask, got
<1> HIDE DEF shown
<1>5. ToSet(shown) \subseteq S
  BY <1>3 DEF ToSet
<1>6. ~(m > size) => N <= offset + size
  BY <1>1, <1>2
<1>7. ASSUME NEW i \in 1..N, offset < i, i <= offset + size
      PROVE  rows[i] \in ToSet(shown)
  <2>1. i - offset \in 1..k /\ i - offset \in 1..m /\ 0 + (i - offset) = i - offset
        /\ offset + (i - offset) = i
    BY <1>1, <1>2, <1>3, <1>7
  <2>2. shown[i - offset] = rows[i] /\ i - offset \in DOMAIN shown
    BY <1>2, <1>3, <2>1
  <2> QED
    BY <2>2 DEF ToSet
<1>8. answer.rows = shown /\ answer.hasNext \in BOOLEAN /\ (answer.hasNext <=> m > size)
  <2>1. answer.rows = shown /\ answer.hasNext = (Len(got) > size)
    BY <1>4
  <2>2. Len(got) = m
    BY <1>2
  <2>3. answer.hasNext = (m > size)
    BY <2>1, <2>2
  <2>4. PICK x \in BOOLEAN : x <=> m > size
    BY Zenon
  <2>5. answer.hasNext = x
    BY <2>3, <2>4
  <2> QED
    BY <2>1, <2>3, <2>4, <2>5
<1>9. /\ ToSet(answer.rows) \subseteq S
      /\ \A i \in 1..N : offset < i /\ i <= offset + size => rows[i] \in ToSet(answer.rows)
  BY <1>5, <1>7, <1>8
<1>10. ~answer.hasNext => N <= offset + size
  BY <1>6, <1>8
<1> QED
  BY <1>8, <1>9, <1>10 DEF HoldsPage

LEMMA OneMorePage ==
    ASSUME NEW p \in Nat
    PROVE  /\ p * eventsPerPage \in Nat /\ (p + 1) * eventsPerPage = p * eventsPerPage + eventsPerPage
           /\ (p + 1 - 1) * eventsPerPage = p * eventsPerPage
  BY LiveAssumption

\* Others insert: an event falls back in the list, or stays where it is.
LEMMA InsertKeepsRead ==
    ASSUME StreamTypes, ReadSoFar, NEW p \in Publishers, Happen(p), Outside
    PROVE  ReadSoFar'
<1>1. PICK type \in Types, x \in Events, t \in Nat :
         /\ Make(p, type, x, t) /\ timestamp'[x] # NotStored
         /\ \/ timestamp' = timestamp
            \/ /\ timestamp' = [timestamp EXCEPT ![x] = t]
               /\ x \notin Stored /\ type = "created"
  BY HappenIs
<1>2. walk' = walk
  BY DEF Outside
<1>3. CASE timestamp' = timestamp
  BY <1>2, <1>3 DEF ReadSoFar, Reads, Tied, Ahead, Stored
<1>4. CASE timestamp' = [timestamp EXCEPT ![x] = t] /\ x \notin Stored
  <2>1. timestamp \in [Events -> Nat \cup {NotStored}] /\ NotStored \notin Nat
    BY BusAssumption DEF StreamTypes, TypeOK, BusTypeOK
  <2>2. Stored' = Stored \cup {x} /\ \A e \in Stored : timestamp'[e] = timestamp[e] /\ timestamp[e] \in Nat
    BY <1>4, <2>1 DEF Stored
  <2>3. IsFiniteSet(Stored')
    BY <2>2, FS_AddElement DEF ReadSoFar
  <2>4. ASSUME NEW e \in Stored, NEW f \in Filters, Tied(e, f)
        PROVE  Tied(e, f)'
    BY <2>2, <2>4 DEF Tied
  <2>5. ASSUME NEW e \in Stored, NEW F
        PROVE  /\ Cardinality(Ahead(e, F)) \in Nat /\ Cardinality(Ahead(e, F)') \in Nat
               /\ Cardinality(Ahead(e, F)) <= Cardinality(Ahead(e, F)')
    <3>1. Ahead(e, F) \subseteq Ahead(e, F)' /\ Ahead(e, F)' \subseteq Stored'
      BY <2>2 DEF Ahead
    <3>2. IsFiniteSet(Ahead(e, F)')
      BY <2>3, <3>1, FS_Subset
    <3> QED
      BY <3>1, <3>2, FS_Subset, FS_CardinalityType
  <2>6. ASSUME NEW c \in Channels
        PROVE  Reads(walk[c])'
    <3> DEFINE w == walk[c]
    <3>1. /\ w \in Walks /\ w.base \subseteq Stored /\ w.page \in Nat
          /\ w.page > 0 \/ ~w.more
      BY DEF ReadSoFar, Reads, Walks
    <3>2. CASE w.page > 0 /\ Link[w.asked] = w.asked
      <4>1. w.filter = w.asked /\ w.asked \in Filters
        BY <3>2 DEF ReadSoFar, Reads, Walks
      <4>2. PICK F : F = Selected[w.asked]
        OBVIOUS
      <4>6. PICK k \in Nat : k = w.page * eventsPerPage
        BY <3>1, OneMorePage
      <4>3. ASSUME NEW e \in w.base \cap F
            PROVE  \/ Tied(e, w.asked)' \/ e \in w.read
                   \/ w.more /\ ~(Cardinality(Ahead(e, F)') <= k)
        <5>1. e \in Stored
          BY <3>1
        <5>2. \/ Tied(e, w.asked) \/ e \in w.read
              \/ w.more /\ ~(Cardinality(Ahead(e, F)) <= k)
          BY <3>2, <4>2, <4>3, <4>6 DEF ReadSoFar, Reads
        <5>3. PICK a \in Nat, b \in Nat :
                 a = Cardinality(Ahead(e, F)) /\ b = Cardinality(Ahead(e, F)') /\ a <= b
          BY <2>5, <5>1
        <5>4. ~(a <= k) => ~(b <= k)
          BY <5>3
        <5>5. Tied(e, w.asked) => Tied(e, w.asked)'
          <6>1. PICK f \in Filters : f = w.asked /\ f = (w.asked)'
            BY <1>2, <4>1
          <6>2. Tied(e, f) => Tied(e, f)'
            BY <2>4, <5>1
          <6> QED
            BY <6>1, <6>2 DEF Tied
        <5> QED
          BY <5>2, <5>3, <5>4, <5>5
      <4>4. (w.asked)' = w.asked /\ (w.page)' = w.page /\ (w.base)' = w.base /\ (w.read)' = w.read
            /\ (w.more)' = w.more /\ (w.filter)' = w.filter
        BY <1>2
      <4>5. \A e : Ahead(e, Selected[w.asked])' = Ahead(e, F)'
        BY <4>2, <4>4 DEF Ahead
      <4> QED
        BY <2>2, <3>1, <3>2, <4>1, <4>2, <4>3, <4>4, <4>5, <4>6 DEF Reads
    <3>3. CASE ~(w.page > 0 /\ Link[w.asked] = w.asked)
      BY <1>2, <2>2, <3>1, <3>3 DEF Reads
    <3> QED
      BY <3>2, <3>3
  <2> QED
    BY <1>2, <2>3, <2>6 DEF ReadSoFar
<1> QED
  BY <1>1, <1>3, <1>4

\* A page that is shown after the one before it: all of the list up to its end is read.
LEMMA ShowReads ==
    ASSUME StreamTypes, IsFiniteSet(Stored), NEW c \in Channels, NEW w \in Walks, w.page > 0,
           w.base \subseteq Stored, ShowPage(c, w),
           Link[w.asked] = w.asked =>
              /\ w.filter = w.asked
              /\ \A e \in w.base \cap Selected[w.asked] :
                    \/ Tied(e, w.asked) \/ e \in w.read
                    \/ ~(Cardinality(Ahead(e, Selected[w.asked])) <= (w.page - 1) * eventsPerPage)
    PROVE  \E v \in Walks : Reads(v) /\ walk' = [walk EXCEPT ![c] = v]
<1> DEFINE S == Stored \cap Selected[w.filter]
           N == Cardinality(S)
<1>1. w.page \in Nat \ {0} /\ w.base \in SUBSET Events /\ w.read \in SUBSET Events
  BY DEF Walks
<1>2. PICK rows \in NewestFirst(S) :
         walk' = [walk EXCEPT ![c] = [w EXCEPT !.more = Ask(rows, w.page).hasNext,
                                               !.read = w.read \cup ToSet(Ask(rows, w.page).rows)]]
  BY DEF ShowPage
<1>3. IsFiniteSet(S) /\ N \in Nat
  BY FS_Subset, FS_CardinalityType
<1>4. rows \in [1..N -> S]
  BY <1>2 DEF NewestFirst, SetToSeqs
<1>5. PICK offset \in Nat : /\ offset = (w.page - 1) * eventsPerPage
                           /\ w.page * eventsPerPage = offset + eventsPerPage
  <2>1. PICK q \in Nat : w.page = q + 1
    <3>1. w.page - 1 \in Nat /\ w.page = w.page - 1 + 1
      BY <1>1
    <3> QED
      BY <3>1
  <2>2. w.page - 1 = q
    BY <2>1
  <2> QED
    BY <2>1, <2>2, OneMorePage
<1>6. PICK answer : answer = Ask(rows, w.page)
  OBVIOUS
<1>7. /\ answer.hasNext \in BOOLEAN /\ ToSet(answer.rows) \subseteq S
      /\ ~answer.hasNext => N <= offset + eventsPerPage
      /\ \A i \in 1..N : offset < i /\ i <= offset + eventsPerPage => rows[i] \in ToSet(answer.rows)
  <2> HIDE DEF S, N
  <2>1. HoldsPage(answer, rows, N, offset, S)
    <3>1. PICK page \in Nat \ {0} : page = w.page
      BY <1>1
    <3>2. offset = (page - 1) * eventsPerPage /\ answer = Ask(rows, page)
      BY <1>5, <1>6, <3>1
    <3> QED
      BY <1>3, <1>4, <1>5, <3>2, PageIs
  <2> QED
    BY <2>1 DEF HoldsPage
<1> DEFINE R == w.read \cup ToSet(answer.rows)
           v == [w EXCEPT !.more = answer.hasNext, !.read = R]
<1>8. R \in SUBSET Events
  BY <1>1, <1>7 DEF Stored
<1>9. v \in Walks /\ v.page = w.page /\ v.asked = w.asked /\ v.filter = w.filter /\ v.base = w.base
      /\ v.read = R /\ v.more = answer.hasNext
  <2> HIDE DEF R
  <2>1. PICK m \in BOOLEAN : m = answer.hasNext
    BY <1>7
  <2>2. LET n == [w EXCEPT !.more = m, !.read = R] IN
        /\ n \in Walks /\ n.page = w.page /\ n.asked = w.asked /\ n.filter = w.filter /\ n.base = w.base
        /\ n.read = R /\ n.more = m
    BY <1>8, <2>1 DEF Walks
  <2> QED
    BY <2>1, <2>2
<1>10. walk' = [walk EXCEPT ![c] = v]
  BY <1>2, <1>6
<1>11. ASSUME Link[w.asked] = w.asked, NEW e \in w.base \cap Selected[w.asked],
              ~Tied(e, w.asked), e \notin w.read,
              Cardinality(Ahead(e, Selected[w.asked])) <= offset + eventsPerPage \/ ~answer.hasNext
       PROVE  e \in R
  <2>1. w.filter = w.asked /\ e \in S /\ S = Stored \cap Selected[w.asked]
    BY <1>11
  <2>2. PICK i \in 1..N : rows[i] = e /\ Cardinality({f \in S : timestamp[f] >= timestamp[e]}) = i
    <3>1. \A d \in S : d # e => timestamp[d] # timestamp[e]
      BY <1>11, <2>1 DEF Tied
    <3> QED
      BY <1>3, <2>1, <3>1, PlaceInList
  <2>3. Cardinality(Ahead(e, Selected[w.asked])) = i
    BY <2>1, <2>2 DEF Ahead
  <2>4. ~(i <= offset)
    BY <1>5, <1>11, <2>3
  <2>5. offset < i /\ i <= offset + eventsPerPage
    BY <1>3, <1>5, <1>7, <1>11, <2>2, <2>3, <2>4, LiveAssumption
  <2> QED
    BY <1>7, <2>2, <2>5
<1> HIDE DEF v, R, S, N
<1>12. Reads(v)
  <2>1. v.page > 0 /\ v.base \subseteq Stored /\ w.read \subseteq v.read
    BY <1>9 DEF R
  <2>2. ASSUME Link[w.asked] = w.asked, NEW e \in w.base \cap Selected[w.asked]
        PROVE  \/ Tied(e, w.asked) \/ e \in v.read
               \/ v.more /\ ~(Cardinality(Ahead(e, Selected[w.asked])) <= w.page * eventsPerPage)
    BY <1>5, <1>9, <1>11, <2>1, <2>2
  <2> QED
    BY <1>9, <2>1, <2>2 DEF Reads
<1> QED
  BY <1>9, <1>10, <1>12

\* The list: the first page, or the one before or after the present one.
LEMMA ListReads ==
    ASSUME StreamTypes, ReadSoFar, NEW c \in Channels, eventsListHandler(c)
    PROVE  ReadSoFar'
<1>1. /\ IsFiniteSet(Stored) /\ walk \in [Channels -> Walks] /\ Reads(walk[c])
      /\ UNCHANGED timestamp /\ Link \in [Filters -> Filters] /\ Stored \subseteq Events
  BY LiveAssumption DEF ReadSoFar, eventsListHandler, Stored
<1> DEFINE v == walk[c]
<1>2. v \in Walks /\ v.page \in Nat /\ v.base \subseteq Stored
  BY <1>1 DEF Walks, Reads
<1>3. PICK w : /\ ShowPage(c, w)
               /\ \/ w \in Walks /\ w.page = 1 /\ w.base = Stored /\ w.filter = w.asked
                  \/ w \in eventsTableAndPagination(v)
  <2>1. PICK x : /\ ShowPage(c, x)
                 /\ \/ \E f \in Filters :
                          x = [NoWalk EXCEPT !.page = 1, !.asked = f, !.filter = f, !.base = Stored]
                    \/ x \in eventsTableAndPagination(v)
    BY DEF eventsListHandler
  <2>2. NoWalk \in Walks /\ Stored \in SUBSET Events
    BY <1>1, LiveAssumption DEF NoWalk, Walks
  <2>3. ASSUME NEW f \in Filters,
               x = [NoWalk EXCEPT !.page = 1, !.asked = f, !.filter = f, !.base = Stored]
        PROVE  x \in Walks /\ x.page = 1 /\ x.base = Stored /\ x.filter = x.asked
    <3>1. PICK n \in Walks, B \in SUBSET Events : n = NoWalk /\ B = Stored
      BY <2>2
    <3>2. x = [n EXCEPT !.page = 1, !.asked = f, !.filter = f, !.base = B]
      BY <2>3, <3>1, Zenon
    <3>3. x \in Walks /\ x.page = 1 /\ x.asked = f /\ x.filter = f /\ x.base = B
      BY <3>2 DEF Walks
    <3> QED
      BY <3>1, <3>3, Zenon
  <2> QED
    BY <2>1, <2>3, Zenon
<1>4. ASSUME NEW e \in Stored, NEW F, e \in F
      PROVE  ~(Cardinality(Ahead(e, F)) <= 0)
  <2>1. e \in Ahead(e, F) /\ Ahead(e, F) \subseteq Stored
    <3>1. timestamp[e] \in Nat
      BY DEF StreamTypes, TypeOK, BusTypeOK, Stored
    <3> QED
      BY <1>4, <3>1 DEF Ahead
  <2>2. IsFiniteSet(Ahead(e, F))
    BY <1>1, <2>1, FS_Subset
  <2>3. Cardinality(Ahead(e, F)) \in Nat /\ Cardinality(Ahead(e, F)) # 0
    BY <2>1, <2>2, FS_CardinalityType, FS_EmptySet
  <2> QED
    BY <2>3
<1>5. /\ w \in Walks /\ w.page > 0 /\ w.base \subseteq Stored
      /\ Link[w.asked] = w.asked =>
            /\ w.filter = w.asked
            /\ \A e \in w.base \cap Selected[w.asked] :
                  \/ Tied(e, w.asked) \/ e \in w.read
                  \/ ~(Cardinality(Ahead(e, Selected[w.asked])) <= (w.page - 1) * eventsPerPage)
  <2>1. ASSUME NEW x \in Walks, x.page = 1, x.base \subseteq Stored
        PROVE  \A e \in x.base \cap Selected[x.asked] :
                  ~(Cardinality(Ahead(e, Selected[x.asked])) <= (x.page - 1) * eventsPerPage)
    <3>1. (x.page - 1) * eventsPerPage = 0
      BY <2>1, LiveAssumption
    <3> QED
      BY <1>4, <2>1, <3>1
  <2>2. CASE w \in Walks /\ w.page = 1 /\ w.base = Stored /\ w.filter = w.asked
    BY <2>1, <2>2
  <2>3. ASSUME NEW p \in Nat, w = filterQueryString(v, p)
        PROVE  /\ w \in Walks /\ w.page = p /\ w.base = v.base
               /\ w.asked = v.asked /\ w.filter = Link[v.filter] /\ w.read = v.read
    <3>1. Link[v.filter] \in Filters
      BY <1>1, <1>2 DEF Walks
    <3> QED
      BY <1>2, <2>3, <3>1 DEF filterQueryString, Walks
  <2>4. CASE v.page - 1 \in 1..v.page /\ w = filterQueryString(v, v.page - 1)
    <3>1. PICK q \in Nat : v.page = q + 1 + 1
      <4>1. v.page - 2 \in Nat /\ v.page = v.page - 2 + 1 + 1
        BY <1>2, <2>4
      <4> QED
        BY <4>1
    <3>2. /\ w \in Walks /\ w.page = q + 1 /\ w.base = v.base
          /\ w.asked = v.asked /\ w.filter = Link[v.filter] /\ w.read = v.read
      <4>1. q + 1 \in Nat /\ w = filterQueryString(v, q + 1)
        BY <2>4, <3>1
      <4> QED
        BY <2>3, <4>1
    <3>3. PICK a \in Nat, b \in Nat : /\ a = (w.page - 1) * eventsPerPage
                                      /\ b = v.page * eventsPerPage /\ a <= b
      <4>1. w.page - 1 = q
        BY <3>2
      <4> QED
        BY <3>1, <4>1, OneMorePage, LiveAssumption
    <3>4. ASSUME Link[w.asked] = w.asked, NEW e \in w.base \cap Selected[w.asked],
                 Cardinality(Ahead(e, Selected[w.asked])) <= (w.page - 1) * eventsPerPage
          PROVE  Tied(e, w.asked) \/ e \in w.read
      <4>1. Cardinality(Ahead(e, Selected[w.asked])) \in Nat
        <5>1. Ahead(e, Selected[w.asked]) \subseteq Stored
          BY DEF Ahead
        <5> QED
          BY <1>1, <5>1, FS_Subset, FS_CardinalityType
      <4>2. Cardinality(Ahead(e, Selected[w.asked])) <= v.page * eventsPerPage
        BY <3>3, <3>4, <4>1
      <4> QED
        BY <1>1, <3>1, <3>2, <3>4, <4>2 DEF Reads
    <3>5. Link[w.asked] = w.asked => w.filter = w.asked
      BY <1>1, <3>1, <3>2 DEF Reads
    <3> QED
      BY <1>2, <3>2, <3>4, <3>5
  <2>5. CASE v.more /\ w = filterQueryString(v, v.page + 1)
    <3>1. /\ w \in Walks /\ w.page = v.page + 1 /\ w.base = v.base
          /\ w.asked = v.asked /\ w.filter = Link[v.filter] /\ w.read = v.read
      BY <1>2, <2>3, <2>5
    <3>2. v.page # 0
      BY <1>1, <2>5 DEF Reads
    <3>3. CASE v.page > 0
      <4>1. (w.page - 1) * eventsPerPage = v.page * eventsPerPage
        BY <1>2, <3>1, OneMorePage
      <4> QED
        BY <1>1, <1>2, <3>1, <3>3, <4>1 DEF Reads
    <3> QED
      BY <1>2, <3>2, <3>3
  <2> QED
    BY <1>3, <2>2, <2>4, <2>5 DEF eventsTableAndPagination
<1>6. PICK x \in Walks : Reads(x) /\ walk' = [walk EXCEPT ![c] = x]
  BY <1>1, <1>3, <1>5, ShowReads
<1>7. walk' \in [Channels -> Walks] /\ \A d \in Channels : Reads(walk'[d])
  BY <1>1, <1>6 DEF ReadSoFar
<1>8. \A d \in Channels : Reads(walk[d])'
  BY <1>1, <1>7 DEF Reads, Tied, Ahead, Stored
<1> QED
  BY <1>1, <1>7, <1>8 DEF ReadSoFar, Stored

\* The page goes live and forgets the list; whatever else happens leaves the list alone.
LEMMA LiveReads ==
    ASSUME ReadSoFar, NEW c \in Channels, UNCHANGED timestamp,
           UNCHANGED walk \/ walk' = [walk EXCEPT ![c] = NoWalk]
    PROVE  ReadSoFar'
<1>1. NoWalk \in Walks /\ NoWalk.page = 0 /\ NoWalk.base = {} /\ ~NoWalk.more
  BY LiveAssumption DEF NoWalk, Walks
<1>2. walk \in [Channels -> Walks] /\ \A d \in Channels : Reads(walk[d])
  BY DEF ReadSoFar
<1>3. Reads(NoWalk)
  BY <1>1 DEF Reads
<1> HIDE DEF NoWalk
<1>4. walk' \in [Channels -> Walks] /\ \A d \in Channels : Reads(walk'[d])
  BY <1>1, <1>2, <1>3
<1>5. \A d \in Channels : Reads(walk[d])'
  BY <1>4 DEF Reads, Tied, Ahead, Stored
<1> QED
  BY <1>4, <1>5 DEF ReadSoFar, Stored

-----------------------------------------------------------------------------
(* The invariant.                                                          *)

LEMMA InitInv == Init => Inv
<1> SUFFICES ASSUME Init PROVE Inv
  OBVIOUS
<1>1. /\ timestamp = [e \in Events |-> NotStored] /\ now = 0
      /\ pub = [p \in Publishers |-> Nobody] /\ subscribers = {}
      /\ buffer = [c \in Channels |-> <<>>] /\ missing = [c \in Channels |-> {}]
      /\ conn = [c \in Channels |-> "off"]
      /\ last = [c \in Channels |-> NoID] /\ since = [c \in Channels |-> NoID]
      /\ wire = [c \in Channels |-> <<>>] /\ walk = [c \in Channels |-> NoWalk]
      /\ restarts = 0 /\ known = [c \in Channels |-> {}]
      /\ seen = [c \in Channels |-> {}] /\ told = [c \in Channels |-> {}]
  BY DEF Init, BusInit, Idle
<1>2. /\ MaxMessages \in Nat /\ MaxRestarts \in Nat /\ BufferSize \in Nat /\ Len(<<>>) = 0
      /\ <<>> \in Seq(Messages) /\ <<>> \in Seq(Written)
  BY BusAssumption, LiveAssumption
<1>3. BusTypeOK
  BY <1>1, <1>2 DEF BusTypeOK
<1>4. StreamTypes
  BY <1>1, <1>2, <1>3 DEF StreamTypes, TypeOK, Running
<1>5. AllHeard /\ KnownStored
  BY <1>1 DEF AllHeard, Settled, ToSend, ToTell, Running, KnownStored
<1>6. Stored = {}
  BY <1>1 DEF Stored
<1>7. ReadSoFar
  <2>1. NoWalk \in Walks /\ NoWalk.page = 0 /\ NoWalk.base = {} /\ ~NoWalk.more
    BY LiveAssumption DEF NoWalk, Walks
  <2> HIDE DEF NoWalk
  <2>2. IsFiniteSet(Stored)
    BY <1>6, FS_EmptySet
  <2>3. Reads(NoWalk)
    BY <2>1 DEF Reads
  <2> QED
    BY <1>1, <2>1, <2>2, <2>3 DEF ReadSoFar
<1> QED
  BY <1>4, <1>5, <1>7 DEF Inv

\* A page that is not live owes nothing, and the others are as they were.
LEMMA OffHeard ==
    ASSUME StreamTypes, AllHeard, NEW c \in Channels,
           startLive(c) \/ Reconnect(c) \/ eventsListHandler(c)
    PROVE  AllHeard'
<1>1. /\ UNCHANGED <<busVars, known, seen, told, wire>> /\ conn'[c] \notin Running
      /\ \A d \in Channels \ {c} : conn'[d] = conn[d] /\ since'[d] = since[d]
  BY DEF StreamTypes, TypeOK, startLive, Reconnect, eventsListHandler, Running
<1>2. ASSUME NEW d \in Channels, NEW e \in Events
      PROVE  Settled(d, e)'
  <2>1. Settled(d, e)
    BY DEF AllHeard
  <2> QED
    BY <1>1, <2>1, NotRunning, Elsewhere
<1> QED
  BY <1>2 DEF AllHeard

LEMMA RestartHeard ==
    ASSUME StreamTypes, Restart
    PROVE  AllHeard'
<1>1. \A c \in Channels : conn'[c] \notin Running
  BY DEF Restart, Running
<1> QED
  BY <1>1, NotRunning DEF AllHeard

LEMMA NextInv == Inv /\ [Next]_vars => Inv'
<1> SUFFICES ASSUME Inv, [Next]_vars
             PROVE  Inv'
  OBVIOUS
<1>1. StreamTypes /\ KnownStored /\ AllHeard /\ ReadSoFar
  BY DEF Inv
<1>0. KnownStored'
  BY <1>1, KnownIsStored
<1>2. ASSUME NEW p \in Publishers, Happen(p), Outside
      PROVE  Inv'
  BY <1>0, <1>1, <1>2, MakeHeard, InsertKeepsRead DEF Inv
<1>3. ASSUME UNCHANGED <<timestamp, walk>>
      PROVE  ReadSoFar'
  BY <1>1, <1>3 DEF ReadSoFar, Reads, Tied, Ahead, Stored
<1>4. ASSUME NEW p \in Publishers, Publish(p), Outside
      PROVE  Inv'
  <2>1. UNCHANGED <<timestamp, walk>>
    BY <1>4 DEF Publish, Lock, Send, Outside
  <2>2. StreamTypes' /\ AllHeard'
    <3>1. CASE Lock(p)
      BY <1>1, <1>4, <3>1, LockHeard
    <3>2. ASSUME NEW c \in Channels, Send(p, c)
          PROVE  StreamTypes' /\ AllHeard'
      BY <1>1, <1>4, <3>2, SendHeard
    <3> QED
      BY <1>4, <3>1, <3>2 DEF Publish
  <2> QED
    BY <1>0, <1>3, <2>1, <2>2 DEF Inv
<1>5. ASSUME NEW c \in Channels,
             \/ startLive(c) \/ eventsStreamHandler(c) \/ Forward(c) \/ Receive(c)
             \/ Break(c) \/ stopLive(c) \/ Reconnect(c) \/ eventsListHandler(c)
      PROVE  Inv'
  <2>1. StreamTypes'
    BY <1>1, <1>5, PageTypes
  <2>2. AllHeard'
    <3>1. CASE startLive(c) \/ Reconnect(c) \/ eventsListHandler(c)
      BY <1>1, <3>1, OffHeard
    <3>2. CASE eventsStreamHandler(c)
      <4>1. conn[c] = "opening" \/ conn[c] = "counting"
        BY <3>2 DEF eventsStreamHandler
      <4> QED
        BY <1>1, <3>2, <4>1, ListenHeard, CountHeard
    <3>3. CASE Forward(c)
      BY <1>1, <3>3, ForwardHeard
    <3>4. CASE Receive(c)
      BY <1>1, <3>4, ReceiveHeard
    <3>5. CASE Break(c) \/ stopLive(c)
      BY <1>1, <3>5, HangupHeard
    <3> QED
      BY <1>5, <3>1, <3>2, <3>3, <3>4, <3>5
  <2>3. ReadSoFar'
    <3>1. CASE eventsListHandler(c)
      BY <1>1, <3>1, ListReads
    <3>2. CASE startLive(c)
      <4>1. UNCHANGED timestamp /\ walk' = [walk EXCEPT ![c] = NoWalk]
        BY <3>2 DEF startLive
      <4> QED
        BY <1>1, <4>1, LiveReads
    <3>3. CASE eventsStreamHandler(c) \/ Forward(c) \/ Receive(c) \/ Reconnect(c)
      BY <1>3, <3>3 DEF eventsStreamHandler, Forward, Receive, Reconnect
    <3>4. CASE Break(c) \/ stopLive(c)
      BY <1>3, <3>4 DEF Break, stopLive, Hangup
    <3> QED
      BY <1>5, <3>1, <3>2, <3>3, <3>4
  <2> QED
    BY <1>0, <2>1, <2>2, <2>3 DEF Inv
<1>6. CASE Restart
  <2>1. UNCHANGED <<timestamp, walk>>
    BY <1>6 DEF Restart
  <2> QED
    BY <1>0, <1>1, <1>3, <1>6, <2>1, RestartTypes, RestartHeard DEF Inv
<1>7. CASE UNCHANGED vars
  <2>1. StreamTypes'
    BY <1>1, <1>7 DEF StreamTypes, TypeOK, BusTypeOK, Stored
  <2>2. AllHeard'
    BY <1>1, <1>7 DEF AllHeard, Settled, ToSend, ToTell, Streams, Counts, Learned,
                        Heard, InHand, Buffered, OnWire, Stored
  <2> QED
    BY <1>0, <1>3, <1>7, <2>1, <2>2 DEF Inv
<1> QED
  BY <1>2, <1>4, <1>5, <1>6, <1>7 DEF Next

LEMMA InvHolds == Spec => []Inv
  BY InitInv, NextInv, PTL DEF Spec

-----------------------------------------------------------------------------
(* The theorems.                                                           *)

\* A channel is in the bus exactly while the handler of its stream runs, and Publish
\* sends to none that has left it (app/eventbus.go:50-86, views/events.go:489-568).
THEOREM LiveTypes == Spec => []TypeOK
<1>1. Inv => TypeOK
  BY DEF Inv, StreamTypes
<1> QED
  BY <1>1, InvHolds, PTL

\* An open stream passes over no event: one that passes the filter of the stream and is
\* stored after its connection subscribed has its message sent, and one that was stored
\* before, is later than the last message the page had and passes the filter of the query
\* is counted for it, unless a full buffer or an error of the query has cost it
\* (views/events.go:505-538).
THEOREM NoEventUntold == Spec => []NoGap
<1>1. Inv => NoGap
  <2> SUFFICES ASSUME Inv, NEW c \in Channels, conn[c] = "open", NEW e \in Stored,
                      Streams(c, e) \/ Counts(c, e)
               PROVE  Accounted(c, e)
    BY DEF NoGap
  <2>1. e \in Events /\ (ToSend(c, e) \/ ToTell(c, e))
    BY DEF ToSend, ToTell, Running, Stored
  <2>2. Heard(c, e)
    BY <2>1 DEF Inv, AllHeard, Settled, Heard
  <2> QED
    BY <2>2 DEF Heard, Learned, InHand, Buffered, OnWire, Tells, Created, Accounted, Coming
<1> QED
  BY <1>1, InvHolds, PTL

\* A reader who follows the links of the list to its end has read every event that their
\* filter selected at first, whatever is inserted meanwhile: if the links carry that
\* filter, and but for an event that shares its timestamp with another of the list
\* (views/events.go:69-135, events_templ.go:47-68).
THEOREM PagesMissNothing == Spec => []PagesCover
<1>1. Inv => PagesCover
  <2> SUFFICES ASSUME Inv, NEW c \in Channels, walk[c].page > 0, ~walk[c].more,
                      Link[walk[c].asked] = walk[c].asked,
                      NEW e \in walk[c].base \cap Selected[walk[c].asked]
               PROVE  e \in walk[c].read \/ Tied(e, walk[c].asked)
    BY DEF PagesCover
  <2>1. Reads(walk[c])
    BY DEF Inv, ReadSoFar
  <2> QED
    BY <2>1 DEF Reads
<1> QED
  BY <1>1, InvHolds, PTL
=============================================================================
