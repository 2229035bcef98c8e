------------------------------ MODULE EventBus ------------------------------
(***************************************************************************)
(* EventBus of app/eventbus.go and the goroutines that publish on it:      *)
(* request handlers that have inserted an event, workers and replays that  *)
(* have written a status or ended a POST (app/delivery.go).  A message is  *)
(* given its time before Publish takes the lock, so that messages may go   *)
(* out in another order than their times and numbers; the sends happen     *)
(* under the read lock and never wait.                                     *)
(***************************************************************************)
EXTENDS Naturals, Sequences

CONSTANTS
    Events,
    NotStored,   \* no row of the event
    Supplied,    \* timestamps that publishers of events put in their requests
    Publishers,  \* goroutines that publish
    Nobody,      \* an idle publisher has no message
    Channels,    \* one for each open stream
    BufferSize,  \* subscriberBufferSize
    MaxMessages  \* bound: messages ever published

Types == {"created", "status_changed", "delivery_attempt"}
Messages == [type : Types, event : Events, at : Nat]
Publications == [msg : Messages, step : {"lock", "send"}, left : SUBSET Channels]

ASSUME BusAssumption ==
    /\ NotStored \notin Nat /\ Supplied \subseteq Nat
    /\ BufferSize \in Nat \ {0} /\ MaxMessages \in Nat
    /\ Nobody \notin Publications

VARIABLES
    timestamp,  \* timestamp[e]: column timestamp of its row, or NotStored
    now,        \* the latest clock reading: one is made for each message
    pub,        \* pub[p]: the message that p publishes, and the channels still to serve
    subscribers,\* channels in the bus
    buffer,     \* buffer[c]
    missing     \* history; missing[c]: events whose created message c's full buffer has
                \* cost since c was put into the bus

bus == <<subscribers, buffer, missing>>
busVars == <<timestamp, now, pub, bus>>

Stored == {e \in Events : timestamp[e] # NotStored}
Idle == [p \in Publishers |-> Nobody]

BusTypeOK ==
    /\ timestamp \in [Events -> Nat \cup {NotStored}]
    /\ now \in 0..MaxMessages
    /\ pub \in [Publishers -> Publications \cup {Nobody}]
    /\ \A p \in Publishers : pub[p] # Nobody =>
          /\ pub[p].msg.event \in Stored
          /\ pub[p].left \subseteq subscribers
          /\ pub[p].step = "send" <=> pub[p].left # {}
    /\ subscribers \subseteq Channels
    /\ buffer \in [Channels -> Seq(Messages)]
    /\ \A c \in Channels : Len(buffer[c]) <= BufferSize
    /\ missing \in [Channels -> SUBSET Events]

\* NewEventBus.
BusInit ==
    /\ timestamp = [e \in Events |-> NotStored]
    /\ now = 0
    /\ pub = Idle
    /\ subscribers = {}
    /\ buffer = [c \in Channels |-> <<>>]
    /\ missing = [c \in Channels |-> {}]

\* p has made a message and calls Publish.
Make(p, type, e, at) ==
    /\ pub[p] = Nobody /\ now < MaxMessages
    /\ pub' = [pub EXCEPT ![p] = [msg |-> [type |-> type, event |-> e, at |-> at],
                                  step |-> "lock", left |-> {}]]
    /\ now' = now + 1
    /\ UNCHANGED bus

\* createEventHandler inserts the event, with the time of its request or the one in it.
PublishCreatedEvent(p, e) ==
    /\ e \notin Stored
    /\ \E t \in {now + 1} \cup Supplied :
          /\ timestamp' = [timestamp EXCEPT ![e] = t]
          /\ Make(p, "created", e, t)

\* The end of a POST, or a status written: the time is that of the POST or the write.
\* A replay may be asked for, and a restart resume, whatever is stored.
PublishProgress(p, e, type) ==
    /\ e \in Stored
    /\ Make(p, type, e, now + 1)
    /\ UNCHANGED timestamp

\* Publish takes the read lock.
Lock(p) ==
    /\ pub[p] # Nobody /\ pub[p].step = "lock"
    /\ pub' = [pub EXCEPT ![p] = IF subscribers = {} THEN Nobody
                                 ELSE [@ EXCEPT !.step = "send", !.left = subscribers]]
    /\ UNCHANGED <<timestamp, now, bus>>

\* The channel has been served; Publish returns after the last one.
Served(p, c) ==
    pub' = [pub EXCEPT ![p] = IF pub[p].left = {c} THEN Nobody
                              ELSE [pub[p] EXCEPT !.left = pub[p].left \ {c}]]

\* Mutant: the send waits for room in the buffer.
SendOrWait(p, c) ==
    /\ pub[p] # Nobody /\ c \in pub[p].left
    /\ Len(buffer[c]) < BufferSize
    /\ buffer' = [buffer EXCEPT ![c] = Append(@, pub[p].msg)]
    /\ Served(p, c)
    /\ UNCHANGED <<timestamp, now, subscribers, missing>>

\* The message goes into the buffer of c, or nowhere if that is full.
Send(p, c) ==
    /\ pub[p] # Nobody /\ c \in pub[p].left
    /\ \/ /\ Len(buffer[c]) < BufferSize
          /\ buffer' = [buffer EXCEPT ![c] = Append(@, pub[p].msg)]
          /\ UNCHANGED missing
       \/ /\ Len(buffer[c]) = BufferSize
          /\ missing' = [missing EXCEPT ![c] =
                           @ \cup {pub[p].msg.event : t \in {"created"} \cap {pub[p].msg.type}}]
          /\ UNCHANGED buffer
    /\ Served(p, c)
    /\ UNCHANGED <<timestamp, now, subscribers>>

\* No publisher holds the lock for reading.
Lockable == \A p \in Publishers : pub[p] # Nobody => pub[p].step = "lock"

Subscribe(c) ==
    /\ Lockable
    /\ subscribers' = subscribers \cup {c}
    /\ buffer' = [buffer EXCEPT ![c] = <<>>]
    /\ missing' = [missing EXCEPT ![c] = {}]

\* The channel is gone for good: what is in it reaches nobody.
Unsubscribe(c) ==
    /\ Lockable
    /\ subscribers' = subscribers \ {c}
    /\ buffer' = [buffer EXCEPT ![c] = <<>>]

Publish(p) == Lock(p) \/ \E c \in Channels : Send(p, c)

Happen(p) ==
    \/ \E e \in Events : PublishCreatedEvent(p, e)
    \/ \E e \in Events, type \in Types \ {"created"} : PublishProgress(p, e, type)
=============================================================================
