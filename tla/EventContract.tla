--------------------------- MODULE EventContract ----------------------------
(***************************************************************************)
(* What Slurpee promises of an event: the statuses of docs/concepts.md as  *)
(* app/delivery.go writes them, and the deliveries that stand behind them. *)
(* There are no processes, queues, attempts or crashes here.  An event     *)
(* goes from pending through partial to one final status.  Its audience is *)
(* set from the subscriptions in force when it is dispatched, and again    *)
(* when it is resumed; only the audience receives it, and only until the   *)
(* final status; "delivered" is never claimed while a member of the        *)
(* audience has not accepted the event.                                    *)
(***************************************************************************)
CONSTANTS Events, Subscribers

VARIABLES
    status,     \* status[e]: events.delivery_status, "none" before the insert
    accepted,   \* <<e, s>> once s has answered a POST of e with 2xx
    audience,   \* audience[e]: the subscribers e is being delivered to
    current     \* current[e]: whom the subscriptions in force would deliver e to

vars == <<status, accepted, audience, current>>

Unfinished(e) == status[e] \in {"pending", "partial"}

Init ==
    /\ status = [e \in Events |-> "none"]
    /\ accepted = {}
    /\ audience = [e \in Events |-> {}]
    /\ current \in [Events -> SUBSET Subscribers]

\* Somebody edits the subscriptions.
Subscribe ==
    /\ current' \in [Events -> SUBSET Subscribers]
    /\ UNCHANGED <<status, accepted, audience>>

Publish(e) ==
    /\ status[e] = "none"
    /\ status' = [status EXCEPT ![e] = "pending"]
    /\ UNCHANGED <<accepted, audience, current>>

\* The event is dispatched or resumed.
Address(e) ==
    /\ Unfinished(e)
    /\ audience' = [audience EXCEPT ![e] = current[e]]
    /\ UNCHANGED <<status, accepted, current>>

\* A subscriber answers 2xx, perhaps again.
Accept(e, s) ==
    /\ Unfinished(e) /\ s \in audience[e]
    /\ accepted' = accepted \cup {<<e, s>>}
    /\ UNCHANGED <<status, audience, current>>

\* An attempt failed and will be retried.
MarkPartial(e) ==
    /\ Unfinished(e) /\ audience[e] # {}
    /\ status' = [status EXCEPT ![e] = "partial"]
    /\ UNCHANGED <<accepted, audience, current>>

\* The final status, for the audience there is or for the one of this moment.
Conclude(e, st) ==
    /\ Unfinished(e)
    /\ \E now \in {audience[e], current[e]} :
          /\ audience' = [audience EXCEPT ![e] = now]
          /\ \/ st = "delivered" /\ \A s \in now : <<e, s>> \in accepted
             \/ st = "failed"
             \/ st = "recorded" /\ now = {}
    /\ status' = [status EXCEPT ![e] = st]
    /\ UNCHANGED <<accepted, current>>

Next ==
    \/ Subscribe
    \/ \E e \in Events :
        \/ Publish(e) \/ Address(e) \/ MarkPartial(e)
        \/ \E s \in Subscribers : Accept(e, s)
        \/ \E st \in {"delivered", "failed", "recorded"} : Conclude(e, st)

Spec == Init /\ [][Next]_vars
=============================================================================
