----------------------------- MODULE Semaphores -----------------------------
(***************************************************************************)
(* The semaphores of the delivery pipeline (getSemaphore of                *)
(* app/delivery.go) when max_parallel changes, which Delivery keeps        *)
(* constant.  A task carries the max_parallel its subscriber had when the  *)
(* event was dispatched, through all its retries.  A worker asks for a     *)
(* semaphore of that size: one of another size is replaced, while those    *)
(* who hold or await its slots keep it.                                    *)
(*                                                                         *)
(* The subscriber in the task is the subscription cache's.  A handler      *)
(* writes the row first and flushes the cache last; in between, and after  *)
(* a handler that failed and never flushed, the old row is dispatched      *)
(* with, until somebody else flushes.                                      *)
(*                                                                         *)
(* A load of the cache is one step here (Registry takes it apart), and so  *)
(* are the start of the process and its resume (Delivery has them apart);  *)
(* the tasks that wait are taken in any order.                             *)
(***************************************************************************)
EXTENDS Integers, FiniteSets

CONSTANTS
    Subscribers,
    Tasks,       \* one event for one subscriber each
    To,          \* To[t]: the subscriber
    Sizes,       \* values that max_parallel is given
    Workers,     \* Config.DeliveryWorkers
    Addresses,   \* where semaphores are made
    NoSemaphore,
    Unloaded,    \* a cache that is not loaded
    DefaultRetries,
    MaxEdits,    \* bound
    MaxRestarts  \* bound

Semaphores == [id : Addresses, cap : Int]

ASSUME SemaphoreAssumption ==
    /\ IsFiniteSet(Tasks)
    /\ To \in [Tasks -> Subscribers]
    /\ Sizes \subseteq Int /\ Sizes # {}
    /\ Workers \in Nat
    /\ NoSemaphore \notin Semaphores
    /\ Unloaded \notin [Subscribers -> Sizes]
    /\ DefaultRetries \in Nat /\ MaxEdits \in Nat /\ MaxRestarts \in Nat

VARIABLES
    size,     \* size[s]: subscribers.max_parallel
    cache,    \* the same in the subscription cache, or Unloaded
    at,       \* at[t]: "none", "queued" (also in a timer), "acquire", "post", "done"
    limit,    \* limit[t]: the max_parallel in the task
    attempt,  \* attempt[t]: attemptNum, which a resume takes from delivery_attempts
    sem,      \* sem[t]: the semaphore that its worker got
    current,  \* current[s]: the entry of the map semaphores
    tokens,   \* tokens[i]: slots taken of the semaphore at i
    edits, restarts,
    \* history
    edited    \* edited[s]: max_parallel has changed and an older value is still in use

heap == <<current, tokens>>
vars == <<size, cache, at, limit, attempt, sem, heap, edits, restarts, edited>>

Busy == {t \in Tasks : at[t] \in {"acquire", "post"}}
Unfinished(s) == {t \in Tasks : To[t] = s /\ at[t] \in {"queued", "acquire", "post"}}
Posting(s) == {t \in Tasks : To[t] = s /\ at[t] = "post"}
\* No task and no cache has an older max_parallel of s.
Settled(s) == Unfinished(s) = {} /\ (cache = Unloaded \/ cache[s] = size[s])
Holders(i) == {t \in Tasks : at[t] = "post" /\ sem[t].id = i}

Init ==
    /\ size \in [Subscribers -> Sizes] /\ cache = Unloaded
    /\ at = [t \in Tasks |-> "none"]
    /\ limit = [t \in Tasks |-> 0]
    /\ attempt = [t \in Tasks |-> 0]
    /\ sem = [t \in Tasks |-> NoSemaphore]
    /\ current = [s \in Subscribers |-> NoSemaphore]
    /\ tokens = [i \in Addresses |-> 0]
    /\ edits = 0 /\ restarts = 0
    /\ edited = [s \in Subscribers |-> FALSE]

-----------------------------------------------------------------------------
\* A registration or a form writes the row; the API checks nothing of the value.
UpdateSubscriber(s, m) ==
    /\ edits < MaxEdits /\ m # size[s]
    /\ size' = [size EXCEPT ![s] = m]
    /\ edits' = edits + 1
    /\ UNCHANGED <<cache, at, limit, attempt, sem, heap, restarts>>
    /\ edited' = [edited EXCEPT ![s] = ~Settled(s)']

\* The end of a handler, of this edit or of another.  A handler that fails after its
\* write returns without one.
Flush ==
    /\ cache # Unloaded
    /\ cache' = Unloaded
    /\ edited' = [s \in Subscribers |-> edited[s] /\ Unfinished(s) # {}]
    /\ UNCHANGED <<size, at, limit, attempt, sem, heap, edits, restarts>>

\* The first lookup after a Flush.
Load ==
    /\ cache = Unloaded
    /\ cache' = size
    /\ UNCHANGED <<size, at, limit, attempt, sem, heap, edits, restarts, edited>>

\* dispatchEvent copies the subscriber of the cache into the task.
Dispatch(t) ==
    /\ at[t] = "none" /\ cache # Unloaded
    /\ at' = [at EXCEPT ![t] = "queued"]
    /\ limit' = [limit EXCEPT ![t] = cache[To[t]]]
    /\ UNCHANGED <<size, cache, attempt, sem, heap, edits, restarts, edited>>

\* Addresses at which the map or a worker has a semaphore.
Used == {current[s].id : s \in {s \in Subscribers : current[s] # NoSemaphore}}
            \cup {sem[t].id : t \in Busy}

Make(s, m) ==
    LET new == CHOOSE i \in Addresses \ Used : TRUE
    IN  /\ Addresses \ Used # {}
        /\ current' = [current EXCEPT ![s] = [id |-> new, cap |-> m]]
        /\ tokens' = [tokens EXCEPT ![new] = 0]

\* Mutant: the map is not consulted.
getNewSemaphore(s, m) == Make(s, m)

\* The semaphore of s, if its size is m, or else a new one.
getSemaphore(s, m) ==
    IF current[s] # NoSemaphore /\ current[s].cap = m THEN UNCHANGED heap ELSE Make(s, m)

\* A worker takes t.
Take(t) ==
    /\ at[t] = "queued" /\ Cardinality(Busy) < Workers
    /\ limit[t] >= 0
    /\ getSemaphore(To[t], limit[t])
    /\ sem' = [sem EXCEPT ![t] = current'[To[t]]]
    /\ at' = [at EXCEPT ![t] = "acquire"]
    /\ UNCHANGED <<size, cache, limit, attempt, edits, restarts, edited>>

Acquire(t) ==
    /\ at[t] = "acquire" /\ tokens[sem[t].id] < sem[t].cap
    /\ tokens' = [tokens EXCEPT ![sem[t].id] = @ + 1]
    /\ at' = [at EXCEPT ![t] = "post"]
    /\ UNCHANGED <<size, cache, limit, attempt, sem, current, edits, restarts, edited>>

\* t leaves its worker, done or for a retry.
Leave(t, next) ==
    /\ at' = [at EXCEPT ![t] = next]
    /\ attempt' = [attempt EXCEPT ![t] = IF next = "queued" THEN @ + 1 ELSE @]
    /\ sem' = [sem EXCEPT ![t] = NoSemaphore]
    /\ UNCHANGED <<size, cache, limit, current, edits, restarts>>
    /\ edited' = [edited EXCEPT ![To[t]] = @ /\ ~Settled(To[t])']

\* Mutant: the slot is given back to the semaphore the map has now.
ReleaseCurrent(t, good) ==
    /\ at[t] = "post" /\ tokens[current[To[t]].id] > 0
    /\ tokens' = [tokens EXCEPT ![current[To[t]].id] = @ - 1]
    /\ Leave(t, IF good \/ attempt[t] >= DefaultRetries THEN "done" ELSE "queued")

\* Mutant: one attempt too many.
ReleaseOnceMore(t, good) ==
    /\ at[t] = "post"
    /\ tokens' = [tokens EXCEPT ![sem[t].id] = @ - 1]
    /\ Leave(t, IF good \/ attempt[t] > DefaultRetries THEN "done" ELSE "queued")

\* Mutant: a failed POST keeps its slot.
ReleaseIfGood(t, good) ==
    /\ at[t] = "post"
    /\ tokens' = IF good THEN [tokens EXCEPT ![sem[t].id] = @ - 1] ELSE tokens
    /\ Leave(t, IF good \/ attempt[t] >= DefaultRetries THEN "done" ELSE "queued")

\* The POST has ended and the slot is given back.
Release(t, good) ==
    /\ at[t] = "post"
    /\ tokens' = [tokens EXCEPT ![sem[t].id] = @ - 1]
    /\ Leave(t, IF good \/ attempt[t] >= DefaultRetries THEN "done" ELSE "queued")

\* The process ends and another resumes the events that are not final: with them also
\* tasks that are done while another of the same event was not.
Reset ==
    /\ \E resumed \in SUBSET {t \in Tasks : at[t] # "none"} :
          /\ \A s \in Subscribers : Unfinished(s) \subseteq resumed
          /\ at' = [t \in Tasks |-> IF t \in resumed THEN "queued" ELSE at[t]]
          /\ limit' = [t \in Tasks |-> IF t \in resumed THEN size[To[t]] ELSE limit[t]]
          /\ cache' = IF resumed = {} THEN Unloaded ELSE size
    /\ sem' = [t \in Tasks |-> NoSemaphore]
    /\ current' = [s \in Subscribers |-> NoSemaphore]
    /\ tokens' = [i \in Addresses |-> 0]
    /\ edited' = [s \in Subscribers |-> FALSE]
    /\ UNCHANGED <<size, attempt, edits>>

Restart ==
    /\ restarts < MaxRestarts
    /\ restarts' = restarts + 1
    /\ Reset

\* make refuses a negative size, and nothing recovers the worker.
Panic(t) ==
    /\ at[t] = "queued" /\ Cardinality(Busy) < Workers
    /\ limit[t] < 0
    /\ Reset /\ UNCHANGED restarts

\* A server at rest.
Rest ==
    /\ \A t \in Tasks : at[t] \notin {"queued", "post"}
    /\ UNCHANGED vars

processDeliveryTask(t) ==
    Take(t) \/ Acquire(t) \/ \E good \in BOOLEAN : Release(t, good)

Next ==
    \/ \E s \in Subscribers, m \in Sizes : UpdateSubscriber(s, m)
    \/ Flush \/ Load
    \/ \E t \in Tasks : Dispatch(t) \/ processDeliveryTask(t) \/ Panic(t)
    \/ Restart \/ Rest

Spec == Init /\ [][Next]_vars

\* Workers go on, the queue and the senders at a full channel are served in order, and
\* a POST ends.
FairSpec == Spec /\ \A t \in Tasks : SF_vars(processDeliveryTask(t))

-----------------------------------------------------------------------------
\* Types; only a task with a worker has a semaphore.
TypeOK ==
    /\ size \in [Subscribers -> Sizes]
    /\ cache \in [Subscribers -> Sizes] \cup {Unloaded}
    /\ at \in [Tasks -> {"none", "queued", "acquire", "post", "done"}]
    /\ limit \in [Tasks -> Int]
    /\ attempt \in [Tasks -> 0..DefaultRetries]
    /\ sem \in [Tasks -> Semaphores \cup {NoSemaphore}]
    /\ \A t \in Tasks : t \in Busy <=> sem[t] # NoSemaphore
    /\ current \in [Subscribers -> Semaphores \cup {NoSemaphore}]
    /\ tokens \in [Addresses -> Nat]
    /\ edits \in 0..MaxEdits /\ restarts \in 0..MaxRestarts
    /\ edited \in [Subscribers -> BOOLEAN]

\* A slot is held for each POST and no other, also in a semaphore that the map has
\* forgotten, and never more slots than it has.
SlotPerPost ==
    /\ \A i \in Addresses : tokens[i] = Cardinality(Holders(i))
    /\ \A t \in Tasks : at[t] = "post" => tokens[sem[t].id] <= sem[t].cap

\* max_parallel limits the POSTs, except from a change of it until no older value is in
\* use: the tasks that had one are done, and a cache that was loaded before the change
\* has been flushed.  Then it holds again, whatever semaphores the change has left
\* behind, and nothing that happens to other subscribers matters.
LimitHonoured ==
    \A s \in Subscribers :
        ~edited[s] /\ Posting(s) # {} => Cardinality(Posting(s)) <= size[s]

\* docs/concepts.md: max_parallel is the "Maximum concurrent deliveries to this endpoint":
\* never more than the largest value it was given.
NeverAboveLargest ==
    \A s \in Subscribers : \E m \in Sizes : Cardinality(Posting(s)) <= m

\* Changes of max_parallel lose no delivery and block none for good, as long as all its
\* values are positive: workers that wait at a forgotten semaphore get their turn.
Completes ==
    [](\A s \in Subscribers : size[s] > 0) =>
        \A t \in Tasks : at[t] = "queued" ~> at[t] = "done"
=============================================================================
