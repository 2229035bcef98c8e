--------------------------- MODULE SemaphoreProofs ---------------------------
(***************************************************************************)
(* Proofs about Semaphores, for any number of subscribers, tasks, workers, *)
(* edits and restarts.  One address has one semaphore (OneEach), a task's  *)
(* semaphore has the size the task carries (Fitting), and unless an older  *)
(* max_parallel of a subscriber is in use, its tasks and the cache have    *)
(* the present one and the tasks share the semaphore in the map (Shared).  *)
(***************************************************************************)
EXTENDS Semaphores, FiniteSetTheorems, TLAPS

USE SemaphoreAssumption

OneEach ==
    /\ \A t, u \in Busy : sem[t].id = sem[u].id => sem[t] = sem[u]
    /\ \A s \in Subscribers, t \in Busy :
          current[s] # NoSemaphore /\ current[s].id = sem[t].id => current[s] = sem[t]
    /\ \A r, s \in Subscribers :
          current[r] # NoSemaphore /\ current[s] # NoSemaphore
            /\ current[r].id = current[s].id => current[r] = current[s]

Fitting == \A t \in Busy : sem[t].cap = limit[t]

Shared ==
    \A t \in Tasks : ~edited[To[t]] =>
        /\ at[t] \in {"queued", "acquire", "post"} => limit[t] = size[To[t]]
        /\ t \in Busy => sem[t] = current[To[t]]

Fresh == \A s \in Subscribers : ~edited[s] /\ cache # Unloaded => cache[s] = size[s]

Inv == TypeOK /\ SlotPerPost /\ OneEach /\ Fitting /\ Shared /\ Fresh

-----------------------------------------------------------------------------
\* A busy task has a semaphore, at an address.
LEMMA BusyHasSemaphore ==
    ASSUME TypeOK, NEW t \in Busy
    PROVE  t \in Tasks /\ sem[t] \in Semaphores /\ sem[t].id \in Addresses /\ sem[t].cap \in Int
BY DEF TypeOK, Busy, Semaphores

LEMMA HoldersFinite ==
    ASSUME NEW i
    PROVE  IsFiniteSet(Holders(i)) /\ Cardinality(Holders(i)) \in Nat
BY FS_Subset, FS_CardinalityType DEF Holders

\* What the getter leaves: the map entry of s fits and is either the old one, or new
\* and at an address nobody refers to.
LEMMA Getter ==
    ASSUME TypeOK, NEW s \in Subscribers, NEW m \in Int, getSemaphore(s, m)
    PROVE  /\ current'[s] \in Semaphores /\ current'[s].cap = m
           /\ current' \in [Subscribers -> Semaphores \cup {NoSemaphore}]
           /\ tokens' \in [Addresses -> Nat]
           /\ \A r \in Subscribers \ {s} : current'[r] = current[r]
           /\ \/ UNCHANGED heap
              \/ /\ current[s] = NoSemaphore \/ current[s].cap # m
                 /\ current'[s].id \notin Used
                 /\ tokens' = [tokens EXCEPT ![current'[s].id] = 0]
<1>1. CASE current[s] # NoSemaphore /\ current[s].cap = m
  BY <1>1 DEF getSemaphore, heap, TypeOK
<1>2. CASE ~(current[s] # NoSemaphore /\ current[s].cap = m)
  <2> DEFINE new == CHOOSE i \in Addresses \ Used : TRUE
  <2>1. new \in Addresses \ Used
    BY <1>2 DEF getSemaphore, Make
  <2>2. /\ current' = [current EXCEPT ![s] = [id |-> new, cap |-> m]]
        /\ tokens' = [tokens EXCEPT ![new] = 0]
    BY <1>2 DEF getSemaphore, Make
  <2>3. [id |-> new, cap |-> m] \in Semaphores
    BY <2>1 DEF Semaphores
  <2> QED BY <1>2, <2>1, <2>2, <2>3 DEF TypeOK
<1> QED BY <1>1, <1>2

-----------------------------------------------------------------------------
LEMMA InvInit == Init => Inv
<1> SUFFICES ASSUME Init PROVE Inv
  OBVIOUS
<1>1. Busy = {} /\ \A i : Holders(i) = {}
  BY DEF Init, Busy, Holders
<1>2. TypeOK
  BY <1>1 DEF Init, TypeOK
<1>3. SlotPerPost
  BY <1>1, FS_EmptySet DEF Init, SlotPerPost
<1>4. OneEach /\ Fitting /\ Shared /\ Fresh
  BY <1>1 DEF Init, OneEach, Fitting, Shared, Fresh
<1> QED BY <1>2, <1>3, <1>4 DEF Inv

\* The start of a process.
LEMMA InvReset == ASSUME Inv, Reset, restarts' \in 0..MaxRestarts PROVE Inv'
<1>0. PICK resumed \in SUBSET {t \in Tasks : at[t] # "none"} :
          /\ \A s \in Subscribers : Unfinished(s) \subseteq resumed
          /\ at' = [t \in Tasks |-> IF t \in resumed THEN "queued" ELSE at[t]]
          /\ limit' = [t \in Tasks |-> IF t \in resumed THEN size[To[t]] ELSE limit[t]]
          /\ cache' = IF resumed = {} THEN Unloaded ELSE size
  BY DEF Reset
<1>1. \A t \in Tasks : at'[t] \in {"none", "queued", "done"}
                        /\ (at'[t] = "queued" => limit'[t] = size[To[t]])
  BY <1>0 DEF Inv, TypeOK, Unfinished
<1>2. Busy' = {} /\ \A i : Holders(i)' = {}
  BY <1>1 DEF Busy, Holders
<1>3. TypeOK'
  <2>1. limit' \in [Tasks -> Int]
    BY <1>0 DEF Inv, TypeOK
  <2>2. at' \in [Tasks -> {"none", "queued", "acquire", "post", "done"}]
    BY <1>0 DEF Inv, TypeOK
  <2>3. /\ size' \in [Subscribers -> Sizes] /\ edits' \in 0..MaxEdits
        /\ attempt' \in [Tasks -> 0..DefaultRetries] /\ tokens' \in [Addresses -> Nat]
        /\ sem' \in [Tasks -> Semaphores \cup {NoSemaphore}]
        /\ \A t \in Tasks : t \in Busy' <=> sem'[t] # NoSemaphore
        /\ current' \in [Subscribers -> Semaphores \cup {NoSemaphore}]
        /\ edited' \in [Subscribers -> BOOLEAN]
    BY <1>2 DEF Inv, TypeOK, Reset
  <2>4. cache' \in [Subscribers -> Sizes] \cup {Unloaded}
    BY <1>0 DEF Inv, TypeOK
  <2> QED BY <2>1, <2>2, <2>3, <2>4 DEF TypeOK
<1>4. SlotPerPost'
  BY <1>1, <1>2, FS_EmptySet DEF Reset, SlotPerPost
<1>5. OneEach' /\ Fitting' /\ Shared'
  BY <1>1, <1>2 DEF Reset, OneEach, Fitting, Shared
<1>6. Fresh'
  BY <1>0 DEF Reset, Fresh
<1> QED BY <1>3, <1>4, <1>5, <1>6 DEF Inv

LEMMA InvUpdate ==
    ASSUME Inv, NEW s \in Subscribers, NEW m \in Sizes, UpdateSubscriber(s, m)
    PROVE  Inv'
<1>1. Busy' = Busy /\ \A i : Holders(i)' = Holders(i)
  BY DEF UpdateSubscriber, Busy, Holders
<1>2. TypeOK'
  BY <1>1 DEF Inv, UpdateSubscriber, TypeOK, heap
<1>3. SlotPerPost' /\ OneEach' /\ Fitting'
  BY <1>1 DEF Inv, UpdateSubscriber, SlotPerPost, OneEach, Fitting, heap
<1>4. ~edited'[s] => Unfinished(s) = {} /\ (cache' = Unloaded \/ cache'[s] = size'[s])
  BY DEF UpdateSubscriber, Settled, Unfinished, Inv, TypeOK
<1>5. Shared'
  <2> SUFFICES ASSUME NEW t \in Tasks, ~edited'[To[t]]
               PROVE  /\ at[t] \in {"queued", "acquire", "post"} => limit[t] = size'[To[t]]
                      /\ t \in Busy => sem[t] = current[To[t]]
    BY <1>1 DEF UpdateSubscriber, Shared, heap
  <2>1. CASE To[t] = s
    BY <2>1, <1>4 DEF Unfinished, Busy
  <2>2. CASE To[t] # s
    BY <2>2 DEF UpdateSubscriber, Inv, TypeOK, Shared
  <2> QED BY <2>1, <2>2
<1>6. Fresh'
  BY <1>4 DEF UpdateSubscriber, Inv, TypeOK, Fresh
<1> QED BY <1>2, <1>3, <1>5, <1>6 DEF Inv

\* What a step leaves that changes only the cache and the history, to fewer edits.
LEMMA InvCache ==
    ASSUME Inv, UNCHANGED <<size, at, limit, attempt, sem, heap, edits, restarts>>,
           cache' \in [Subscribers -> Sizes] \cup {Unloaded},
           edited' \in [Subscribers -> BOOLEAN],
           \A s \in Subscribers : ~edited'[s] => ~edited[s] \/ Unfinished(s) = {}
    PROVE  TypeOK' /\ SlotPerPost' /\ OneEach' /\ Fitting' /\ Shared'
<1>1. Busy' = Busy /\ \A i : Holders(i)' = Holders(i)
  BY DEF Busy, Holders
<1>2. TypeOK'
  BY <1>1 DEF Inv, TypeOK, heap
<1>3. SlotPerPost' /\ OneEach' /\ Fitting'
  BY <1>1 DEF Inv, SlotPerPost, OneEach, Fitting, heap
<1>4. Shared'
  <2> SUFFICES ASSUME NEW t \in Tasks, ~edited'[To[t]]
               PROVE  /\ at[t] \in {"queued", "acquire", "post"} => limit[t] = size[To[t]]
                      /\ t \in Busy => sem[t] = current[To[t]]
    BY <1>1 DEF Shared, heap
  <2>1. CASE ~edited[To[t]]
    BY <2>1 DEF Inv, Shared
  <2>2. CASE Unfinished(To[t]) = {}
    BY <2>2 DEF Unfinished, Busy
  <2> QED BY <2>1, <2>2
<1> QED BY <1>2, <1>3, <1>4

LEMMA InvFlush == ASSUME Inv, Flush PROVE Inv'
<1>1. edited' \in [Subscribers -> BOOLEAN] /\ cache' = Unloaded
  BY DEF Flush, Inv, TypeOK
<1>2. \A s \in Subscribers : ~edited'[s] => ~edited[s] \/ Unfinished(s) = {}
  BY DEF Flush, Inv, TypeOK
<1>3. Fresh'
  BY <1>1 DEF Fresh
<1> QED BY <1>1, <1>2, <1>3, InvCache DEF Flush, Inv

LEMMA InvLoad == ASSUME Inv, Load PROVE Inv'
<1>1. edited' \in [Subscribers -> BOOLEAN] /\ cache' \in [Subscribers -> Sizes]
  BY DEF Load, Inv, TypeOK
<1>2. Fresh'
  BY DEF Load, Fresh
<1> QED BY <1>1, <1>2, InvCache DEF Load, Inv

LEMMA InvDispatch == ASSUME Inv, NEW t \in Tasks, Dispatch(t) PROVE Inv'
<1>1. Busy' = Busy /\ \A i : Holders(i)' = Holders(i)
  BY DEF Dispatch, Inv, TypeOK, Busy, Holders
<1>2. TypeOK'
  BY <1>1 DEF Inv, Dispatch, TypeOK, heap
<1>3. SlotPerPost' /\ OneEach'
  BY <1>1 DEF Inv, TypeOK, Dispatch, SlotPerPost, OneEach, heap
<1>4. t \notin Busy
  BY DEF Dispatch, Busy
<1>5. Fitting' /\ Shared' /\ Fresh'
  BY <1>1, <1>4 DEF Inv, TypeOK, Dispatch, Fitting, Shared, Fresh, heap
<1> QED BY <1>2, <1>3, <1>5 DEF Inv

-----------------------------------------------------------------------------
LEMMA InvTake == ASSUME Inv, NEW t \in Tasks, Take(t) PROVE Inv'
<1> DEFINE s == To[t]
           i == current'[s].id
<1>0. /\ TypeOK /\ at[t] = "queued" /\ t \notin Busy
      /\ s \in Subscribers /\ limit[t] \in Int
      /\ at' = [at EXCEPT ![t] = "acquire"]
      /\ sem' = [sem EXCEPT ![t] = current'[s]]
      /\ UNCHANGED <<size, cache, limit, attempt, edits, restarts, edited>>
      /\ getSemaphore(s, limit[t])
  BY DEF Take, Inv, TypeOK, Busy
<1> HIDE DEF s
<1>1. /\ current'[s] \in Semaphores /\ current'[s].cap = limit[t]
      /\ current' \in [Subscribers -> Semaphores \cup {NoSemaphore}]
      /\ tokens' \in [Addresses -> Nat]
      /\ \A r \in Subscribers \ {s} : current'[r] = current[r]
      /\ \/ UNCHANGED heap
         \/ /\ current[s] = NoSemaphore \/ current[s].cap # limit[t]
            /\ i \notin Used
            /\ tokens' = [tokens EXCEPT ![i] = 0]
  BY <1>0, Getter
<1>2. Busy' = Busy \cup {t} /\ \A j : Holders(j)' = Holders(j)
  BY <1>0 DEF TypeOK, Busy, Holders
<1>3. \A u \in Busy : u # t /\ sem'[u] = sem[u] /\ u \in Tasks
  BY <1>0 DEF TypeOK, Busy
<1>4. sem'[t] = current'[s] /\ i \in Addresses
  BY <1>0, <1>1 DEF TypeOK, Semaphores
<1>5. TypeOK'
  <2>1. \A u \in Tasks : u \in Busy' <=> sem'[u] # NoSemaphore
    BY <1>0, <1>1, <1>2, <1>4 DEF TypeOK
  <2> QED BY <1>0, <1>1, <2>1 DEF TypeOK
<1>6. tokens' = tokens
  <2>1. CASE UNCHANGED heap
    BY <2>1 DEF heap
  <2>2. CASE i \notin Used /\ tokens' = [tokens EXCEPT ![i] = 0]
    <3>1. Holders(i) = {}
      BY <2>2 DEF Used, Holders, Busy
    <3>2. tokens[i] = 0
      BY <3>1, <1>4, FS_EmptySet DEF Inv, SlotPerPost
    <3> QED BY <2>2, <3>2, <1>0 DEF TypeOK
  <2> QED BY <1>1, <2>1, <2>2
<1>7. SlotPerPost'
  BY <1>0, <1>2, <1>6 DEF Inv, TypeOK, SlotPerPost
<1>8. OneEach'
  <2>1. \A u \in Busy : sem[u].id = i => sem[u] = current'[s]
    <3>1. CASE UNCHANGED heap
      BY <3>1, <1>0, <1>1 DEF heap, Inv, OneEach
    <3>2. CASE i \notin Used
      BY <3>2 DEF Used
    <3> QED BY <1>1, <3>1, <3>2
  <2>2. \A r \in Subscribers \ {s} :
           current[r] # NoSemaphore /\ current[r].id = i => current[r] = current'[s]
    <3>1. CASE UNCHANGED heap
      BY <3>1, <1>0, <1>1 DEF heap, Inv, OneEach
    <3>2. CASE i \notin Used
      BY <3>2 DEF Used
    <3> QED BY <1>1, <3>1, <3>2
  <2>3. \A u, v \in Busy' : sem'[u].id = sem'[v].id => sem'[u] = sem'[v]
    BY <1>2, <1>3, <1>4, <2>1 DEF Inv, OneEach
  <2>4. \A r \in Subscribers, u \in Busy' :
           current'[r] # NoSemaphore /\ current'[r].id = sem'[u].id => current'[r] = sem'[u]
    <3> SUFFICES ASSUME NEW r \in Subscribers, NEW u \in Busy',
                        current'[r] # NoSemaphore, current'[r].id = sem'[u].id
                 PROVE  current'[r] = sem'[u]
      OBVIOUS
    <3>1. CASE r = s
      BY <3>1, <1>2, <1>3, <1>4, <2>1
    <3>2. CASE r # s /\ u = t
      BY <3>2, <1>1, <1>4, <2>2
    <3>3. CASE r # s /\ u # t
      BY <3>3, <1>1, <1>2, <1>3 DEF Inv, OneEach
    <3> QED BY <3>1, <3>2, <3>3
  <2>5. \A q, r \in Subscribers :
           current'[q] # NoSemaphore /\ current'[r] # NoSemaphore
             /\ current'[q].id = current'[r].id => current'[q] = current'[r]
    BY <1>1, <2>2 DEF Inv, OneEach
  <2> QED BY <2>3, <2>4, <2>5 DEF OneEach
<1>9. Fitting'
  BY <1>0, <1>1, <1>2, <1>3, <1>4 DEF Inv, Fitting
<1>10. Shared'
  <2> SUFFICES ASSUME NEW u \in Tasks, ~edited[To[u]]
               PROVE  /\ at'[u] \in {"queued", "acquire", "post"} => limit[u] = size[To[u]]
                      /\ u \in Busy' => sem'[u] = current'[To[u]]
    BY <1>0 DEF Shared
  <2>1. at'[u] \in {"queued", "acquire", "post"} => limit[u] = size[To[u]]
    BY <1>0 DEF TypeOK, Inv, Shared
  <2>2. ASSUME u \in Busy' PROVE sem'[u] = current'[To[u]]
    <3>1. CASE u = t
      BY <3>1, <1>4 DEF s
    <3>2. CASE u # t /\ To[u] # s
      <4>1. sem[u] = current[To[u]] /\ To[u] \in Subscribers
        BY <2>2, <3>2, <1>2 DEF Inv, Shared
      <4> QED BY <4>1, <2>2, <3>2, <1>1, <1>2, <1>3
    <3>3. CASE u # t /\ To[u] = s
      <4>1. u \in Busy /\ sem[u] = current[s] /\ sem[u].cap = limit[u] /\ limit[u] = size[s]
        BY <2>2, <3>3, <1>2 DEF Inv, Shared, Fitting, Busy
      <4>2. limit[t] = size[s]
        BY <3>3, <1>0 DEF Inv, Shared, s
      <4>3. current[s] # NoSemaphore
        BY <4>1, <1>0 DEF TypeOK
      <4> QED BY <4>1, <4>2, <4>3, <3>3, <1>1, <1>3 DEF heap
    <3> QED BY <3>1, <3>2, <3>3
  <2> QED BY <2>1, <2>2
<1>11. Fresh'
  BY <1>0 DEF Inv, Fresh
<1> QED BY <1>5, <1>7, <1>8, <1>9, <1>10, <1>11 DEF Inv

LEMMA InvAcquire == ASSUME Inv, NEW t \in Tasks, Acquire(t) PROVE Inv'
<1> PICK i : i = sem[t].id
  OBVIOUS
<1>0. /\ TypeOK /\ at[t] = "acquire" /\ t \in Busy
      /\ at' = [at EXCEPT ![t] = "post"]
      /\ tokens[i] < sem[t].cap /\ tokens' = [tokens EXCEPT ![i] = @ + 1]
      /\ UNCHANGED <<size, cache, limit, attempt, sem, current, edits, restarts, edited>>
  BY DEF Acquire, Inv, Busy
<1>1. i \in Addresses /\ sem[t].cap \in Int /\ tokens[i] \in Nat
  BY <1>0, BusyHasSemaphore DEF TypeOK
<1>2. Busy' = Busy
  BY <1>0 DEF TypeOK, Busy
<1>3. TypeOK'
  BY <1>0, <1>1, <1>2 DEF TypeOK
<1>4. SlotPerPost'
  <2>1. \A j \in Addresses : tokens'[j] = Cardinality(Holders(j)')
    <3> SUFFICES ASSUME NEW j \in Addresses PROVE tokens'[j] = Cardinality(Holders(j)')
      OBVIOUS
    <3>1. CASE j = i
      <4>1. Holders(i)' = Holders(i) \cup {t} /\ t \notin Holders(i)
        BY <1>0 DEF Holders, TypeOK
      <4>2. Cardinality(Holders(i)') = Cardinality(Holders(i)) + 1
        BY <4>1, HoldersFinite, FS_AddElement
      <4> QED BY <3>1, <4>2, <1>0, <1>1 DEF Inv, SlotPerPost, TypeOK
    <3>2. CASE j # i
      <4>1. Holders(j)' = Holders(j)
        BY <3>2, <1>0 DEF Holders, TypeOK
      <4> QED BY <3>2, <4>1, <1>0 DEF Inv, SlotPerPost, TypeOK
    <3> QED BY <3>1, <3>2
  <2>2. \A u \in Tasks : at'[u] = "post" => tokens'[sem[u].id] <= sem[u].cap
    <3> SUFFICES ASSUME NEW u \in Tasks, at'[u] = "post"
                 PROVE  tokens'[sem[u].id] <= sem[u].cap
      OBVIOUS
    <3>1. u \in Busy /\ sem[u].id \in Addresses
      BY <1>0, <1>2, BusyHasSemaphore DEF TypeOK, Busy
    <3>2. CASE sem[u].id = i
      <4>1. sem[u] = sem[t]
        BY <3>1, <3>2, <1>0 DEF Inv, OneEach
      <4> QED BY <4>1, <1>0, <1>1, <3>2 DEF TypeOK
    <3>3. CASE sem[u].id # i
      <4>1. u # t
        BY <3>3
      <4> QED BY <4>1, <3>1, <3>3, <1>0 DEF Inv, SlotPerPost, TypeOK
    <3> QED BY <3>2, <3>3
  <2> QED BY <2>1, <2>2, <1>0 DEF SlotPerPost
<1>5. OneEach' /\ Fitting' /\ Shared' /\ Fresh'
  BY <1>0, <1>2 DEF Inv, TypeOK, OneEach, Fitting, Shared, Fresh
<1> QED BY <1>3, <1>4, <1>5 DEF Inv

LEMMA InvRelease ==
    ASSUME Inv, NEW t \in Tasks, NEW good \in BOOLEAN, Release(t, good)
    PROVE  Inv'
<1> PICK i : i = sem[t].id
  OBVIOUS
<1> DEFINE next == IF good \/ attempt[t] >= DefaultRetries THEN "done" ELSE "queued"
<1>0. /\ TypeOK /\ at[t] = "post" /\ t \in Busy
      /\ at' = [at EXCEPT ![t] = next] /\ next \in {"done", "queued"}
      /\ tokens' = [tokens EXCEPT ![i] = @ - 1]
      /\ attempt' = [attempt EXCEPT ![t] = IF next = "queued" THEN @ + 1 ELSE @]
      /\ sem' = [sem EXCEPT ![t] = NoSemaphore]
      /\ edited' = [edited EXCEPT ![To[t]] = @ /\ ~Settled(To[t])']
      /\ UNCHANGED <<size, cache, limit, current, edits, restarts>>
      /\ To[t] \in Subscribers
  BY DEF Release, Leave, Inv, Busy
<1>1. i \in Addresses /\ tokens[i] \in Nat
  BY <1>0, BusyHasSemaphore DEF TypeOK
<1>2. attempt' \in [Tasks -> 0..DefaultRetries]
  BY <1>0 DEF TypeOK
<1> HIDE DEF next
<1>3. Busy' = Busy \ {t}
  BY <1>0 DEF TypeOK, Busy
<1>4. t \in Holders(i) /\ tokens[i] = Cardinality(Holders(i))
  BY <1>0, <1>1 DEF Holders, Inv, SlotPerPost
<1>5. Holders(i)' = Holders(i) \ {t} /\ Cardinality(Holders(i)') = Cardinality(Holders(i)) - 1
  <2>1. Holders(i)' = Holders(i) \ {t}
    BY <1>0 DEF Holders, TypeOK
  <2>2. IsFiniteSet(Holders(i)) /\ t \in Holders(i)
    BY <1>4, HoldersFinite
  <2>3. Cardinality(Holders(i) \ {t}) = Cardinality(Holders(i)) - 1
    BY <2>2, FS_RemoveElement
  <2> QED BY <2>1, <2>3
<1>6. tokens'[i] = Cardinality(Holders(i)') /\ tokens'[i] \in Nat /\ tokens'[i] <= tokens[i]
  <2>1. IsFiniteSet(Holders(i)')
    BY <1>5, HoldersFinite, FS_RemoveElement
  <2>2. Cardinality(Holders(i)') \in Nat
    BY <2>1, FS_CardinalityType
  <2> QED BY <2>2, <1>0, <1>1, <1>4, <1>5 DEF TypeOK
<1>7. \A j \in Addresses \ {i} : tokens'[j] = tokens[j] /\ Holders(j)' = Holders(j)
  BY <1>0 DEF TypeOK, Holders
<1>8. TypeOK'
  <2>1. tokens' \in [Addresses -> Nat]
    BY <1>0, <1>1, <1>6 DEF TypeOK
  <2>2. edited' \in [Subscribers -> BOOLEAN]
    BY <1>0 DEF TypeOK
  <2>3. \A u \in Tasks : u \in Busy' <=> sem'[u] # NoSemaphore
    BY <1>0, <1>3 DEF TypeOK
  <2> QED BY <1>0, <1>2, <2>1, <2>2, <2>3 DEF TypeOK
<1>9. SlotPerPost'
  <2>1. \A j \in Addresses : tokens'[j] = Cardinality(Holders(j)')
    BY <1>6, <1>7 DEF Inv, SlotPerPost
  <2>2. \A u \in Tasks : at'[u] = "post" => tokens'[sem'[u].id] <= sem'[u].cap
    <3> SUFFICES ASSUME NEW u \in Tasks, at'[u] = "post"
                 PROVE  tokens'[sem'[u].id] <= sem'[u].cap
      OBVIOUS
    <3>1. u # t /\ at[u] = "post" /\ sem'[u] = sem[u] /\ u \in Busy
      BY <1>0 DEF TypeOK, Busy
    <3>2. sem[u].id \in Addresses /\ sem[u].cap \in Int /\ tokens[sem[u].id] <= sem[u].cap
      BY <1>0, <3>1, BusyHasSemaphore DEF Inv, SlotPerPost
    <3>3. CASE sem[u].id = i
      BY <3>1, <3>2, <3>3, <1>1, <1>6
    <3>4. CASE sem[u].id # i
      BY <3>1, <3>2, <3>4, <1>7
    <3> QED BY <3>3, <3>4
  <2> QED BY <2>1, <2>2 DEF SlotPerPost
<1>10. \A u \in Busy' : sem'[u] = sem[u] /\ u \in Busy /\ u # t
  BY <1>0, <1>3 DEF TypeOK, Busy
<1>11. OneEach' /\ Fitting'
  BY <1>0, <1>10 DEF Inv, OneEach, Fitting
<1>12. \A s \in Subscribers :
         ~edited'[s] => \/ ~edited[s]
                        \/ /\ Unfinished(s)' = {}
                           /\ cache = Unloaded \/ cache[s] = size[s]
  BY <1>0 DEF TypeOK, Settled
<1>13. Shared'
  <2> SUFFICES ASSUME NEW u \in Tasks, ~edited'[To[u]]
               PROVE  /\ at'[u] \in {"queued", "acquire", "post"} => limit[u] = size[To[u]]
                      /\ u \in Busy' => sem'[u] = current[To[u]]
    BY <1>0 DEF Shared
  <2>0. To[u] \in Subscribers
    OBVIOUS
  <2>1. CASE ~edited[To[u]]
    BY <2>1, <1>0, <1>10 DEF TypeOK, Inv, Shared
  <2>2. CASE Unfinished(To[u])' = {}
    BY <2>2 DEF Unfinished, Busy
  <2> QED BY <2>0, <2>1, <2>2, <1>12
<1>14. Fresh'
  BY <1>0, <1>12 DEF Inv, Fresh
<1> QED BY <1>8, <1>9, <1>11, <1>13, <1>14 DEF Inv

-----------------------------------------------------------------------------
LEMMA InvNext == Inv /\ [Next]_vars => Inv'
<1> SUFFICES ASSUME Inv, [Next]_vars PROVE Inv'
  OBVIOUS
<1>1. ASSUME NEW t \in Tasks, Panic(t) PROVE Inv'
  BY <1>1, InvReset DEF Panic, Inv, TypeOK
<1>2. CASE Restart
  BY <1>2, InvReset DEF Restart, Inv, TypeOK
<1>3. CASE UNCHANGED vars
  BY <1>3 DEF vars, heap, Inv, TypeOK, SlotPerPost, OneEach, Fitting, Shared, Fresh,
              Busy, Holders
<1> QED
  BY <1>1, <1>2, <1>3, InvUpdate, InvFlush, InvLoad, InvDispatch, InvTake, InvAcquire, InvRelease
  DEF Next, processDeliveryTask, Rest

LEMMA Invariant == Spec => []Inv
BY InvInit, InvNext, PTL DEF Spec

-----------------------------------------------------------------------------
\* Types, for every number of tasks and workers (app/delivery.go:97-108).
THEOREM TypesHold == Spec => []TypeOK
<1>1. Inv => TypeOK
  BY DEF Inv
<1> QED BY <1>1, Invariant, PTL

\* Each POST holds one slot of one semaphore, and the slots are as many as it was made
\* with, also when the map has replaced it meanwhile (app/delivery.go:291-299).
THEOREM SlotsAreExact == Spec => []SlotPerPost
<1>1. Inv => SlotPerPost
  BY DEF Inv
<1> QED BY <1>1, Invariant, PTL

\* max_parallel limits the POSTs to a subscriber, except from a change of it until no
\* older value is in use, in a task or in the cache (app/delivery.go:102,
\* api/subscribers.go:97-188).
THEOREM LimitsHold == Spec => []LimitHonoured
<1>1. ASSUME Inv PROVE LimitHonoured
  <2> SUFFICES ASSUME NEW s \in Subscribers, ~edited[s], Posting(s) # {}
               PROVE  Cardinality(Posting(s)) <= size[s]
    BY DEF LimitHonoured
  <2>1. PICK t \in Posting(s) : TRUE
    OBVIOUS
  <2>2. t \in Tasks /\ To[t] = s /\ at[t] = "post" /\ t \in Busy
    BY <2>1 DEF Posting, Busy
  <2>3. sem[t].id \in Addresses /\ sem[t].cap = size[s] /\ size[s] \in Int
    BY <1>1, <2>2, BusyHasSemaphore DEF Inv, Fitting, Shared, TypeOK
  <2>4. Posting(s) \subseteq Holders(sem[t].id)
    BY <1>1, <2>2 DEF Posting, Holders, Busy, Inv, Shared
  <2>5. Cardinality(Posting(s)) <= Cardinality(Holders(sem[t].id))
        /\ Cardinality(Posting(s)) \in Nat /\ Cardinality(Holders(sem[t].id)) \in Nat
    BY <2>4, HoldersFinite, FS_Subset, FS_CardinalityType
  <2> QED BY <1>1, <2>2, <2>3, <2>5 DEF Inv, SlotPerPost
<1> QED BY <1>1, Invariant, PTL
=============================================================================
