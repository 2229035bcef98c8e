---------------------------- MODULE ConsoleProofs ----------------------------
(***************************************************************************)
(* Safety of the caches, the secrets' scopes and the sessions behind the   *)
(* console, for all values of the constants.                               *)
(*                                                                         *)
(* ScopeOnOneHost rests on an account of every edit that met no other and  *)
(* no failed statement: what is in the table, with what it has still to    *)
(* add and to remove, is what its form asked for (Settling); and two edits *)
(* of one key know of each other (Separate).  ScopeDecides rests on what   *)
(* MatchLike computes for every pattern and subject (PatternsMatch).       *)
(***************************************************************************)
EXTENDS Console, FiniteSetTheorems, WellFoundedInduction, TLAPS

USE DEF tables, cacheVars, sessionVars, handlerVars

-----------------------------------------------------------------------------
(* The invariant.                                                          *)

\* TypeOK without the foreign key.
Types ==
    /\ row \in [Keys -> Values \cup {Nothing}]
    /\ used \in SUBSET Secrets
    /\ entry \in [Keys -> Values \cup {Nothing, Absent}]
    /\ ask \in [Readers -> Asks]
    /\ tainted \in SUBSET Keys
    /\ SessionTypeOK
    /\ scope \in [Secrets -> SUBSET Subs]
    /\ step \in [Handlers -> {"idle", "admitted", "listing", "syncing"}]
    /\ job \in [Handlers -> Jobs]
    /\ disturbed \in SUBSET Keys /\ revoked \in SUBSET Secrets
    /\ requests \in 0..MaxRequests /\ restarts \in 0..MaxRestarts

PatternOrNone == SubjectPatterns \cup {Nothing}

\* A request that looks its secret up has one, and finds a pattern or nothing.
AskFits(a) ==
    a.at \in {"look", "query", "store"} /\ a.turn = 1 =>
        a.secret \in Secrets /\ a.got \in PatternOrNone

Lookable ==
    /\ \A k \in Secrets : row[k] \in PatternOrNone /\ entry[k] \in PatternOrNone \cup {Absent}
    /\ \A r \in Readers : AskFits(ask[r])

\* What the forms of each kind carry.
FormFits(j) ==
    /\ j.kind \in {"create", "update"} => j.key \in Secrets /\ j.value \in SubjectPatterns
    /\ j.kind = "delete" => j.key \in Secrets /\ j.value = Nothing
    /\ j.kind = "configure" => j.key \in Subjects /\ j.value \in PropertyLists
    /\ j.kind = "unconfigure" => j.key \in Subjects /\ j.value = Nothing
    /\ j.kind \notin {"create", "update"} => j.wanted = <<>>
    /\ j.key \notin Secrets => j.add = {} /\ j.drop = {}

Fitting ==
    \A h \in Handlers :
        /\ FormFits(job[h])
        /\ step[h] = "idle" => job[h] = NoJob
        /\ step[h] # "idle" => job[h].token \in Tokens
        /\ step[h] = "admitted" => job[h].add = {} /\ job[h].drop = {}
        /\ step[h] = "listing" => job[h].key \in Secrets
        /\ step[h] \in {"listing", "syncing"} => job[h].kind # "logout"

\* Only secrets in the table are associated with anybody, and only those ever created
\* are in the table.
Rows ==
    /\ \A k \in Secrets : scope[k] # {} => row[k] # Nothing
    /\ \A k \in Secrets \ used : row[k] = Nothing

\* The identifier of a secret about to be created is nobody else's.
Identified ==
    \A h \in Handlers :
        /\ step[h] \in {"listing", "syncing"} /\ job[h].key \in Secrets => job[h].key \in used
        /\ job[h].kind \in {"update", "delete"} => job[h].key \in used
        /\ step[h] = "admitted" /\ job[h].kind = "create" =>
              /\ job[h].key \notin used
              /\ \A g \in Handlers \ {h} : job[g].key # job[h].key

\* An edit that met nothing has the rest of its form still to do.
Settling ==
    \A h \in Handlers :
        /\ step[h] \in {"listing", "syncing"} => OnOneHost(Range(job[h].wanted))
        /\ step[h] = "syncing" /\ job[h].clean /\ job[h].key \in Secrets =>
              (scope[job[h].key] \cup job[h].add) \ job[h].drop = Range(job[h].wanted)

\* Of two edits of one key both know.
Separate ==
    \A g, h \in Handlers, k \in Keys :
        Editing(g, k) /\ Editing(h, k) /\ g # h => ~job[g].clean

Over == \A t \in Tokens : session[t] = "valid" => t \notin ended

Inv ==
    /\ Types /\ Lookable /\ Fitting /\ Rows /\ Identified /\ Settling /\ Separate /\ Over
    /\ CacheHonest /\ ScopeOnOneHost

-----------------------------------------------------------------------------
(* Requests and forms.                                                     *)

LEMMA Bounds ==
    /\ MaxRequests \in Nat /\ MaxRestarts \in Nat
    /\ Subjects # {} /\ SubjectPatterns # {}
BY ConsoleAssumption

\* A form that passes the check has the hosts of its subscribers on one, but for those
\* whose URLs have none.
LEMMA Selection ==
    ASSUME NEW ids \in Seq(Subs)
    PROVE  /\ Range(ids) \in SUBSET Subs
           /\ HostsAgree(ids) => OnOneHost(Range(ids))
<1>1. DOMAIN ids = 1..Len(ids) /\ Len(ids) \in Nat /\ \A i \in DOMAIN ids : ids[i] \in Subs
  OBVIOUS
<1>2. Range(ids) \in SUBSET Subs
  BY <1>1 DEF Range
<1>3. ASSUME HostsAgree(ids), NEW i \in DOMAIN ids, NEW j \in DOMAIN ids
      PROVE  Host[ids[i]] = "" \/ Host[ids[j]] = "" \/ Host[ids[i]] = Host[ids[j]]
  <2>1. i < j \/ j < i \/ i = j
    BY <1>1
  <2> QED
    BY <1>3, <2>1 DEF HostsAgree
<1>4. ASSUME HostsAgree(ids)
      PROVE  OnOneHost(Range(ids))
  <2> SUFFICES ASSUME NEW x \in Range(ids), NEW y \in Range(ids)
               PROVE  Host[x] = "" \/ Host[y] = "" \/ Host[x] = Host[y]
    BY DEF OnOneHost
  <2>1. PICK i \in DOMAIN ids, j \in DOMAIN ids : x = ids[i] /\ y = ids[j]
    BY DEF Range
  <2> QED
    BY <1>3, <1>4, <2>1
<1> QED
  BY <1>2, <1>4

LEMMA EmptySelection == Range(<<>>) = {} /\ OnOneHost({})
BY DEF Range, OnOneHost

LEMMA NoAskFits == NoAsk \in Asks /\ AskFits(NoAsk) /\ NoAsk.at = "idle"
<1>1. (CHOOSE g \in Subjects : TRUE) \in Subjects
  BY ConsoleAssumption
<1>2. NoAsk = [at |-> "idle", turn |-> 1, secret |-> Nothing, subject |-> (CHOOSE g \in Subjects : TRUE),
               pattern |-> Nothing, got |-> Nothing]
  BY DEF NoAsk
<1> HIDE DEF NoAsk
<1> QED
  BY <1>1, <1>2 DEF Asks, AskFits

\* A request with other fields, which are all of their types, is a request.
LEMMA AskChanged ==
    ASSUME NEW a \in Asks,
           NEW at \in {"idle", "look", "query", "store", "forbidden"}, NEW turn \in 1..3,
           NEW g \in Subjects,
           NEW pattern \in SubjectPatterns \cup {Nothing}, NEW got \in Values \cup {Nothing}
    PROVE  /\ [a EXCEPT !.at = at, !.turn = turn, !.pattern = pattern, !.got = got] \in Asks
           /\ [a EXCEPT !.at = at, !.turn = turn, !.got = got] \in Asks
           /\ [a EXCEPT !.at = at, !.turn = turn, !.subject = g] \in Asks
  BY Zenon DEF Asks

LEMMA NoJobFits == NoJob \in Jobs /\ FormFits(NoJob) /\ NoJob.key = Nothing /\ NoJob.kind = "logout"
  BY LookupAssumption DEF NoJob, Jobs, FormFits, Kinds

\* The next step of a request fits its secret and its pattern.
LEMMA ProceedFits ==
    ASSUME Types, Lookable, NEW r \in Readers, ask[r].at \in {"look", "store"},
           NEW v \in Values \cup {Nothing}, ask[r].turn = 1 => v \in PatternOrNone,
           Proceed(r, v)
    PROVE  \E b \in Asks : AskFits(b) /\ ask' = [ask EXCEPT ![r] = b]
<1> DEFINE a == ask[r]
<1>0. 2 \in 1..3 /\ 3 \in 1..3
  OBVIOUS
<1>1. a \in Asks /\ AskFits(a) /\ a.turn \in 1..3
  BY DEF Types, Lookable, Asks
<1> HIDE DEF a
<1>2. ASSUME a.turn = 1, v # Nothing
      PROVE  /\ [a EXCEPT !.at = "look", !.turn = 2, !.pattern = v, !.got = Nothing] \in Asks
             /\ AskFits([a EXCEPT !.at = "look", !.turn = 2, !.pattern = v, !.got = Nothing])
             /\ [a EXCEPT !.at = "forbidden", !.pattern = v, !.got = Nothing] \in Asks
             /\ AskFits([a EXCEPT !.at = "forbidden", !.pattern = v, !.got = Nothing])
  <2>1. v \in SubjectPatterns \cup {Nothing} /\ a.secret \in Secrets /\ a.subject \in Subjects
    BY <1>1, <1>2 DEF a, Asks, AskFits, PatternOrNone
  <2>2. /\ [a EXCEPT !.at = "look", !.turn = 2, !.pattern = v, !.got = Nothing] \in Asks
        /\ [a EXCEPT !.at = "forbidden", !.turn = a.turn, !.pattern = v, !.got = Nothing] \in Asks
    BY <1>1, <2>1, <1>0, AskChanged DEF PatternOrNone
  <2>3. /\ AskFits([a EXCEPT !.at = "look", !.turn = 2, !.pattern = v, !.got = Nothing])
        /\ AskFits([a EXCEPT !.at = "forbidden", !.pattern = v, !.got = Nothing])
    BY <1>1 DEF Asks, AskFits
  <2>4. [a EXCEPT !.at = "forbidden", !.turn = a.turn, !.pattern = v, !.got = Nothing]
          = [a EXCEPT !.at = "forbidden", !.pattern = v, !.got = Nothing]
    BY <1>1 DEF Asks
  <2> QED
    BY <2>2, <2>3, <2>4
<1>3. /\ [a EXCEPT !.at = "look", !.turn = 3, !.got = Nothing] \in Asks
      /\ AskFits([a EXCEPT !.at = "look", !.turn = 3, !.got = Nothing])
  <2>1. a.pattern \in SubjectPatterns \cup {Nothing} /\ a.subject \in Subjects
    BY <1>1 DEF Asks
  <2>2. [a EXCEPT !.at = "look", !.turn = 3, !.got = Nothing] \in Asks
    BY <1>0, <1>1, <2>1, AskChanged
  <2>3. AskFits([a EXCEPT !.at = "look", !.turn = 3, !.got = Nothing])
    BY <1>1 DEF Asks, AskFits
  <2> QED
    BY <2>2, <2>3
<1>4. CASE a.turn = 1 /\ v = Nothing
  BY <1>4, NoAskFits DEF Proceed, a
<1>5. CASE a.turn = 1 /\ v # Nothing
  BY <1>2, <1>5, NoAskFits DEF Proceed, a
<1>6. CASE a.turn = 2
  BY <1>3, <1>6, NoAskFits DEF Proceed, a
<1>7. CASE a.turn = 3
  BY <1>7, NoAskFits DEF Proceed, a
<1> QED
  BY <1>1, <1>4, <1>5, <1>6, <1>7

\* A reader of the caches changes nothing but its request, and perhaps one entry, for
\* which it vouches or which it taints.
LEMMA LookupKeeps ==
    ASSUME Types, Lookable, NEW r \in Readers, Lookups(r)
    PROVE  /\ UNCHANGED <<row, used>>
           /\ \E b \in Asks : AskFits(b) /\ ask' = [ask EXCEPT ![r] = b]
           /\ \/ UNCHANGED <<entry, tainted>>
              \/ \E k \in Keys, v \in Values \cup {Nothing} :
                    /\ k \in Secrets => v \in PatternOrNone
                    /\ entry' = [entry EXCEPT ![k] = v]
                    /\ tainted' = IF v = row[k] THEN tainted \ {k} ELSE tainted \cup {k}
<1> DEFINE a == ask[r]
<1>1. a \in Asks /\ AskFits(a) /\ ask \in [Readers -> Asks]
  BY DEF Types, Lookable
<1> HIDE DEF a
<1>2. ASSUME a.at \in {"look", "query", "store"}
      PROVE  KeyOf(a) \in Keys /\ (a.turn = 1 => KeyOf(a) \in Secrets)
                               /\ (a.turn # 1 => KeyOf(a) \in Subjects)
  BY <1>1, <1>2 DEF KeyOf, Keys, AskFits, Asks
<1>3. Secrets \cap Subjects = {}
  BY LookupAssumption
<1>4. ASSUME NEW k \in Secrets, NEW g \in Subjects, AskSecret(r, k, g)
      PROVE  \E b \in Asks : AskFits(b) /\ ask' = [ask EXCEPT ![r] = b]
  <2>1. [NoAsk EXCEPT !.at = "look", !.secret = k, !.subject = g] \in Asks
    BY NoAskFits DEF Asks
  <2>2. AskFits([NoAsk EXCEPT !.at = "look", !.secret = k, !.subject = g])
    BY <2>1 DEF NoAsk, AskFits, PatternOrNone
  <2> QED
    BY <1>4, <2>1, <2>2 DEF AskSecret
<1>5. ASSUME NEW g \in Subjects, AskProperties(r, g)
      PROVE  \E b \in Asks : AskFits(b) /\ ask' = [ask EXCEPT ![r] = b]
  <2>0. 3 \in 1..3
    OBVIOUS
  <2>1. [NoAsk EXCEPT !.at = "look", !.turn = 3, !.subject = g] \in Asks
    BY <2>0, NoAskFits, AskChanged
  <2>2. AskFits([NoAsk EXCEPT !.at = "look", !.turn = 3, !.subject = g])
    BY DEF NoAsk, AskFits
  <2> QED
    BY <1>5, <2>1, <2>2 DEF AskProperties
<1>6. ASSUME Get(r)
      PROVE  \E b \in Asks : AskFits(b) /\ ask' = [ask EXCEPT ![r] = b]
  <2>1. a.at = "look" /\ KeyOf(a) \in Keys /\ (a.turn = 1 => KeyOf(a) \in Secrets)
    BY <1>2, <1>6 DEF Get, a
  <2>2. CASE entry[KeyOf(a)] # Absent
    <3>1. /\ entry[KeyOf(a)] \in Values \cup {Nothing}
          /\ a.turn = 1 => entry[KeyOf(a)] \in PatternOrNone
      BY <2>1, <2>2 DEF Types, Lookable
    <3>2. Proceed(r, entry[KeyOf(a)])
      BY <1>6, <2>2 DEF Get, a
    <3> QED
      BY <2>1, <3>1, <3>2, ProceedFits DEF a
  <2>3. CASE entry[KeyOf(a)] = Absent
    <3>1. [a EXCEPT !.at = "query"] \in Asks /\ AskFits([a EXCEPT !.at = "query"])
      BY <1>1, <2>1 DEF Asks, AskFits
    <3>2. ask' = [ask EXCEPT ![r] = [a EXCEPT !.at = "query"]]
      BY <1>6, <2>3 DEF Get, a
    <3> QED
      BY <3>1, <3>2
  <2> QED
    BY <2>2, <2>3
<1>7. ASSUME Query(r)
      PROVE  \E b \in Asks : AskFits(b) /\ ask' = [ask EXCEPT ![r] = b]
  <2>1. a.at = "query" /\ KeyOf(a) \in Keys /\ (a.turn = 1 => KeyOf(a) \in Secrets)
    BY <1>2, <1>7 DEF Query, a
  <2>2. PICK v \in Answers(KeyOf(a)) : ask' = [ask EXCEPT ![r].at = "store", ![r].got = v]
    BY <1>7 DEF Query, a
  <2>3. v \in Values \cup {Nothing} /\ (a.turn = 1 => v \in PatternOrNone)
    BY <2>1 DEF Answers, Types, Lookable, PatternOrNone
  <2>4. /\ [a EXCEPT !.at = "store", !.got = v] \in Asks
        /\ AskFits([a EXCEPT !.at = "store", !.got = v])
    BY <1>1, <2>1, <2>3 DEF Asks, AskFits
  <2>5. ask' = [ask EXCEPT ![r] = [a EXCEPT !.at = "store", !.got = v]]
    BY <1>1, <2>2 DEF a
  <2> QED
    BY <2>4, <2>5
<1>8. ASSUME Set(r)
      PROVE  /\ \E b \in Asks : AskFits(b) /\ ask' = [ask EXCEPT ![r] = b]
             /\ a.got \in Values \cup {Nothing} /\ KeyOf(a) \in Keys
             /\ KeyOf(a) \in Secrets => a.got \in PatternOrNone
  <2>1. a.at = "store" /\ KeyOf(a) \in Keys /\ (a.turn = 1 => KeyOf(a) \in Secrets)
    BY <1>2, <1>8 DEF Set, a
  <2>2. a.got \in Values \cup {Nothing} /\ (a.turn = 1 => a.got \in PatternOrNone)
    BY <1>1, <2>1 DEF Asks, AskFits
  <2>3. Proceed(r, a.got)
    BY <1>8 DEF Set, a
  <2>4. \E b \in Asks : AskFits(b) /\ ask' = [ask EXCEPT ![r] = b]
    BY <2>1, <2>2, <2>3, ProceedFits DEF a
  <2> QED
    BY <1>2, <1>3, <2>1, <2>2, <2>4
<1>9. ASSUME Forbid(r)
      PROVE  \E b \in Asks : AskFits(b) /\ ask' = [ask EXCEPT ![r] = b]
  BY <1>9, NoAskFits DEF Forbid
<1>10. ASSUME ~Set(r)
       PROVE  UNCHANGED <<row, used, entry, tainted>>
  BY <1>10 DEF Lookups, AskSecret, AskProperties, Get, Query, Forbid
<1>11. ASSUME Set(r)
       PROVE  /\ entry' = [entry EXCEPT ![KeyOf(a)] = a.got] /\ UNCHANGED <<row, used>>
              /\ tainted' = IF a.got = row[KeyOf(a)] THEN tainted \ {KeyOf(a)}
                                                     ELSE tainted \cup {KeyOf(a)}
  BY <1>11 DEF Set, a
<1>12. \E b \in Asks : AskFits(b) /\ ask' = [ask EXCEPT ![r] = b]
  BY <1>4, <1>5, <1>6, <1>7, <1>8, <1>9 DEF Lookups
<1> QED
  BY <1>8, <1>10, <1>11, <1>12

-----------------------------------------------------------------------------
(* The steps of readers, sessions and the middleware.                      *)

LEMMA InitInv == Init => Inv
<1> SUFFICES ASSUME Init
             PROVE  Inv
  OBVIOUS
<1>1. (CHOOSE p \in SubjectPatterns : TRUE) \in SubjectPatterns
  BY ConsoleAssumption
<1>3. Types
  <2>1. row \in [Keys -> Values \cup {Nothing}]
    BY <1>1 DEF Init, Values
  <2>2. entry \in [Keys -> Values \cup {Nothing, Absent}] /\ ask \in [Readers -> Asks]
    BY NoAskFits DEF Init, EmptyCaches
  <2>3. job \in [Handlers -> Jobs]
    BY NoJobFits DEF Init
  <2>4. scope \in [Secrets -> SUBSET Subs] /\ used \in SUBSET Secrets
    BY ConsoleAssumption DEF Init
  <2>5. SessionTypeOK
    BY DEF Init, SessionInit, SessionTypeOK
  <2>6. requests \in 0..MaxRequests /\ restarts \in 0..MaxRestarts
    BY Bounds DEF Init
  <2> QED
    BY <2>1, <2>2, <2>3, <2>4, <2>5, <2>6 DEF Init, Types
<1>4. Lookable
  BY <1>1, NoAskFits DEF Init, Lookable, PatternOrNone, EmptyCaches, Keys
<1>5. Fitting
  BY NoJobFits, LookupAssumption DEF Init, Fitting, NoJob
<1>6. Rows
  BY <1>1, LookupAssumption, ConsoleAssumption DEF Init, Rows, Values, Keys
<1>7. Identified /\ Settling /\ Separate
  BY NoJobFits DEF Init, Identified, Settling, Separate, Editing
<1>8. Over
  BY DEF Init, Over, SessionInit
<1>9. CacheHonest
  BY DEF Init, CacheHonest, EmptyCaches
<1>10. ScopeOnOneHost
  BY ConsoleAssumption DEF Init, ScopeOnOneHost, OnOneHost
<1> QED
  BY <1>3, <1>4, <1>5, <1>6, <1>7, <1>8, <1>9, <1>10 DEF Inv

\* What the edits do concerns no reader: its entry is the row, or tainted.
LEMMA LookupInv ==
    ASSUME Inv, NEW r \in Readers, Lookups(r), UNCHANGED <<sessionVars, handlerVars, requests, restarts>>
    PROVE  Inv'
<1> USE DEF Inv
<1>1. UNCHANGED <<row, used>>
  BY LookupKeeps
<1>2. PICK b \in Asks : AskFits(b) /\ ask' = [ask EXCEPT ![r] = b]
  BY LookupKeeps
<1>3. ask' \in [Readers -> Asks] /\ \A x \in Readers : AskFits(ask'[x])
  BY <1>2 DEF Types, Lookable
<1>4. Rows' /\ Fitting' /\ Identified' /\ Settling' /\ Separate' /\ Over' /\ ScopeOnOneHost'
  BY <1>1 DEF Rows, Fitting, Identified, Settling, Separate, Over, ScopeOnOneHost, Editing
<1>5. ASSUME UNCHANGED <<entry, tainted>>
      PROVE  Types' /\ Lookable' /\ CacheHonest'
  <2>1. Types'
    BY <1>1, <1>3, <1>5 DEF Types, SessionTypeOK
  <2>2. Lookable'
    BY <1>1, <1>3, <1>5 DEF Lookable
  <2>3. CacheHonest'
    BY <1>1, <1>5 DEF CacheHonest, Editing
  <2> QED
    BY <2>1, <2>2, <2>3
<1>6. ASSUME NEW k \in Keys, NEW v \in Values \cup {Nothing}, k \in Secrets => v \in PatternOrNone,
             entry' = [entry EXCEPT ![k] = v],
             tainted' = IF v = row[k] THEN tainted \ {k} ELSE tainted \cup {k}
      PROVE  Types' /\ Lookable' /\ CacheHonest'
  <2>1. Types'
    BY <1>1, <1>3, <1>6 DEF Types, SessionTypeOK
  <2>2. Lookable'
    BY <1>1, <1>3, <1>6 DEF Lookable, Types
  <2>3. CacheHonest'
    BY <1>1, <1>6 DEF CacheHonest, Editing, Types
  <2> QED
    BY <2>1, <2>2, <2>3
<1>7. Types' /\ Lookable' /\ CacheHonest'
  BY <1>5, <1>6, LookupKeeps
<1> QED
  BY <1>4, <1>7

\* A session once over is never valid again: a token is drawn once.
LEMMA SessionsKeep ==
    ASSUME SessionTypeOK, Over, SessionNext \/ LoseSessions \/ \E t \in Tokens : DeleteSession(t)
    PROVE  SessionTypeOK' /\ Over'
<1>1. ASSUME NEW t \in Tokens, Login(t) \/ Expire(t) \/ TurnAway(t) \/ DeleteSession(t)
      PROVE  SessionTypeOK' /\ Over'
  BY <1>1 DEF SessionTypeOK, Over, Login, Expire, TurnAway, DeleteSession
<1>2. CASE LoseSessions
  BY <1>2 DEF SessionTypeOK, Over, LoseSessions
<1> QED
  BY <1>1, <1>2 DEF SessionNext

LEMMA SessionInv ==
    ASSUME Inv, SessionNext, UNCHANGED <<cacheVars, handlerVars, requests, restarts>>
    PROVE  Inv'
<1> USE DEF Inv
<1>1. SessionTypeOK' /\ Over'
  BY SessionsKeep DEF Types
<1>2. Types' /\ Lookable'
  BY <1>1 DEF Types, Lookable
<1>3. Rows' /\ Fitting' /\ Identified' /\ Settling' /\ Separate'
  BY DEF Rows, Fitting, Identified, Settling, Separate, Editing
<1>4. CacheHonest' /\ ScopeOnOneHost'
  BY DEF CacheHonest, ScopeOnOneHost, Editing
<1> QED
  BY <1>1, <1>2, <1>3, <1>4

Selections == Seq(Subs)

\* The form of a request is its own job, and its token the one it came with.
LEMMA FormIs ==
    ASSUME NEW kind \in Kinds, NEW k \in Keys \cup {Nothing}, NEW v \in Values \cup {Nothing},
           NEW ids \in Selections, NEW t \in Tokens
    PROVE  LET j == [Form(kind, k, v, ids) EXCEPT !.token = t] IN
           /\ j \in Jobs
           /\ j.kind = kind /\ j.key = k /\ j.value = v /\ j.wanted = ids
           /\ j.add = {} /\ j.drop = {} /\ j.token = t
  BY NoJobFits DEF Form, NoJob, Jobs, Selections

\* A handler that is admitted takes up a form that fits, and writes nothing.
LEMMA AdmitInv ==
    ASSUME Inv, NEW h \in Handlers, NEW t \in Tokens, AdmitForm(h, t)
    PROVE  Inv'
<1> USE DEF Inv
<1> DEFINE Taken(j) ==
             /\ Admit(h, t, j)
             /\ LET n == [j EXCEPT !.token = t] IN
                /\ n \in Jobs /\ FormFits(n) /\ n.add = {} /\ n.drop = {} /\ n.token = t
                /\ n.kind \in {"update", "delete"} => n.key \in used
                /\ n.kind = "create" => n.key \in Fresh
                /\ n.kind # "create" => n.key \notin Secrets \ used
<1>0. Secrets \cap Subjects = {} /\ Nothing \notin Secrets /\ used \subseteq Secrets
      /\ <<>> \in Selections
  BY LookupAssumption DEF Types, Selections
<1>1. ASSUME NEW k \in Fresh, NEW v \in SubjectPatterns, NEW ids \in Choices,
             Admit(h, t, Form("create", k, v, ids))
      PROVE  \E j : Taken(j)
  <2>1. /\ "create" \in Kinds /\ k \in Secrets /\ k \in Keys
        /\ v \in Values \cup {Nothing} /\ ids \in Selections
    BY ConsoleAssumption DEF Kinds, Fresh, Keys, Values, Selections
  <2> DEFINE j == Form("create", k, v, ids)
             n == [j EXCEPT !.token = t]
  <2>2. n \in Jobs /\ n.kind = "create" /\ n.key = k /\ n.value = v /\ n.add = {} /\ n.drop = {} /\ n.token = t
    BY <2>1, FormIs
  <2> HIDE DEF n
  <2>3. FormFits(n)
    BY <2>1, <2>2 DEF FormFits
  <2> QED
    BY <1>1, <2>2, <2>3 DEF n
<1>2. ASSUME NEW k \in used, NEW v \in SubjectPatterns, NEW ids \in Choices,
             Admit(h, t, Form("update", k, v, ids))
      PROVE  \E j : Taken(j)
  <2>1. /\ "update" \in Kinds /\ k \in Secrets /\ k \in Keys
        /\ v \in Values \cup {Nothing} /\ ids \in Selections
    BY <1>0, ConsoleAssumption DEF Kinds, Keys, Values, Selections
  <2> DEFINE j == Form("update", k, v, ids)
             n == [j EXCEPT !.token = t]
  <2>2. n \in Jobs /\ n.kind = "update" /\ n.key = k /\ n.value = v /\ n.add = {} /\ n.drop = {} /\ n.token = t
    BY <1>0, <2>1, FormIs
  <2> HIDE DEF n
  <2>3. FormFits(n)
    BY <2>1, <2>2 DEF FormFits
  <2> QED
    BY <1>2, <2>2, <2>3 DEF n, Fresh
<1>3. ASSUME NEW k \in used, Admit(h, t, Form("delete", k, Nothing, <<>>))
      PROVE  \E j : Taken(j)
  <2>1. "delete" \in Kinds /\ k \in Secrets /\ k \in Keys
    BY <1>0 DEF Kinds, Keys
  <2> DEFINE j == Form("delete", k, Nothing, <<>>)
             n == [j EXCEPT !.token = t]
  <2>2. /\ n \in Jobs /\ n.kind = "delete" /\ n.key = k /\ n.value = Nothing /\ n.wanted = <<>>
        /\ n.add = {} /\ n.drop = {} /\ n.token = t
    BY <1>0, <2>1, FormIs
  <2> HIDE DEF n
  <2>3. FormFits(n)
    BY <2>1, <2>2 DEF FormFits
  <2> QED
    BY <1>3, <2>2, <2>3 DEF n, Fresh
<1>4. ASSUME NEW g \in Subjects, NEW v \in PropertyLists,
             Admit(h, t, Form("configure", g, v, <<>>))
      PROVE  \E j : Taken(j)
  <2>1. "configure" \in Kinds /\ g \notin Secrets /\ g \in Keys /\ v \in Values \cup {Nothing}
    BY <1>0 DEF Kinds, Keys, Values
  <2> DEFINE j == Form("configure", g, v, <<>>)
             n == [j EXCEPT !.token = t]
  <2>2. /\ n \in Jobs /\ n.kind = "configure" /\ n.key = g /\ n.value = v /\ n.wanted = <<>>
        /\ n.add = {} /\ n.drop = {} /\ n.token = t
    BY <1>0, <2>1, FormIs
  <2> HIDE DEF n
  <2>3. FormFits(n)
    BY <2>1, <2>2 DEF FormFits
  <2> QED
    BY <1>4, <2>1, <2>2, <2>3 DEF n, Fresh
<1>5. ASSUME NEW g \in Subjects, Admit(h, t, Form("unconfigure", g, Nothing, <<>>))
      PROVE  \E j : Taken(j)
  <2>1. "unconfigure" \in Kinds /\ g \notin Secrets /\ g \in Keys
    BY <1>0 DEF Kinds, Keys
  <2> DEFINE j == Form("unconfigure", g, Nothing, <<>>)
             n == [j EXCEPT !.token = t]
  <2>2. /\ n \in Jobs /\ n.kind = "unconfigure" /\ n.key = g /\ n.value = Nothing /\ n.wanted = <<>>
        /\ n.add = {} /\ n.drop = {} /\ n.token = t
    BY <1>0, <2>1, FormIs
  <2> HIDE DEF n
  <2>3. FormFits(n)
    BY <2>1, <2>2 DEF FormFits
  <2> QED
    BY <1>5, <2>1, <2>2, <2>3 DEF n, Fresh
<1>6. ASSUME Admit(h, t, NoJob)
      PROVE  \E j : Taken(j)
  <2> DEFINE n == [NoJob EXCEPT !.token = t]
  <2>1. /\ n \in Jobs /\ n.kind = "logout" /\ n.key = Nothing /\ n.wanted = <<>>
        /\ n.add = {} /\ n.drop = {} /\ n.token = t
    BY NoJobFits DEF NoJob, Jobs
  <2> HIDE DEF n
  <2>2. FormFits(n)
    BY <2>1 DEF FormFits
  <2> QED
    BY <1>0, <1>6, <2>1, <2>2 DEF n, Fresh
<1>7. PICK j : Taken(j)
  BY <1>1, <1>2, <1>3, <1>4, <1>5, <1>6 DEF AdmitForm
<1> DEFINE n == [j EXCEPT !.token = t]
<1>8. /\ n \in Jobs /\ FormFits(n) /\ n.add = {} /\ n.drop = {} /\ n.token = t
      /\ n.kind \in {"update", "delete"} => n.key \in used
      /\ n.kind = "create" => n.key \in Fresh
      /\ n.kind # "create" => n.key \notin Secrets \ used
      /\ step[h] = "idle" /\ requests < MaxRequests
      /\ step' = [step EXCEPT ![h] = "admitted"]
      /\ job' = [job EXCEPT ![h] = n]
      /\ requests' = requests + 1
      /\ UNCHANGED <<cacheVars, sessionVars, scope, disturbed, revoked, restarts>>
  BY <1>7 DEF Admit
<1> HIDE DEF n, Taken
<1>9. Types' /\ Lookable' /\ Over' /\ Rows'
  BY <1>8, Bounds DEF Types, SessionTypeOK, Lookable, Over, Rows
<1>10. /\ \A g \in Handlers \ {h} : step'[g] = step[g] /\ job'[g] = job[g]
       /\ step'[h] = "admitted" /\ job'[h] = n
  BY <1>8 DEF Types
<1>11. Fitting'
  BY <1>8, <1>10 DEF Fitting
<1>12. Identified'
  <2>1. ASSUME NEW g \in Handlers, step'[g] = "admitted", job'[g].kind = "create"
        PROVE  /\ job'[g].key \notin used
               /\ \A x \in Handlers \ {g} : job'[x].key # job'[g].key
    <3>1. CASE g = h
      BY <1>8, <1>10, <2>1, <3>1 DEF Fresh
    <3>2. CASE g # h
      <4>1. job[g].key \in Secrets \ used
        BY <1>10, <2>1, <3>2 DEF Fitting, FormFits, Identified
      <4>2. n.key # job[g].key
        BY <1>8, <4>1 DEF Fresh
      <4> QED
        BY <1>10, <2>1, <3>2, <4>1, <4>2 DEF Identified
    <3> QED
      BY <3>1, <3>2
  <2> QED
    BY <1>8, <1>10, <2>1 DEF Identified
<1>13. \A g \in Handlers : \A k : Editing(g, k)' <=> Editing(g, k)
  BY <1>8, <1>10 DEF Editing
<1>14. Settling' /\ Separate'
  <2>1. ASSUME NEW g \in Handlers
        PROVE  /\ step'[g] \in {"listing", "syncing"} => OnOneHost(Range(job'[g].wanted))
               /\ step'[g] = "syncing" /\ job'[g].clean /\ job'[g].key \in Secrets =>
                     (scope'[job'[g].key] \cup job'[g].add) \ job'[g].drop = Range(job'[g].wanted)
    <3>1. CASE g = h
      BY <1>8, <1>10, <3>1
    <3>2. CASE g # h
      <4>1. step'[g] = step[g] /\ job'[g] = job[g] /\ scope' = scope
        BY <1>8, <1>10, <3>2
      <4> QED
        BY <4>1 DEF Settling
    <3> QED
      BY <3>1, <3>2
  <2>2. Settling'
    BY <2>1 DEF Settling, OnOneHost
  <2> QED
    BY <1>8, <1>10, <1>13, <2>2 DEF Separate, Editing
<1>15. CacheHonest' /\ ScopeOnOneHost'
  BY <1>8, <1>13 DEF CacheHonest, ScopeOnOneHost, OnOneHost
<1> QED
  BY <1>9, <1>11, <1>12, <1>14, <1>15

-----------------------------------------------------------------------------
(* The steps of the forms.                                                 *)

\* A handler that returns while it edits nothing.
LEMMA IdleInv ==
    ASSUME Inv, NEW h \in Handlers, step[h] = "admitted", Idle(h),
           UNCHANGED <<cacheVars, scope, disturbed, revoked, requests, restarts>>,
           UNCHANGED sessionVars \/ DeleteSession(job[h].token)
    PROVE  Inv'
<1> USE DEF Inv
<1>1. SessionTypeOK' /\ Over'
  <2>1. job[h].token \in Tokens
    BY DEF Fitting
  <2> QED
    BY <2>1, SessionsKeep DEF Types, SessionTypeOK, Over
<1>2. /\ \A g \in Handlers \ {h} : step'[g] = step[g] /\ job'[g] = job[g]
      /\ step'[h] = "idle" /\ job'[h] = NoJob
  BY DEF Idle, Types
<1>3. Types' /\ Lookable' /\ Rows'
  BY <1>1, NoJobFits DEF Types, Idle, Lookable, Rows
<1>4. Fitting'
  BY <1>2, NoJobFits DEF Fitting
<1>5. Identified'
  <2>1. ASSUME NEW g \in Handlers, step'[g] = "admitted", job'[g].kind = "create"
        PROVE  /\ job'[g].key \notin used
               /\ \A x \in Handlers \ {g} : job'[x].key # job'[g].key
    <3>1. g # h /\ job[g].key \in Secrets
      BY <1>2, <2>1 DEF Fitting, FormFits
    <3> QED
      BY <1>2, <2>1, <3>1, NoJobFits, LookupAssumption DEF Identified
  <2> QED
    BY <1>2, <2>1, NoJobFits DEF Identified
<1>6. \A g \in Handlers : \A k : Editing(g, k)' <=> Editing(g, k)
  BY <1>2 DEF Editing
<1>7. Settling' /\ Separate'
  <2>1. ASSUME NEW g \in Handlers
        PROVE  /\ step'[g] \in {"listing", "syncing"} => OnOneHost(Range(job'[g].wanted))
               /\ step'[g] = "syncing" /\ job'[g].clean /\ job'[g].key \in Secrets =>
                     (scope'[job'[g].key] \cup job'[g].add) \ job'[g].drop = Range(job'[g].wanted)
    <3>1. CASE g = h
      BY <1>2, <1>6, <3>1
    <3>2. CASE g # h
      <4>1. step'[g] = step[g] /\ job'[g] = job[g] /\ scope' = scope
        BY <1>2, <1>6, <3>2
      <4> QED
        BY <4>1 DEF Settling
    <3> QED
      BY <3>1, <3>2
  <2>2. Settling'
    BY <2>1 DEF Settling, OnOneHost
  <2> QED
    BY <1>2, <1>6, <2>2 DEF Separate, Editing
<1>8. CacheHonest' /\ ScopeOnOneHost'
  BY <1>6 DEF CacheHonest, ScopeOnOneHost, OnOneHost
<1> QED
  BY <1>1, <1>3, <1>4, <1>5, <1>7, <1>8

\* The form that a job is about.
SameForm(i, j) ==
    /\ i.kind = j.kind /\ i.key = j.key /\ i.value = j.value /\ i.wanted = j.wanted
    /\ i.token = j.token

\* An edit that meets another stays what it is.
LEMMA JobMet ==
    ASSUME NEW j \in Jobs
    PROVE  LET n == [j EXCEPT !.clean = FALSE] IN
           n \in Jobs /\ SameForm(n, j) /\ n.add = j.add /\ n.drop = j.drop /\ n.clean = FALSE
  BY DEF Jobs, SameForm

\* What a first statement makes of the jobs: its own, which knows what to add, and
\* those of other edits of the same key, which are no longer clean.
LEMMA WriteJobs ==
    ASSUME Inv, NEW h \in Handlers, NEW next, NEW S \in SUBSET Subs, Write(h, next, S)
    PROVE  /\ job' \in [Handlers -> Jobs]
           /\ \A g \in Handlers :
                 /\ SameForm(job'[g], job[g]) /\ job'[g].drop = job[g].drop
                 /\ job'[g].add = IF g = h THEN S ELSE job[g].add
                 /\ job'[g].clean =>
                       IF g = h THEN ~\E x \in Handlers \ {h} : Editing(x, job[h].key)
                       ELSE job[g].clean /\ ~Editing(g, job[h].key)
<1> DEFINE alone == ~\E x \in Handlers \ {h} : Editing(x, job[h].key)
           Fine(g) == /\ job'[g] \in Jobs
                      /\ SameForm(job'[g], job[g]) /\ job'[g].drop = job[g].drop
                      /\ job'[g].add = IF g = h THEN S ELSE job[g].add
                      /\ job'[g].clean => IF g = h THEN alone
                                          ELSE job[g].clean /\ ~Editing(g, job[h].key)
<1>0. PICK c \in BOOLEAN : c = alone
  OBVIOUS
<1>1. job \in [Handlers -> Jobs]
  BY DEF Inv, Types
<1>2. /\ job' = [g \in Handlers |-> job'[g]]
      /\ job'[h] = [job[h] EXCEPT !.add = S, !.clean = c]
      /\ \A g \in Handlers \ {h} :
            /\ Editing(g, job[h].key) => job'[g] = [job[g] EXCEPT !.clean = FALSE]
            /\ ~Editing(g, job[h].key) => job'[g] = job[g]
  BY <1>0 DEF Write
<1> HIDE DEF alone
<1>3. Fine(h)
  <2>0. job[h] \in Jobs
    BY <1>1
  <2>1. LET n == [job[h] EXCEPT !.add = S, !.clean = c] IN
        n \in Jobs /\ SameForm(n, job[h]) /\ n.add = S /\ n.drop = job[h].drop /\ n.clean = c
    <3>1. PICK j \in Jobs : j = job[h]
      BY <2>0
    <3>2. c \in BOOLEAN
      BY <1>0
    <3>3. LET n == [j EXCEPT !.add = S, !.clean = c] IN
          n \in Jobs /\ SameForm(n, j) /\ n.add = S /\ n.drop = j.drop /\ n.clean = c
      BY <3>2 DEF Jobs, SameForm
    <3> QED
      BY <3>1, <3>3
  <2> QED
    BY <1>0, <1>2, <2>1
<1>4. ASSUME NEW g \in Handlers \ {h}
      PROVE  Fine(g)
  <2>1. CASE Editing(g, job[h].key)
    <3>1. LET n == [job[g] EXCEPT !.clean = FALSE] IN
          /\ n \in Jobs /\ SameForm(n, job[g]) /\ n.add = job[g].add
          /\ n.drop = job[g].drop /\ n.clean = FALSE
      BY <1>1, JobMet
    <3>2. job'[g] = [job[g] EXCEPT !.clean = FALSE]
      BY <1>2, <2>1
    <3> QED
      BY <3>1, <3>2
  <2>2. CASE ~Editing(g, job[h].key)
    <3>1. job'[g] = job[g] /\ job[g] \in Jobs
      BY <1>1, <1>2, <2>2
    <3> QED
      BY <2>2, <3>1 DEF SameForm
  <2> QED
    BY <2>1, <2>2
<1>5. \A g \in Handlers : Fine(g)
  BY <1>3, <1>4
<1>6. job' \in [Handlers -> Jobs]
  BY <1>2, <1>5
<1> QED
  BY <1>5, <1>6 DEF alone


\* A form keeps fitting as long as it stays the same and adds nothing to a subject.
LEMMA SameFits ==
    ASSUME NEW i, NEW j, SameForm(i, j), FormFits(j),
           j.key \notin Secrets => i.add = {} /\ i.drop = {}
    PROVE  FormFits(i)
  BY DEF SameForm, FormFits

\* The first statement of an edit leaves the row its form asks for, and, when nothing is
\* left to be listed, the associations it asks for but for those still to be added.
LEMMA WriteInv ==
    ASSUME Inv, NEW h \in Handlers, NEW next \in {"listing", "syncing"},
           NEW S \in SUBSET Subs, Write(h, next, S),
           step[h] = "admitted", job[h].kind # "logout", OnOneHost(Range(job[h].wanted)),
           job[h].key \notin Secrets => next = "syncing" /\ S = {},
           next = "syncing" /\ job[h].key \in Secrets =>
                scope'[job[h].key] \cup S = Range(job[h].wanted),
           scope' \in [Secrets -> SUBSET Subs],
           \A k \in Secrets : k # job[h].key => scope'[k] = scope[k],
           job[h].key \in Secrets /\ job[h].value = Nothing => scope'[job[h].key] = {},
           used' \in SUBSET Secrets, used \subseteq used', used' \subseteq used \cup {job[h].key},
           job[h].key \in Secrets => job[h].key \in used'
    PROVE  Inv'
<1> USE DEF Inv
<1> DEFINE k == job[h].key
<1>0. Secrets \cap Subjects = {} /\ Nothing \notin Secrets /\ Nothing \notin Values
  BY LookupAssumption
<1>1. /\ job[h] \in Jobs /\ FormFits(job[h]) /\ job[h].kind \in Kinds
      /\ job[h].add = {} /\ job[h].drop = {} /\ job[h].token \in Tokens
  BY DEF Types, Jobs, Fitting
<1>2. k \in Keys /\ job[h].value \in Values \cup {Nothing}
  BY <1>1 DEF FormFits, Kinds, Keys, Values
<1>3. k \in Secrets => job[h].value \in PatternOrNone
  BY <1>0, <1>1 DEF FormFits, Kinds, PatternOrNone
<1>4. /\ row' = [row EXCEPT ![k] = job[h].value]
      /\ step' = [step EXCEPT ![h] = next]
      /\ UNCHANGED <<entry, ask, tainted, sessionVars, disturbed, revoked, requests, restarts>>
  BY DEF Write
<1>5. /\ job' \in [Handlers -> Jobs]
      /\ \A g \in Handlers :
            /\ SameForm(job'[g], job[g]) /\ job'[g].drop = job[g].drop
            /\ job'[g].add = IF g = h THEN S ELSE job[g].add
            /\ job'[g].clean =>
                  IF g = h THEN ~\E x \in Handlers \ {h} : Editing(x, k)
                  ELSE job[g].clean /\ ~Editing(g, k)
  BY WriteJobs
<1>6. /\ \A j \in Keys : row'[j] = IF j = k THEN job[h].value ELSE row[j]
      /\ row' \in [Keys -> Values \cup {Nothing}]
  BY <1>2, <1>4 DEF Types
<1>7. /\ \A g \in Handlers : step'[g] = IF g = h THEN next ELSE step[g]
      /\ step' \in [Handlers -> {"idle", "admitted", "listing", "syncing"}]
  BY <1>4 DEF Types
<1>8. \A g \in Handlers : \A j : Editing(g, j)' <=> IF g = h THEN j = k ELSE Editing(g, j)
  BY <1>5, <1>7 DEF Editing, SameForm
<1>9. Types' /\ Lookable' /\ Over'
  <2>1. Types'
    BY <1>4, <1>5, <1>6, <1>7 DEF Types, SessionTypeOK
  <2>2. Lookable'
    BY <1>3, <1>4, <1>6 DEF Lookable, Keys
  <2>3. Over'
    BY <1>4 DEF Over
  <2> QED
    BY <2>1, <2>2, <2>3
<1>10. Fitting'
  <2> SUFFICES ASSUME NEW g \in Handlers
               PROVE  /\ FormFits(job'[g])
                      /\ step'[g] = "idle" => job'[g] = NoJob
                      /\ step'[g] # "idle" => job'[g].token \in Tokens
                      /\ step'[g] = "admitted" => job'[g].add = {} /\ job'[g].drop = {}
                      /\ step'[g] = "listing" => job'[g].key \in Secrets
                      /\ step'[g] \in {"listing", "syncing"} => job'[g].kind # "logout"
    BY DEF Fitting
  <2>1. FormFits(job'[g])
    <3>1. FormFits(job[g])
      BY DEF Fitting
    <3>2. SameForm(job'[g], job[g])
      BY <1>5
    <3>3. job[g].key \notin Secrets => job'[g].add = {} /\ job'[g].drop = {}
      BY <1>1, <1>5, <3>1 DEF FormFits
    <3> QED
      BY <3>1, <3>2, <3>3, SameFits
  <2>2. CASE g = h
    BY <1>0, <1>1, <1>5, <1>7, <2>1, <2>2 DEF SameForm
  <2>3. CASE g # h
    <3>1. step'[g] = step[g]
      BY <1>7, <2>3
    <3>2. step[g] = "idle" => job'[g] = NoJob
      BY <2>3, NoJobFits DEF Write, Fitting, Editing
    <3> QED
      BY <1>5, <2>1, <2>3, <3>1, <3>2 DEF SameForm, Fitting
  <2> QED
    BY <2>2, <2>3
<1>11. Rows'
  BY <1>0, <1>2, <1>6 DEF Rows, Keys
<1>12. Identified'
  <2> SUFFICES ASSUME NEW g \in Handlers
               PROVE  /\ step'[g] \in {"listing", "syncing"} /\ job'[g].key \in Secrets =>
                            job'[g].key \in used'
                      /\ job'[g].kind \in {"update", "delete"} => job'[g].key \in used'
                      /\ step'[g] = "admitted" /\ job'[g].kind = "create" =>
                            /\ job'[g].key \notin used'
                            /\ \A x \in Handlers \ {g} : job'[x].key # job'[g].key
    BY DEF Identified
  <2>1. \A x \in Handlers : job'[x].key = job[x].key /\ job'[x].kind = job[x].kind
    BY <1>5 DEF SameForm
  <2>2. CASE g = h
    BY <1>7, <2>1, <2>2 DEF Identified
  <2>3. CASE g # h
    <3>1. step'[g] = step[g]
      BY <1>7, <2>3
    <3> QED
      BY <2>1, <2>3, <3>1 DEF Identified
  <2> QED
    BY <2>2, <2>3
<1>13. Settling'
  <2> SUFFICES ASSUME NEW g \in Handlers
               PROVE  /\ step'[g] \in {"listing", "syncing"} => OnOneHost(Range(job'[g].wanted))
                      /\ step'[g] = "syncing" /\ job'[g].clean /\ job'[g].key \in Secrets =>
                            (scope'[job'[g].key] \cup job'[g].add) \ job'[g].drop = Range(job'[g].wanted)
    BY DEF Settling, OnOneHost
  <2>1. job'[g].key = job[g].key /\ job'[g].wanted = job[g].wanted
    BY <1>5 DEF SameForm
  <2>2. CASE g = h
    BY <1>1, <1>5, <1>7, <2>1, <2>2
  <2>3. CASE g # h
    <3>1. step'[g] = step[g] /\ job'[g].add = job[g].add /\ job'[g].drop = job[g].drop
      BY <1>5, <1>7, <2>3
    <3>2. job'[g].clean => job[g].clean /\ ~Editing(g, k)
      BY <1>5, <2>3
    <3> QED
      BY <2>1, <3>1, <3>2 DEF Settling, Editing
  <2> QED
    BY <2>2, <2>3
<1>14. Separate'
  <2> SUFFICES ASSUME NEW g \in Handlers, NEW x \in Handlers, NEW j \in Keys,
                      Editing(g, j)', Editing(x, j)', g # x
               PROVE  ~job'[g].clean
    BY DEF Separate
  <2>1. CASE g = h
    BY <1>5, <1>8, <2>1
  <2>2. CASE x = h
    BY <1>5, <1>8, <2>2
  <2>3. CASE g # h /\ x # h
    BY <1>5, <1>8, <2>3 DEF Separate
  <2> QED
    BY <2>1, <2>2, <2>3
<1>15. CacheHonest'
  <2> SUFFICES ASSUME NEW j \in Keys, entry'[j] \notin {Absent, row'[j]}, j \notin tainted'
               PROVE  \E g \in Handlers : Editing(g, j)'
    BY DEF CacheHonest
  <2>1. CASE j = k
    BY <1>8, <2>1
  <2>2. CASE j # k
    <3>1. row'[j] = row[j] /\ entry' = entry /\ tainted' = tainted
      BY <1>4, <1>6, <2>2
    <3>2. PICK g \in Handlers : Editing(g, j)
      BY <3>1 DEF CacheHonest
    <3>3. g # h
      BY <3>2 DEF Editing
    <3> QED
      BY <1>8, <3>2, <3>3
  <2> QED
    BY <2>1, <2>2
<1>16. ScopeOnOneHost'
  <2> SUFFICES ASSUME NEW j \in Secrets, j \notin disturbed', ~OnOneHost(scope'[j])
               PROVE  \E g \in Handlers : Editing(g, j)'
    BY DEF ScopeOnOneHost, OnOneHost
  <2>1. CASE j = k
    BY <1>8, <2>1
  <2>2. CASE j # k
    <3>1. scope'[j] = scope[j] /\ disturbed' = disturbed
      BY <1>4, <2>2
    <3>2. PICK g \in Handlers : Editing(g, j)
      BY <3>1 DEF ScopeOnOneHost
    <3>3. g # h
      BY <3>2 DEF Editing
    <3> QED
      BY <1>8, <3>2, <3>3
  <2> QED
    BY <2>1, <2>2
<1> QED
  BY <1>9, <1>10, <1>11, <1>12, <1>13, <1>14, <1>15, <1>16

\* The five edits.
LEMMA WritesInv ==
    ASSUME Inv, NEW h \in Handlers,
           \/ InsertApiSecret(h) \/ UpdateApiSecret(h) \/ DeleteApiSecret(h)
           \/ UpsertLogConfig(h) \/ DeleteLogConfigForSubject(h)
    PROVE  Inv'
<1> DEFINE k == job[h].key
<1>0. Secrets \cap Subjects = {} /\ Nothing \notin Values
  BY LookupAssumption
<1>1. /\ job[h] \in Jobs /\ FormFits(job[h])
      /\ Range(job[h].wanted) \in SUBSET Subs
      /\ HostsAgree(job[h].wanted) => OnOneHost(Range(job[h].wanted))
      /\ used \in SUBSET Secrets /\ scope \in [Secrets -> SUBSET Subs]
  <2>1. job[h] \in Jobs /\ FormFits(job[h])
        /\ used \in SUBSET Secrets /\ scope \in [Secrets -> SUBSET Subs]
    BY DEF Inv, Types, Fitting
  <2>2. job[h].wanted \in Seq(Subs)
    BY <2>1 DEF Jobs
  <2> QED
    BY <2>1, <2>2, Selection
<1>3. CASE InsertApiSecret(h)
  <2>1. step[h] = "admitted" /\ job[h].kind = "create" /\ HostsAgree(job[h].wanted)
        /\ Write(h, "syncing", Range(job[h].wanted)) /\ used' = used \cup {k} /\ UNCHANGED scope
    BY <1>3 DEF InsertApiSecret
  <2>2. k \in Secrets /\ job[h].value \in SubjectPatterns
    BY <1>1, <2>1 DEF FormFits
  <2>3. k \notin used
    BY <2>1 DEF Inv, Identified
  <2>4. scope[k] = {}
    BY <2>2, <2>3 DEF Inv, Rows
  <2>5. job[h].value # Nothing
    BY <1>0, <2>2 DEF Values
  <2> QED
    BY <1>1, <2>1, <2>2, <2>4, <2>5, WriteInv
<1>4. CASE UpdateApiSecret(h)
  <2>1. step[h] = "admitted" /\ job[h].kind = "update" /\ HostsAgree(job[h].wanted)
        /\ Write(h, "listing", {}) /\ UNCHANGED <<used, scope>>
    BY <1>4 DEF UpdateApiSecret
  <2>2. k \in Secrets /\ job[h].value \in SubjectPatterns
    BY <1>1, <2>1 DEF FormFits
  <2>3. k \in used
    BY <2>1 DEF Inv, Identified
  <2>4. job[h].value # Nothing
    BY <1>0, <2>2 DEF Values
  <2> QED
    BY <1>1, <2>1, <2>2, <2>3, <2>4, WriteInv
<1>5. CASE DeleteApiSecret(h)
  <2>1. step[h] = "admitted" /\ job[h].kind = "delete"
        /\ Write(h, "syncing", {}) /\ scope' = [scope EXCEPT ![k] = {}] /\ UNCHANGED used
    BY <1>5 DEF DeleteApiSecret
  <2>2. k \in Secrets /\ job[h].wanted = <<>>
    BY <1>1, <2>1 DEF FormFits
  <2>3. k \in used
    BY <2>1 DEF Inv, Identified
  <2>4. /\ scope' \in [Secrets -> SUBSET Subs] /\ scope'[k] = {}
        /\ \A j \in Secrets : j # k => scope'[j] = scope[j]
    BY <1>1, <2>1, <2>2
  <2>5. OnOneHost(Range(job[h].wanted)) /\ scope'[k] \cup {} = Range(job[h].wanted)
    BY <2>2, <2>4, EmptySelection
  <2> QED
    BY <1>1, <2>1, <2>2, <2>3, <2>4, <2>5, WriteInv
<1>6. CASE UpsertLogConfig(h) \/ DeleteLogConfigForSubject(h)
  <2>1. step[h] = "admitted" /\ job[h].kind \in {"configure", "unconfigure"}
        /\ Write(h, "syncing", {}) /\ UNCHANGED <<used, scope>>
    BY <1>6 DEF UpsertLogConfig, DeleteLogConfigForSubject
  <2>2. k \notin Secrets /\ job[h].wanted = <<>>
    BY <1>0, <1>1, <2>1 DEF FormFits
  <2>3. OnOneHost(Range(job[h].wanted))
    BY <2>2, EmptySelection
  <2> QED
    BY <1>1, <2>1, <2>2, <2>3, WriteInv
<1> QED
  BY <1>3, <1>4, <1>5, <1>6

\* An edit that goes on with its associations, and loses count of none of them unless it
\* fails, leaves every other edit and every other secret alone.
LEMMA ProgressInv ==
    ASSUME Inv, NEW h \in Handlers, step[h] \in {"listing", "syncing"},
           job[h].key \in Secrets,
           NEW j \in Jobs, job' = [job EXCEPT ![h] = j], SameForm(j, job[h]),
           j.clean => job[h].clean /\ (scope'[job[h].key] \cup j.add) \ j.drop = Range(job[h].wanted),
           step' = [step EXCEPT ![h] = "syncing"],
           scope' \in [Secrets -> SUBSET Subs],
           \A k \in Secrets : k # job[h].key => scope'[k] = scope[k],
           scope'[job[h].key] # {} => row[job[h].key] # Nothing,
           UNCHANGED <<cacheVars, sessionVars, disturbed, revoked, requests, restarts>>
    PROVE  Inv'
<1> USE DEF Inv
<1> DEFINE k == job[h].key
<1>1. /\ \A g \in Handlers : step'[g] = IF g = h THEN "syncing" ELSE step[g]
      /\ \A g \in Handlers : job'[g] = IF g = h THEN j ELSE job[g]
  BY DEF Types
<1>2. Types' /\ Lookable' /\ Over' /\ Rows'
  BY DEF Types, SessionTypeOK, Lookable, Over, Rows
<1>3. \A g \in Handlers : \A x : Editing(g, x)' <=> Editing(g, x)
  BY <1>1 DEF Editing, SameForm
<1>4. Fitting'
  <2>1. FormFits(j)
    BY SameFits DEF Fitting
  <2> QED
    BY <1>1, <2>1 DEF Fitting, SameForm
<1>5. Identified'
  <2>1. \A g \in Handlers : job'[g].key = job[g].key /\ job'[g].kind = job[g].kind
    BY <1>1 DEF SameForm
  <2>2. \A g \in Handlers : step'[g] = "admitted" => step[g] = "admitted"
    BY <1>1
  <2>3. \A g \in Handlers : step'[g] \in {"listing", "syncing"} => step[g] \in {"listing", "syncing"}
    BY <1>1
  <2> QED
    BY <2>1, <2>2, <2>3 DEF Identified
<1>6. Settling'
  <2> SUFFICES ASSUME NEW g \in Handlers
               PROVE  /\ step'[g] \in {"listing", "syncing"} => OnOneHost(Range(job'[g].wanted))
                      /\ step'[g] = "syncing" /\ job'[g].clean /\ job'[g].key \in Secrets =>
                            (scope'[job'[g].key] \cup job'[g].add) \ job'[g].drop = Range(job'[g].wanted)
    BY DEF Settling, OnOneHost
  <2>1. CASE g = h
    BY <1>1, <2>1 DEF Settling, SameForm
  <2>2. CASE g # h
    <3>1. step'[g] = step[g] /\ job'[g] = job[g]
      BY <1>1, <2>2
    <3>2. step[g] = "syncing" /\ job[g].clean => job[g].key # k
      BY <2>2 DEF Separate, Editing, Keys
    <3> QED
      BY <3>1, <3>2 DEF Settling
  <2> QED
    BY <2>1, <2>2
<1>7. Separate'
  BY <1>1, <1>3 DEF Separate
<1>8. CacheHonest'
  BY <1>3 DEF CacheHonest
<1>9. ScopeOnOneHost'
  <2> SUFFICES ASSUME NEW x \in Secrets, x \notin disturbed', ~OnOneHost(scope'[x])
               PROVE  \E g \in Handlers : Editing(g, x)'
    BY DEF ScopeOnOneHost, OnOneHost
  <2>1. CASE x = k
    BY <1>3, <2>1 DEF Editing
  <2>2. CASE x # k
    BY <1>3, <2>2 DEF ScopeOnOneHost
  <2> QED
    BY <2>1, <2>2
<1> QED
  BY <1>2, <1>4, <1>5, <1>6, <1>7, <1>8, <1>9

\* The statements after the first.
LEMMA ListScopeInv ==
    ASSUME Inv, NEW h \in Handlers, ListScope(h)
    PROVE  Inv'
<1> DEFINE k == job[h].key
<1>1. PICK failed \in {FALSE, DbMayFail} :
        job' = [job EXCEPT ![h].add = Range(job[h].wanted) \ ListSubscribersForApiSecret(k, failed),
                           ![h].drop = ListSubscribersForApiSecret(k, failed) \ Range(job[h].wanted),
                           ![h].clean = @ /\ ~failed]
  BY DEF ListScope
<1> DEFINE current == ListSubscribersForApiSecret(k, failed)
           A == Range(job[h].wanted) \ current
           D == current \ Range(job[h].wanted)
           c == job[h].clean /\ ~failed
           j == [job[h] EXCEPT !.add = A, !.drop = D, !.clean = c]
<1>2. /\ job \in [Handlers -> Jobs] /\ scope \in [Secrets -> SUBSET Subs]
      /\ step[h] = "listing" /\ k \in Secrets
  BY DEF Inv, Types, Fitting, ListScope
<1>3. Range(job[h].wanted) \in SUBSET Subs /\ current \in SUBSET Subs
  <2>1. job[h].wanted \in Seq(Subs)
    BY <1>2 DEF Jobs
  <2> QED
    BY <1>2, <2>1, Selection DEF ListSubscribersForApiSecret
<1>4. PICK i \in Jobs : i = job[h]
  BY <1>2
<1>5. A \in SUBSET Subs /\ D \in SUBSET Subs /\ c \in BOOLEAN
  BY <1>3
<1>6. ~failed => (scope[k] \cup A) \ D = Range(job[h].wanted)
  BY DEF ListSubscribersForApiSecret
<1> HIDE DEF A, D, c
<1>7. LET n == [i EXCEPT !.add = A, !.drop = D, !.clean = c] IN
      n \in Jobs /\ SameForm(n, i) /\ n.add = A /\ n.drop = D /\ n.clean = c
  BY <1>5 DEF Jobs, SameForm
<1>8. j \in Jobs /\ SameForm(j, job[h]) /\ j.add = A /\ j.drop = D /\ j.clean = c
  BY <1>4, <1>7
<1>9. job' = [job EXCEPT ![h] = j]
  BY <1>1, <1>2 DEF A, D, c
<1>10. step' = [step EXCEPT ![h] = "syncing"]
       /\ UNCHANGED <<cacheVars, sessionVars, scope, disturbed, revoked, requests, restarts>>
  BY DEF ListScope
<1>11. j.clean => job[h].clean /\ (scope'[k] \cup j.add) \ j.drop = Range(job[h].wanted)
  BY <1>6, <1>8, <1>10 DEF c
<1>12. scope'[k] # {} => row[k] # Nothing
  BY <1>2, <1>10 DEF Inv, Rows
<1> HIDE DEF j
<1> QED
  BY <1>2, <1>8, <1>9, <1>10, <1>11, <1>12, ProgressInv

LEMMA AttachInv ==
    ASSUME Inv, NEW h \in Handlers, NEW s \in Subs, Attach(h, s)
    PROVE  Inv'
<1> DEFINE k == job[h].key
           gone == row[k] = Nothing
<1>1. PICK failed \in {gone, gone \/ DbMayFail} :
        /\ AddApiSecretSubscriber(k, s, failed)
        /\ job' = [job EXCEPT ![h].add = @ \ {s}, ![h].clean = @ /\ ~failed]
  BY DEF Attach
<1> DEFINE A == job[h].add \ {s}
           c == job[h].clean /\ ~failed
           j == [job[h] EXCEPT !.add = A, !.clean = c]
<1>2. /\ job \in [Handlers -> Jobs] /\ scope \in [Secrets -> SUBSET Subs]
      /\ step[h] = "syncing" /\ s \in job[h].add /\ step \in [Handlers -> {"idle", "admitted", "listing", "syncing"}]
  BY DEF Inv, Types, Attach
<1>3. k \in Secrets
  BY <1>2 DEF Inv, Fitting, FormFits
<1>4. PICK i \in Jobs : i = job[h]
  BY <1>2
<1>5. A \in SUBSET Subs /\ c \in BOOLEAN
  BY <1>2 DEF Jobs
<1>6. scope' = IF failed THEN scope ELSE [scope EXCEPT ![k] = @ \cup {s}]
  BY <1>1 DEF AddApiSecretSubscriber
<1>7. /\ scope' \in [Secrets -> SUBSET Subs]
      /\ \A x \in Secrets : x # k => scope'[x] = scope[x]
      /\ scope'[k] = IF failed THEN scope[k] ELSE scope[k] \cup {s}
  BY <1>2, <1>3, <1>6
<1>8. ~failed => ~gone
  BY <1>1
<1>9. scope'[k] # {} => row[k] # Nothing
  BY <1>3, <1>7, <1>8 DEF Inv, Rows
<1>10. job[h].clean => (scope[k] \cup job[h].add) \ job[h].drop = Range(job[h].wanted)
  BY <1>2, <1>3 DEF Inv, Settling
<1>11. c => job[h].clean /\ (scope'[k] \cup A) \ job[h].drop = Range(job[h].wanted)
  BY <1>2, <1>7, <1>10
<1> HIDE DEF A, c
<1>12. LET n == [i EXCEPT !.add = A, !.clean = c] IN
       n \in Jobs /\ SameForm(n, i) /\ n.add = A /\ n.drop = i.drop /\ n.clean = c
  BY <1>5 DEF Jobs, SameForm
<1>13. j \in Jobs /\ SameForm(j, job[h]) /\ j.add = A /\ j.drop = job[h].drop /\ j.clean = c
  BY <1>4, <1>12
<1>14. job' = [job EXCEPT ![h] = j]
  BY <1>1, <1>2 DEF A, c
<1>15. j.clean => job[h].clean /\ (scope'[k] \cup j.add) \ j.drop = Range(job[h].wanted)
  BY <1>11, <1>13
<1>16. step' = [step EXCEPT ![h] = "syncing"]
       /\ UNCHANGED <<cacheVars, sessionVars, disturbed, revoked, requests, restarts>>
  BY <1>2 DEF Attach
<1> HIDE DEF j
<1> QED
  BY <1>2, <1>3, <1>7, <1>9, <1>13, <1>14, <1>15, <1>16, ProgressInv

LEMMA DetachInv ==
    ASSUME Inv, NEW h \in Handlers, NEW s \in Subs, Detach(h, s)
    PROVE  Inv'
<1> DEFINE k == job[h].key
<1>1. PICK failed \in {FALSE, DbMayFail} :
        /\ RemoveApiSecretSubscriber(k, s, failed)
        /\ job' = [job EXCEPT ![h].drop = @ \ {s}, ![h].clean = @ /\ ~failed]
  BY DEF Detach
<1> DEFINE D == job[h].drop \ {s}
           c == job[h].clean /\ ~failed
           j == [job[h] EXCEPT !.drop = D, !.clean = c]
<1>2. /\ job \in [Handlers -> Jobs] /\ scope \in [Secrets -> SUBSET Subs]
      /\ step[h] = "syncing" /\ job[h].add = {} /\ s \in job[h].drop
      /\ step \in [Handlers -> {"idle", "admitted", "listing", "syncing"}]
  BY DEF Inv, Types, Detach
<1>3. k \in Secrets
  BY <1>2 DEF Inv, Fitting, FormFits
<1>4. PICK i \in Jobs : i = job[h]
  BY <1>2
<1>5. D \in SUBSET Subs /\ c \in BOOLEAN
  BY <1>2 DEF Jobs
<1>6. scope' = IF failed THEN scope ELSE [scope EXCEPT ![k] = @ \ {s}]
  BY <1>1 DEF RemoveApiSecretSubscriber
<1>7. /\ scope' \in [Secrets -> SUBSET Subs]
      /\ \A x \in Secrets : x # k => scope'[x] = scope[x]
      /\ scope'[k] = IF failed THEN scope[k] ELSE scope[k] \ {s}
  BY <1>2, <1>3, <1>6
<1>8. scope'[k] # {} => row[k] # Nothing
  BY <1>3, <1>7 DEF Inv, Rows
<1>9. job[h].clean => scope[k] \ job[h].drop = Range(job[h].wanted)
  BY <1>2, <1>3 DEF Inv, Settling
<1>10. c => job[h].clean /\ scope'[k] \ D = Range(job[h].wanted)
  BY <1>2, <1>7, <1>9
<1> HIDE DEF D, c
<1>11. LET n == [i EXCEPT !.drop = D, !.clean = c] IN
       n \in Jobs /\ SameForm(n, i) /\ n.add = i.add /\ n.drop = D /\ n.clean = c
  BY <1>5 DEF Jobs, SameForm
<1>12. j \in Jobs /\ SameForm(j, job[h]) /\ j.add = {} /\ j.drop = D /\ j.clean = c
  BY <1>2, <1>4, <1>11
<1>13. job' = [job EXCEPT ![h] = j]
  BY <1>1, <1>2 DEF D, c
<1>14. j.clean => job[h].clean /\ (scope'[k] \cup j.add) \ j.drop = Range(job[h].wanted)
  BY <1>10, <1>12
<1>15. step' = [step EXCEPT ![h] = "syncing"]
       /\ UNCHANGED <<cacheVars, sessionVars, disturbed, revoked, requests, restarts>>
  BY <1>2 DEF Detach
<1> HIDE DEF j
<1> QED
  BY <1>2, <1>3, <1>7, <1>8, <1>12, <1>13, <1>14, <1>15, ProgressInv

-----------------------------------------------------------------------------
(* The end of an edit, and of the process.                                 *)

\* What the flush leaves in its cache is nothing; what a clean edit leaves behind is what
\* its form asked for.
LEMMA FlushInv ==
    ASSUME Inv, NEW h \in Handlers, Flush(h)
    PROVE  Inv'
<1> USE DEF Inv
<1> DEFINE k == job[h].key
           K == IF k \in Secrets THEN Secrets ELSE Subjects
<1>1. /\ step[h] = "syncing" /\ job[h].add = {} /\ job[h].drop = {}
      /\ entry' = [x \in Keys |-> IF x \in K THEN Absent ELSE entry[x]]
      /\ tainted' = tainted \ K
      /\ disturbed' = IF job[h].clean THEN disturbed \ {k} ELSE disturbed \cup {k}
      /\ revoked' = IF job[h].kind = "delete" THEN revoked \cup {k} ELSE revoked
      /\ UNCHANGED <<tables, ask, sessionVars, scope, requests, restarts>>
  BY DEF Flush, FlushCache
<1>2. /\ job[h] \in Jobs /\ FormFits(job[h]) /\ job[h].kind # "logout"
  BY <1>1 DEF Types, Fitting
<1>3. k \in Keys /\ (job[h].kind = "delete" => k \in Secrets)
  BY <1>2 DEF Jobs, FormFits, Kinds, Keys
<1>4. /\ \A g \in Handlers \ {h} : step'[g] = step[g] /\ job'[g] = job[g]
      /\ step'[h] = "idle" /\ job'[h] = NoJob
      /\ step' \in [Handlers -> {"idle", "admitted", "listing", "syncing"}]
      /\ job' \in [Handlers -> Jobs]
  BY NoJobFits DEF Flush, Idle, Types
<1>5. Types'
  <2>1. entry' \in [Keys -> Values \cup {Nothing, Absent}]
    BY <1>1 DEF Types
  <2>2. disturbed' \in SUBSET Keys /\ revoked' \in SUBSET Secrets /\ tainted' \in SUBSET Keys
    BY <1>1, <1>3 DEF Types
  <2> QED
    BY <1>1, <1>4, <2>1, <2>2 DEF Types, SessionTypeOK
<1>6. Lookable' /\ Over' /\ Rows'
  BY <1>1 DEF Lookable, Over, Rows, Keys
<1>7. Fitting'
  BY <1>4, NoJobFits DEF Fitting
<1>8. Identified'
  <2>1. ASSUME NEW g \in Handlers, step'[g] = "admitted", job'[g].kind = "create"
        PROVE  /\ job'[g].key \notin used
               /\ \A x \in Handlers \ {g} : job'[x].key # job'[g].key
    <3>1. g # h /\ job[g].key \in Secrets
      BY <1>4, <2>1 DEF Fitting, FormFits
    <3> QED
      BY <1>4, <2>1, <3>1, NoJobFits, LookupAssumption DEF Identified
  <2> QED
    BY <1>1, <1>4, <2>1, NoJobFits DEF Identified
<1>9. \A g \in Handlers : \A x : Editing(g, x)' <=> g # h /\ Editing(g, x)
  BY <1>4 DEF Editing
<1>10. Settling' /\ Separate'
  <2>1. Settling'
    <3>1. \A g \in Handlers : step'[g] \in {"listing", "syncing"}
                              => g # h /\ step'[g] = step[g] /\ job'[g] = job[g]
      BY <1>4
    <3>2. scope' = scope
      BY <1>1
    <3>3. ASSUME NEW g \in Handlers, step'[g] \in {"listing", "syncing"}
          PROVE  /\ OnOneHost(Range(job'[g].wanted))
                 /\ step'[g] = "syncing" /\ job'[g].clean /\ job'[g].key \in Secrets
                    => (scope'[job'[g].key] \cup job'[g].add) \ job'[g].drop
                       = Range(job'[g].wanted)
      <4>1. step'[g] = step[g] /\ job'[g] = job[g]
        BY <3>1, <3>3
      <4> QED
        BY <3>2, <3>3, <4>1 DEF Settling
    <3> QED
      BY <3>3 DEF Settling, OnOneHost
  <2>2. Separate'
    BY <1>4, <1>9 DEF Separate
  <2> QED
    BY <2>1, <2>2
<1>11. CacheHonest'
  <2> SUFFICES ASSUME NEW x \in Keys, entry'[x] \notin {Absent, row'[x]}, x \notin tainted'
               PROVE  \E g \in Handlers : Editing(g, x)'
    BY DEF CacheHonest
  <2>1. x \notin K /\ entry'[x] = entry[x] /\ x \notin tainted /\ row'[x] = row[x]
    BY <1>1
  <2>2. PICK g \in Handlers : Editing(g, x)
    BY <2>1 DEF CacheHonest
  <2>3. x # k
    BY <1>3, <2>1 DEF Keys
  <2> QED
    BY <1>9, <2>2, <2>3 DEF Editing
<1>12. ScopeOnOneHost'
  <2> SUFFICES ASSUME NEW x \in Secrets, x \notin disturbed', ~OnOneHost(scope[x])
               PROVE  \E g \in Handlers : Editing(g, x)'
    BY <1>1 DEF ScopeOnOneHost, OnOneHost
  <2>1. CASE x = k
    <3>1. job[h].clean
      BY <1>1, <2>1
    <3>2. scope[k] = Range(job[h].wanted) /\ OnOneHost(Range(job[h].wanted))
      BY <1>1, <2>1, <3>1 DEF Settling
    <3> QED
      BY <2>1, <3>2
  <2>2. CASE x # k
    <3>1. x \notin disturbed
      BY <1>1, <2>2
    <3>2. PICK g \in Handlers : Editing(g, x)
      BY <3>1 DEF ScopeOnOneHost
    <3> QED
      BY <1>9, <2>2, <3>2 DEF Editing
  <2> QED
    BY <2>1, <2>2
<1> QED
  BY <1>5, <1>6, <1>7, <1>8, <1>10, <1>11, <1>12

\* A restart leaves the tables as they are; edits that were under way are remembered.
LEMMA RestartInv ==
    ASSUME Inv, Restart
    PROVE  Inv'
<1> USE DEF Inv
<1>1. /\ entry' = [k \in Keys |-> Absent] /\ ask' = [r \in Readers |-> NoAsk] /\ tainted' = {}
      /\ step' = [h \in Handlers |-> "idle"] /\ job' = [h \in Handlers |-> NoJob]
      /\ disturbed' = disturbed \cup {k \in Secrets : \E h \in Handlers : Editing(h, k)}
      /\ restarts < MaxRestarts /\ restarts' = restarts + 1
      /\ LoseSessions /\ UNCHANGED <<tables, scope, revoked, requests>>
  BY DEF Restart, EmptyCaches
<1>2. SessionTypeOK' /\ Over'
  BY <1>1, SessionsKeep DEF Types
<1>3. Types'
  <2>1. entry' \in [Keys -> Values \cup {Nothing, Absent}] /\ tainted' \in SUBSET Keys
    BY <1>1
  <2>2. ask' \in [Readers -> Asks] /\ job' \in [Handlers -> Jobs]
        /\ step' \in [Handlers -> {"idle", "admitted", "listing", "syncing"}]
    BY <1>1, NoAskFits, NoJobFits
  <2>3. disturbed' \in SUBSET Keys /\ restarts' \in 0..MaxRestarts
    BY <1>1, Bounds DEF Types, Keys
  <2> QED
    BY <1>1, <1>2, <2>1, <2>2, <2>3 DEF Types
<1>4. Lookable'
  BY <1>1, NoAskFits DEF Lookable, Keys
<1>5. Rows' /\ Fitting'
  BY <1>1, NoJobFits DEF Rows, Fitting
<1>6. Identified' /\ Settling' /\ Separate'
  BY <1>1, NoJobFits DEF Identified, Settling, Separate, Editing
<1>7. CacheHonest'
  BY <1>1 DEF CacheHonest
<1>8. ScopeOnOneHost'
  <2> SUFFICES ASSUME NEW k \in Secrets, k \notin disturbed'
               PROVE  OnOneHost(scope[k])
    BY <1>1 DEF ScopeOnOneHost, OnOneHost
  <2> QED
    BY <1>1 DEF ScopeOnOneHost
<1> QED
  BY <1>2, <1>3, <1>4, <1>5, <1>6, <1>7, <1>8

LEMMA NextInv ==
    ASSUME Inv, [Next]_vars
    PROVE  Inv'
<1>1. ASSUME NEW h \in Handlers, NEW t \in Tokens, AdmitForm(h, t)
      PROVE  Inv'
  BY <1>1, AdmitInv
<1>2. ASSUME NEW h \in Handlers, Refuse(h)
      PROVE  Inv'
  BY <1>2, IdleInv DEF Refuse
<1>3. ASSUME NEW h \in Handlers, Logout(h)
      PROVE  Inv'
  BY <1>3, IdleInv DEF Logout
<1>4. ASSUME NEW h \in Handlers, Handler(h)
      PROVE  Inv'
  BY <1>1, <1>2, <1>3, <1>4, WritesInv, ListScopeInv, AttachInv, DetachInv, FlushInv DEF Handler
<1>5. ASSUME NEW r \in Readers, Lookups(r),
             UNCHANGED <<sessionVars, handlerVars, requests, restarts>>
      PROVE  Inv'
  BY <1>5, LookupInv
<1>6. ASSUME SessionNext, UNCHANGED <<cacheVars, handlerVars, requests, restarts>>
      PROVE  Inv'
  BY <1>6, SessionInv
<1>7. CASE Restart
  BY <1>7, RestartInv
<1>8. CASE UNCHANGED vars
  <2> USE <1>8 DEF Inv, vars
  <2>1. Types' /\ Lookable'
    BY DEF Types, SessionTypeOK, Lookable
  <2>2. Fitting' /\ Rows' /\ Identified' /\ Settling' /\ Separate' /\ Over'
    BY DEF Fitting, Rows, Identified, Settling, Separate, Over, Editing
  <2>3. CacheHonest' /\ ScopeOnOneHost'
    BY DEF CacheHonest, ScopeOnOneHost, Editing
  <2> QED
    BY <2>1, <2>2, <2>3
<1> QED
  BY <1>4, <1>5, <1>6, <1>7, <1>8 DEF Next

LEMMA InvHolds == Spec => []Inv
  BY InitInv, NextInv, PTL DEF Spec

-----------------------------------------------------------------------------
(* What the console promises.                                              *)

\* Type correctness, and the foreign key of api_secret_subscribers: only secrets in the
\* table are associated with anybody.
THEOREM ConsoleTypes == Spec => []TypeOK
<1>1. Inv => TypeOK
  BY DEF Inv, Types, Rows, TypeOK
<1> QED
  BY <1>1, InvHolds, PTL

\* A cached pattern or property list that the table no longer has is the doing of an edit
\* that has not flushed yet, or was stored by a look-up that failed or that an edit
\* overtook (app/cache.go, views/secrets.go, views/logging.go).
THEOREM CacheIsHonest == Spec => []CacheHonest
<1>1. Inv => CacheHonest
  BY DEF Inv
<1> QED
  BY <1>1, InvHolds, PTL

\* The subscribers of a secret share a host through any number of edits, unless edits of
\* one secret overlap or a statement fails.
THEOREM OneHost == Spec => []ScopeOnOneHost
<1>1. Inv => ScopeOnOneHost
  BY DEF Inv
<1> QED
  BY <1>1, InvHolds, PTL

\* The middleware never lets a request through with a session that was over before.
THEOREM NobodyReadmitted == Spec => NoReadmission
<1> DEFINE Turned == \A h \in Handlers : step[h] = "idle" /\ step'[h] = "admitted" =>
                        job'[h].token \notin ended
<1>1. Inv /\ [Next]_vars => [Turned]_vars
  <2> SUFFICES ASSUME Inv, Next, NEW h \in Handlers, step[h] = "idle", step'[h] = "admitted"
               PROVE  job'[h].token \notin ended
    BY DEF Turned
  <2>1. step \in [Handlers -> {"idle", "admitted", "listing", "syncing"}]
        /\ job \in [Handlers -> Jobs]
    BY DEF Inv, Types
  <2>2. ASSUME NEW g \in Handlers, NEW t \in Tokens, AdmitForm(g, t)
        PROVE  job'[h].token \notin ended
    <3>0. /\ \A kind, k, v, S : [Form(kind, k, v, S) EXCEPT !.token = t].token = t
          /\ [NoJob EXCEPT !.token = t].token = t
      BY DEF Form, NoJob
    <3>1. PICK j : Admit(g, t, j) /\ [j EXCEPT !.token = t].token = t
      BY <2>2, <3>0 DEF AdmitForm
    <3>2. g = h
      BY <2>1, <3>1 DEF Admit
    <3>3. job'[h].token = t
      BY <2>1, <3>1, <3>2 DEF Admit
    <3>4. t \notin ended
      BY <3>1 DEF Admit, Admits, Inv, Over
    <3> QED
      BY <3>3, <3>4
  <2>3. ASSUME NEW g \in Handlers, Write(g, "listing", {}) \/ \E S : Write(g, "syncing", S)
        PROVE  FALSE
    BY <2>1, <2>3 DEF Write
  <2>4. ASSUME NEW g \in Handlers, Idle(g)
        PROVE  FALSE
    BY <2>1, <2>4 DEF Idle
  <2>5. ASSUME NEW g \in Handlers, Handler(g), ~\E t \in Tokens : AdmitForm(g, t)
        PROVE  FALSE
    <3>1. CASE ListScope(g) \/ \E s \in Subs : Attach(g, s) \/ Detach(g, s)
      BY <2>1, <3>1 DEF ListScope, Attach, Detach
    <3>2. CASE Refuse(g) \/ Flush(g) \/ Logout(g)
      BY <2>4, <3>2 DEF Refuse, Flush, Logout
    <3>3. CASE \/ InsertApiSecret(g) \/ UpdateApiSecret(g) \/ DeleteApiSecret(g)
               \/ UpsertLogConfig(g) \/ DeleteLogConfigForSubject(g)
      BY <2>3, <3>3 DEF InsertApiSecret, UpdateApiSecret, DeleteApiSecret, UpsertLogConfig,
                        DeleteLogConfigForSubject
    <3> QED
      BY <2>5, <3>1, <3>2, <3>3 DEF Handler
  <2>6. ~Restart
    BY DEF Restart
  <2>7. ~UNCHANGED step
    OBVIOUS
  <2> QED
    BY <2>2, <2>5, <2>6, <2>7 DEF Next
<1> QED
  BY <1>1, InvHolds, PTL DEF Spec, NoReadmission

-----------------------------------------------------------------------------
(* What matchLike computes, by induction from the end of the pattern.      *)

\* Downwards from L: what holds of L, and of k whenever of k + 1, holds of 1 to L.
LEMMA Downwards ==
    ASSUME NEW L \in Nat, NEW G, L \in G,
           \A k \in 1..L : k + 1 \in G => k \in G
    PROVE  1..L \subseteq G
<1> SUFFICES ASSUME (1..L) \ G # {}
             PROVE  FALSE
  OBVIOUS
<1> DEFINE T == {k..L : k \in (1..L) \ G}
<1>1. IsFiniteSet(1..L)
  BY FS_Interval
<1>2. IsWellFoundedOn(StrictSubsetOrdering(1..L), SUBSET (1..L))
  BY <1>1, FS_StrictSubsetOrderingWellFounded, FS_FiniteSubsetsOfFinite
<1>3. T \subseteq SUBSET (1..L) /\ T # {}
  OBVIOUS
<1>4. PICK x \in T : \A y \in T : <<y, x>> \notin StrictSubsetOrdering(1..L)
  BY <1>2, <1>3, WFMin
<1>5. PICK k \in (1..L) \ G : x = k..L
  BY <1>4
<1>6. k # L /\ k + 1 \in (1..L) \ G
  BY <1>5
<1>7. (k + 1)..L \in T
  BY <1>6
<1>8. (k + 1)..L \subseteq x /\ (k + 1)..L # x /\ x \subseteq 1..L
  BY <1>5, <1>6
<1>9. <<(k + 1)..L, x>> \in StrictSubsetOrdering(1..L)
  BY <1>8 DEF StrictSubsetOrdering
<1> QED
  BY <1>4, <1>7, <1>9

\* k is where a run of * that begins at i ends.
RunEnds(p, i, k) ==
    /\ k \in i..Len(p) + 1
    /\ \A n \in i..k - 1 : p[n] = "*"
    /\ k <= Len(p) => p[k] # "*"

LEMMA OneRun ==
    ASSUME NEW S, NEW p \in Seq(S), NEW i \in 1..Len(p) + 1
    PROVE  RunEnds(p, i, SkipStars(p, i)) /\ \A k : RunEnds(p, i, k) => k = SkipStars(p, i)
<1> DEFINE L == Len(p) + 1
           G == {x \in 1..L : \E k : RunEnds(p, x, k)}
<1>1. L \in Nat /\ Len(p) \in Nat
  OBVIOUS
<1>2. L \in G
  BY <1>1 DEF RunEnds
<1>3. ASSUME NEW x \in 1..L, x + 1 \in G
      PROVE  x \in G
  <2>1. PICK k : RunEnds(p, x + 1, k)
    BY <1>3
  <2>2. CASE p[x] = "*"
    <3>1. RunEnds(p, x, k)
      BY <1>1, <1>3, <2>1, <2>2 DEF RunEnds
    <3> QED
      BY <3>1
  <2>3. CASE p[x] # "*"
    <3>1. RunEnds(p, x, x)
      BY <1>1, <1>3, <2>3 DEF RunEnds
    <3> QED
      BY <3>1
  <2> QED
    BY <2>2, <2>3
<1> HIDE DEF G
<1>4. 1..L \subseteq G
  BY <1>1, <1>2, <1>3, Downwards
<1>5. \E k : RunEnds(p, i, k)
  BY <1>4 DEF G
<1>6. SkipStars(p, i) = CHOOSE k \in i..Len(p) + 1 :
            (\A n \in i..k - 1 : p[n] = "*") /\ (k <= Len(p) => p[k] # "*")
  BY DEF SkipStars
<1>7. RunEnds(p, i, SkipStars(p, i))
  BY <1>5, <1>6 DEF RunEnds
<1>8. ASSUME NEW k, NEW m, RunEnds(p, i, k), RunEnds(p, i, m), k < m
      PROVE  FALSE
  <2>1. k \in i..m - 1 /\ k <= Len(p) /\ k \in Int /\ m \in Int
    BY <1>1, <1>8 DEF RunEnds
  <2> QED
    BY <1>8, <2>1 DEF RunEnds
<1>9. ASSUME NEW k, RunEnds(p, i, k)
      PROVE  k = SkipStars(p, i)
  <2>1. k \in Int /\ SkipStars(p, i) \in Int
    BY <1>1, <1>7, <1>9 DEF RunEnds
  <2>2. ~(k < SkipStars(p, i)) /\ ~(SkipStars(p, i) < k)
    BY <1>7, <1>8, <1>9
  <2> QED
    BY <2>1, <2>2
<1> QED
  BY <1>7, <1>9

\* Where the run is skipped to.
LEMMA Skipped ==
    ASSUME NEW S, NEW p \in Seq(S), NEW i \in 1..Len(p), p[i] = "*"
    PROVE  /\ SkipStars(p, i) \in i + 1..Len(p) + 1
           /\ SkipStars(p, i) = SkipStars(p, i + 1)
           /\ i + 1 <= Len(p) /\ p[i + 1] # "*" => SkipStars(p, i) = i + 1
           /\ i = Len(p) => SkipStars(p, i) = Len(p) + 1
<1> DEFINE k == SkipStars(p, i)
<1>1. Len(p) \in Nat /\ i \in 1..Len(p) + 1 /\ i + 1 \in 1..Len(p) + 1
  OBVIOUS
<1>2. RunEnds(p, i, k)
  BY <1>1, OneRun
<1> HIDE DEF k
<1>3. k \in i + 1..Len(p) + 1
  BY <1>1, <1>2 DEF RunEnds
<1>4. RunEnds(p, i + 1, k)
  BY <1>1, <1>2, <1>3 DEF RunEnds
<1>5. k = SkipStars(p, i + 1)
  BY <1>1, <1>4, OneRun
<1>6. i + 1 <= Len(p) /\ p[i + 1] # "*" => RunEnds(p, i + 1, i + 1)
  BY <1>1 DEF RunEnds
<1>7. i + 1 <= Len(p) /\ p[i + 1] # "*" => k = i + 1
  BY <1>1, <1>5, <1>6, OneRun
<1> QED
  BY <1>1, <1>3, <1>5, <1>7 DEF k

\* A row depends on later rows only.
LEMMA LaterRows ==
    ASSUME NEW S, NEW p \in Seq(S), NEW v, NEW i \in 1..Len(p) + 1, NEW f, NEW g,
           \A x \in i + 1..Len(p) + 1 : f[x] = g[x]
    PROVE  MatchesFrom(p, v, i, f) = MatchesFrom(p, v, i, g)
<1>1. Len(p) \in Nat
  OBVIOUS
<1>2. CASE i > Len(p)
  BY <1>1, <1>2 DEF MatchesFrom
<1>3. CASE i <= Len(p) /\ p[i] = "*"
  <2>1. i \in 1..Len(p) /\ f[SkipStars(p, i)] = g[SkipStars(p, i)]
    BY <1>1, <1>3, Skipped
  <2> QED
    BY <1>1, <1>3, <2>1 DEF MatchesFrom
<1>4. CASE i <= Len(p) /\ p[i] # "*"
  <2>1. f[i + 1] = g[i + 1]
    BY <1>1, <1>4
  <2> QED
    BY <1>1, <1>4, <2>1 DEF MatchesFrom
<1> QED
  BY <1>1, <1>2, <1>3, <1>4

\* What matchLike computes, row by row.
IsRows(p, v, rest) == rest = [i \in 1..Len(p) + 1 |-> MatchesFrom(p, v, i, rest)]

\* The rows exist: they are computed from the last to the first.
LEMMA RowsExist ==
    ASSUME NEW S, NEW p \in Seq(S), NEW v
    PROVE  \E f : IsRows(p, v, f)
<1> DEFINE L == Len(p) + 1
           Fixed(k, f) == f = [i \in k..L |-> MatchesFrom(p, v, i, f)]
           G == {k \in 1..L : \E f : Fixed(k, f)}
<1>1. L \in Nat /\ Len(p) \in Nat /\ L \in 1..L
  OBVIOUS
<1>2. ASSUME NEW k \in 1..L, NEW g, \A i \in k + 1..L : g[i] = MatchesFrom(p, v, i, g)
      PROVE  \E f : Fixed(k, f)
  <2> DEFINE f == [i \in k..L |-> IF i = k THEN MatchesFrom(p, v, k, g) ELSE g[i]]
  <2>1. \A i \in k + 1..L : f[i] = g[i]
    BY <1>1
  <2>2. f[k] = MatchesFrom(p, v, k, g)
    BY <1>1
  <2>3. DOMAIN f = k..L
    OBVIOUS
  <2>4. f = [i \in k..L |-> f[i]]
    OBVIOUS
  <2> HIDE DEF f
  <2>5. MatchesFrom(p, v, k, f) = MatchesFrom(p, v, k, g)
    BY <2>1, LaterRows
  <2>6. ASSUME NEW i \in k + 1..L
        PROVE  MatchesFrom(p, v, i, f) = MatchesFrom(p, v, i, g)
    <3>1. i \in 1..L /\ \A x \in i + 1..L : f[x] = g[x]
      BY <1>1, <2>1
    <3> QED
      BY <3>1, LaterRows
  <2>7. \A i \in k..L : f[i] = MatchesFrom(p, v, i, f)
    BY <1>1, <1>2, <2>1, <2>2, <2>5, <2>6
  <2> QED
    BY <2>4, <2>7
<1>3. L \in G
  <2>1. \A i \in L + 1..L : FALSE
    BY <1>1
  <2>2. \E f : Fixed(L, f)
    BY <1>1, <1>2, <2>1
  <2> QED
    BY <1>1, <2>2
<1>4. ASSUME NEW k \in 1..L, k + 1 \in G
      PROVE  k \in G
  <2>1. PICK g : Fixed(k + 1, g)
    BY <1>4
  <2>2. \A i \in k + 1..L : g[i] = MatchesFrom(p, v, i, g)
    BY <2>1
  <2> QED
    BY <1>2, <2>2
<1> HIDE DEF Fixed
<1>5. 1..L \subseteq G
  <2> HIDE DEF G
  <2> QED
    BY <1>1, <1>3, <1>4, Downwards
<1>6. 1 \in 1..L /\ 1 \in G
  BY <1>1, <1>5
<1>7. PICK f : Fixed(1, f)
  BY <1>6
<1>8. f = [i \in 1..L |-> MatchesFrom(p, v, i, f)]
  BY <1>7 DEF Fixed
<1> QED
  BY <1>8 DEF IsRows

\* What one character of the pattern makes of the piece of v from position a to b.
Piece(p, v, i, a, b) ==
    \/ p[i] = "*" /\ b >= a
    \/ b = a + 1 /\ p[i] \in {"_", v[b]}

\* A cut of v from position j on into pieces for the pattern from i on.
Cuts(p, v, i, j, cut) ==
    /\ cut \in [i - 1..Len(p) -> 0..Len(v)]
    /\ cut[i - 1] = j - 1 /\ cut[Len(p)] = Len(v)
    /\ \A k \in i..Len(p) : Piece(p, v, k, cut[k - 1], cut[k])

InRest(p, v, i, j) == \E cut : Cuts(p, v, i, j, cut)

\* A cut for the pattern from i on is a first piece and a cut for the rest.
LEMMA FirstPiece ==
    ASSUME NEW S, NEW p \in Seq(S), NEW v \in Seq(S), NEW i \in 1..Len(p), NEW j \in 1..Len(v) + 1
    PROVE  InRest(p, v, i, j) <=>
              \E n \in 1..Len(v) + 1 : Piece(p, v, i, j - 1, n - 1) /\ InRest(p, v, i + 1, n)
<1>1. Len(p) \in Nat /\ Len(v) \in Nat
  OBVIOUS
<1>2. ASSUME NEW cut, Cuts(p, v, i, j, cut)
      PROVE  \E n \in 1..Len(v) + 1 : Piece(p, v, i, j - 1, n - 1) /\ InRest(p, v, i + 1, n)
  <2> DEFINE n == cut[i] + 1
             rest == [k \in i..Len(p) |-> cut[k]]
  <2>1. /\ n \in 1..Len(v) + 1 /\ n - 1 = cut[i]
        /\ \A k \in i..Len(p) : cut[k] \in 0..Len(v)
    <3>1. cut \in [i - 1..Len(p) -> 0..Len(v)]
      BY <1>2 DEF Cuts
    <3>2. i \in i - 1..Len(p) /\ \A k \in i..Len(p) : k \in i - 1..Len(p)
      BY <1>1
    <3>3. \A k \in i..Len(p) : cut[k] \in 0..Len(v)
      BY <3>1, <3>2
    <3> QED
      BY <1>1, <3>2, <3>3
  <2>2. Piece(p, v, i, j - 1, n - 1)
    BY <1>1, <1>2, <2>1 DEF Cuts
  <2>3. \A k \in i + 1..Len(p) : Piece(p, v, k, rest[k - 1], rest[k])
    <3> SUFFICES ASSUME NEW k \in i + 1..Len(p)
                 PROVE  Piece(p, v, k, rest[k - 1], rest[k])
      OBVIOUS
    <3>1. k \in i..Len(p) /\ k - 1 \in i..Len(p)
      BY <1>1
    <3>2. rest[k] = cut[k] /\ rest[k - 1] = cut[k - 1]
      BY <3>1
    <3>3. Piece(p, v, k, cut[k - 1], cut[k])
      BY <1>2, <3>1 DEF Cuts
    <3> HIDE DEF rest
    <3> QED
      BY <3>2, <3>3
  <2>4. /\ rest \in [(i + 1) - 1..Len(p) -> 0..Len(v)]
        /\ rest[(i + 1) - 1] = n - 1 /\ rest[Len(p)] = Len(v)
    BY <1>1, <1>2, <2>1 DEF Cuts
  <2> HIDE DEF n, rest
  <2>5. Cuts(p, v, i + 1, n, rest)
    BY <2>3, <2>4 DEF Cuts
  <2> QED
    BY <2>1, <2>2, <2>5 DEF InRest
<1>3. ASSUME NEW n \in 1..Len(v) + 1, Piece(p, v, i, j - 1, n - 1), NEW rest, Cuts(p, v, i + 1, n, rest)
      PROVE  InRest(p, v, i, j)
  <2> DEFINE cut == [k \in i - 1..Len(p) |-> IF k = i - 1 THEN j - 1 ELSE rest[k]]
  <2>1. /\ cut \in [i - 1..Len(p) -> 0..Len(v)]
        /\ cut[i - 1] = j - 1 /\ cut[Len(p)] = Len(v) /\ cut[i] = n - 1
    BY <1>1, <1>3 DEF Cuts
  <2>2. \A k \in i..Len(p) : cut[k] = rest[k]
    BY <1>1
  <2> HIDE DEF cut
  <2>3. ASSUME NEW k \in i..Len(p)
        PROVE  Piece(p, v, k, cut[k - 1], cut[k])
    <3>1. CASE k = i
      BY <1>1, <1>3, <2>1, <3>1
    <3>2. CASE k # i
      <4>1. k \in i + 1..Len(p) /\ k - 1 \in i..Len(p)
        BY <1>1, <3>2
      <4>2. Piece(p, v, k, rest[k - 1], rest[k])
        BY <1>3, <4>1 DEF Cuts
      <4> QED
        BY <2>2, <4>1, <4>2
    <3> QED
      BY <3>1, <3>2
  <2>4. Cuts(p, v, i, j, cut)
    BY <2>1, <2>3 DEF Cuts
  <2> QED
    BY <2>4 DEF InRest
<1> QED
  BY <1>2, <1>3 DEF InRest

\* At the end of the pattern only the empty rest is left.
LEMMA NoPiece ==
    ASSUME NEW S, NEW p \in Seq(S), NEW v \in Seq(S), NEW j \in 1..Len(v) + 1
    PROVE  InRest(p, v, Len(p) + 1, j) <=> j = Len(v) + 1
<1>1. Len(p) \in Nat /\ Len(v) \in Nat
  OBVIOUS
<1>2. InRest(p, v, Len(p) + 1, j) => j = Len(v) + 1
  BY <1>1 DEF InRest, Cuts
<1>3. ASSUME j = Len(v) + 1
      PROVE  InRest(p, v, Len(p) + 1, j)
  <2> DEFINE cut == [k \in (Len(p) + 1) - 1..Len(p) |-> Len(v)]
  <2>1. Cuts(p, v, Len(p) + 1, j, cut)
    BY <1>1, <1>3 DEF Cuts
  <2> QED
    BY <2>1 DEF InRest
<1> QED
  BY <1>2, <1>3

\* The whole of v is cut as InLanguage says.
LEMMA WholeCut ==
    ASSUME NEW S, NEW p \in Seq(S), NEW v \in Seq(S)
    PROVE  InLanguage(v, p) <=> InRest(p, v, 1, 1)
<1>1. 1 - 1 = 0
  OBVIOUS
<1>2. \A cut : Cuts(p, v, 1, 1, cut) <=>
                /\ cut \in [0..Len(p) -> 0..Len(v)]
                /\ cut[0] = 0 /\ cut[Len(p)] = Len(v)
                /\ \A k \in 1..Len(p) : Piece(p, v, k, cut[k - 1], cut[k])
  BY <1>1 DEF Cuts
<1> QED
  BY <1>2 DEF InLanguage, InRest, Piece

\* MatchLike reads the first of them.
LEMMA MatchLikeIs ==
    ASSUME NEW S, NEW p \in Seq(S), NEW v
    PROVE  \E rest : IsRows(p, v, rest) /\ (MatchLike(p, v) <=> 1 \in rest[1])
<1> DEFINE rest == CHOOSE f : f = [i \in 1..Len(p) + 1 |-> MatchesFrom(p, v, i, f)]
<1>1. MatchLike(p, v) <=> 1 \in rest[1]
  BY DEF MatchLike
<1>2. \E f : IsRows(p, v, f)
  BY RowsExist
<1>3. IsRows(p, v, rest)
  BY <1>2 DEF IsRows
<1> QED
  BY <1>1, <1>3

\* The rows one by one.
LEMMA RowIs ==
    ASSUME NEW S, NEW p \in Seq(S), NEW v \in Seq(S), NEW rest, IsRows(p, v, rest)
    PROVE  /\ rest[Len(p) + 1] = {Len(v) + 1}
           /\ \A i \in 1..Len(p), j \in 1..Len(v) + 1 :
                 /\ p[i] = "*" =>
                       (j \in rest[i] <=> \/ SkipStars(p, i) > Len(p)
                                         \/ \E n \in j..Len(v) + 1 : n \in rest[SkipStars(p, i)])
                 /\ p[i] # "*" =>
                       (j \in rest[i] <=> /\ j \in 1..Len(v) /\ CharMatches(p[i], v[j])
                                         /\ j + 1 \in rest[i + 1])
<1>1. Len(p) \in Nat /\ Len(v) \in Nat
  OBVIOUS
<1>2. \A x \in 1..Len(p) + 1 : rest[x] = MatchesFrom(p, v, x, rest)
  BY DEF IsRows
<1>3. rest[Len(p) + 1] = {Len(v) + 1}
  <2>1. Len(p) + 1 \in 1..Len(p) + 1 /\ Len(p) + 1 > Len(p)
    BY <1>1
  <2>2. MatchesFrom(p, v, Len(p) + 1, rest) = {Len(v) + 1}
    BY <2>1 DEF MatchesFrom
  <2> QED
    BY <1>2, <2>1, <2>2
<1>4. ASSUME NEW i \in 1..Len(p)
      PROVE  rest[i] = MatchesFrom(p, v, i, rest) /\ ~(i > Len(p))
  BY <1>1, <1>2
<1>5. ASSUME NEW i \in 1..Len(p), NEW j \in 1..Len(v) + 1, p[i] = "*"
      PROVE  j \in rest[i] <=> \/ SkipStars(p, i) > Len(p)
                               \/ \E n \in j..Len(v) + 1 : n \in rest[SkipStars(p, i)]
  BY <1>4, <1>5 DEF MatchesFrom
<1>6. ASSUME NEW i \in 1..Len(p), NEW j \in 1..Len(v) + 1, p[i] # "*"
      PROVE  j \in rest[i] <=> /\ j \in 1..Len(v) /\ CharMatches(p[i], v[j])
                               /\ j + 1 \in rest[i + 1]
  BY <1>4, <1>6 DEF MatchesFrom
<1> QED
  BY <1>3, <1>5, <1>6

\* A * matches the empty string, or one more character and the rest again.
LEMMA StarRow ==
    ASSUME NEW S, NEW p \in Seq(S), NEW v \in Seq(S), NEW rest, IsRows(p, v, rest),
           NEW i \in 1..Len(p), p[i] = "*", NEW j \in 1..Len(v) + 1
    PROVE  j \in rest[i] <=> \E n \in j..Len(v) + 1 : n \in rest[i + 1]
<1> DEFINE k == SkipStars(p, i)
<1>1. Len(p) \in Nat /\ Len(v) \in Nat
  OBVIOUS
<1>2. /\ k \in i + 1..Len(p) + 1 /\ k = SkipStars(p, i + 1)
      /\ i + 1 <= Len(p) /\ p[i + 1] # "*" => k = i + 1
      /\ i = Len(p) => k = Len(p) + 1
  BY Skipped
<1>3. rest[Len(p) + 1] = {Len(v) + 1}
  BY RowIs
<1>4. \A y \in 1..Len(v) + 1 : y \in rest[i] <=>
          (k > Len(p) \/ \E n \in y..Len(v) + 1 : n \in rest[k])
  BY RowIs
<1>5. CASE i = Len(p)
  <2>1. Len(v) + 1 \in rest[i + 1] /\ Len(v) + 1 \in j..Len(v) + 1
    BY <1>1, <1>3, <1>5
  <2>2. k > Len(p)
    BY <1>1, <1>2, <1>5
  <2> QED
    BY <1>4, <2>1, <2>2
<1>6. CASE i # Len(p) /\ p[i + 1] # "*"
  <2>1. k = i + 1 /\ k <= Len(p)
    BY <1>1, <1>2, <1>6
  <2> QED
    BY <1>1, <1>4, <2>1
<1>7. CASE i # Len(p) /\ p[i + 1] = "*"
  <2>1. i + 1 \in 1..Len(p)
    BY <1>1, <1>7
  <2>2. \A y \in 1..Len(v) + 1 : y \in rest[i + 1] <=>
            \/ SkipStars(p, i + 1) > Len(p)
            \/ \E n \in y..Len(v) + 1 : n \in rest[SkipStars(p, i + 1)]
    BY <1>7, <2>1, RowIs
  <2>3. \A y \in 1..Len(v) + 1 : y \in rest[i + 1] <=>
            (k > Len(p) \/ \E n \in y..Len(v) + 1 : n \in rest[k])
    BY <1>2, <2>2
  <2> HIDE DEF k
  <2>4. j \in rest[i] => j \in rest[i + 1] /\ j \in j..Len(v) + 1
    <3>1. j \in j..Len(v) + 1
      BY <1>1
    <3>2. j \in rest[i] <=> j \in rest[i + 1]
      BY <1>4, <2>3
    <3> QED
      BY <3>1, <3>2
  <2>5. ASSUME NEW n \in j..Len(v) + 1, n \in rest[i + 1]
        PROVE  j \in rest[i]
    <3>1. n \in 1..Len(v) + 1
      BY <1>1
    <3>2. k > Len(p) \/ \E m \in n..Len(v) + 1 : m \in rest[k]
      BY <2>3, <2>5, <3>1
    <3>3. \A m \in n..Len(v) + 1 : m \in j..Len(v) + 1
      BY <1>1
    <3> QED
      BY <1>4, <3>2, <3>3
  <2> QED
    BY <2>4, <2>5
<1> QED
  BY <1>5, <1>6, <1>7

\* Row by row, what matchLike computes is what is meant.
LEMMA RowsAreRight ==
    ASSUME NEW S, NEW p \in Seq(S), NEW v \in Seq(S), NEW rest, IsRows(p, v, rest)
    PROVE  \A i \in 1..Len(p) + 1, j \in 1..Len(v) + 1 : j \in rest[i] <=> InRest(p, v, i, j)
<1> DEFINE L == Len(p) + 1
           Right(i) == \A j \in 1..Len(v) + 1 : j \in rest[i] <=> InRest(p, v, i, j)
           G == {i \in 1..L : Right(i)}
<1>1. Len(p) \in Nat /\ Len(v) \in Nat /\ L \in Nat /\ L \in 1..L
  OBVIOUS
<1>2. L \in G
  <2>1. rest[L] = {Len(v) + 1}
    BY RowIs
  <2> QED
    BY <1>1, <2>1, NoPiece
<1>3. ASSUME NEW i \in 1..L, i + 1 \in G
      PROVE  i \in G
  <2>1. i \in 1..Len(p) /\ Right(i + 1)
    BY <1>1, <1>3
  <2> SUFFICES ASSUME NEW j \in 1..Len(v) + 1
               PROVE  j \in rest[i] <=> InRest(p, v, i, j)
    OBVIOUS
  <2>2. InRest(p, v, i, j) <=>
            \E n \in 1..Len(v) + 1 : Piece(p, v, i, j - 1, n - 1) /\ InRest(p, v, i + 1, n)
    BY <2>1, FirstPiece
  <2>3. InRest(p, v, i, j) <=>
            \E n \in 1..Len(v) + 1 : Piece(p, v, i, j - 1, n - 1) /\ n \in rest[i + 1]
    BY <2>1, <2>2
  <2>4. CASE p[i] = "*"
    <3>1. \A n \in 1..Len(v) + 1 : Piece(p, v, i, j - 1, n - 1) <=> n \in j..Len(v) + 1
      BY <1>1, <2>4 DEF Piece
    <3>2. j \in rest[i] <=> \E n \in j..Len(v) + 1 : n \in rest[i + 1]
      BY <2>1, <2>4, StarRow
    <3>3. \A n \in j..Len(v) + 1 : n \in 1..Len(v) + 1
      BY <1>1
    <3> QED
      BY <2>3, <3>1, <3>2, <3>3
  <2>5. CASE p[i] # "*"
    <3>1. j \in rest[i] <=> (j \in 1..Len(v) /\ CharMatches(p[i], v[j]) /\ j + 1 \in rest[i + 1])
      BY <2>1, <2>5, RowIs
    <3>2. \A n \in 1..Len(v) + 1 : Piece(p, v, i, j - 1, n - 1) <=>
              n = j + 1 /\ p[i] \in {"_", v[j]}
      <4> SUFFICES ASSUME NEW n \in 1..Len(v) + 1
                   PROVE  Piece(p, v, i, j - 1, n - 1) <=> n = j + 1 /\ p[i] \in {"_", v[j]}
        OBVIOUS
      <4>1. Piece(p, v, i, j - 1, n - 1) <=> n - 1 = (j - 1) + 1 /\ p[i] \in {"_", v[n - 1]}
        BY <2>5 DEF Piece
      <4>2. n - 1 = (j - 1) + 1 <=> n = j + 1
        BY <1>1
      <4>3. n = j + 1 => n - 1 = j
        BY <1>1
      <4> QED
        BY <4>1, <4>2, <4>3
    <3>3. j + 1 \in 1..Len(v) + 1 <=> j \in 1..Len(v)
      BY <1>1
    <3> QED
      BY <2>3, <3>1, <3>2, <3>3 DEF CharMatches
  <2> QED
    BY <2>4, <2>5
<1> HIDE DEF G
<1>4. 1..L \subseteq G
  BY <1>1, <1>2, <1>3, Downwards
<1> QED
  BY <1>4 DEF G

\* MatchLikePattern (app/secrets.go) accepts exactly the values that can be cut into one
\* piece for each character of the pattern, for all patterns and values.
THEOREM PatternsMatch ==
    ASSUME NEW S, NEW p \in Seq(S), NEW v \in Seq(S)
    PROVE  MatchLike(p, v) <=> InLanguage(v, p)
<1>1. PICK rest : IsRows(p, v, rest) /\ (MatchLike(p, v) <=> 1 \in rest[1])
  BY MatchLikeIs
<1>2. 1 \in 1..Len(p) + 1 /\ 1 \in 1..Len(v) + 1
  OBVIOUS
<1>3. 1 \in rest[1] <=> InRest(p, v, 1, 1)
  BY <1>1, <1>2, RowsAreRight
<1> QED
  BY <1>1, <1>3, WholeCut

-----------------------------------------------------------------------------
(* The scope decides.                                                      *)

\* A request with a pattern is forbidden if its subject is out of scope.
AskScoped(a) ==
    /\ a.at = "forbidden" => a.pattern # Nothing /\ ~CheckSendScope(a.pattern, a.subject)
    /\ a.pattern # Nothing /\ a.at # "forbidden" => CheckSendScope(a.pattern, a.subject)

Scoped == \A r \in Readers : AskScoped(ask[r])

LEMMA NoAskScoped == NoAsk.pattern = Nothing /\ AskScoped(NoAsk)
  BY DEF NoAsk, AskScoped

LEMMA ProceedScoped ==
    ASSUME NEW r \in Readers, ask[r] \in Asks, AskScoped(ask[r]), ask[r].at # "forbidden", NEW v,
           Proceed(r, v)
    PROVE  \E b : AskScoped(b) /\ ask' = [ask EXCEPT ![r] = b]
<1> DEFINE a == ask[r]
<1>1. a \in Asks /\ AskScoped(a) /\ a.at # "forbidden" /\ a.turn \in 1..3
  BY DEF Asks
<1> HIDE DEF a
<1>2. ASSUME v # Nothing
      PROVE  AskScoped(IF CheckSendScope(v, a.subject)
                       THEN [a EXCEPT !.at = "look", !.turn = 2, !.pattern = v, !.got = Nothing]
                       ELSE [a EXCEPT !.at = "forbidden", !.pattern = v, !.got = Nothing])
  BY <1>1, <1>2 DEF Asks, AskScoped
<1>3. AskScoped([a EXCEPT !.at = "look", !.turn = 3, !.got = Nothing])
  BY <1>1 DEF Asks, AskScoped
<1>4. CASE a.turn = 1 /\ v = Nothing
  BY <1>4, NoAskScoped DEF Proceed, a
<1>5. CASE a.turn = 1 /\ v # Nothing
  BY <1>2, <1>5, NoAskScoped DEF Proceed, a
<1>6. CASE a.turn = 2
  BY <1>3, <1>6, NoAskScoped DEF Proceed, a
<1>7. CASE a.turn = 3
  BY <1>7, NoAskScoped DEF Proceed, a
<1> QED
  BY <1>1, <1>4, <1>5, <1>6, <1>7

LEMMA LookupScoped ==
    ASSUME Types, Scoped, NEW r \in Readers, Lookups(r)
    PROVE  Scoped'
<1> DEFINE a == ask[r]
<1>1. a \in Asks /\ AskScoped(a) /\ ask \in [Readers -> Asks]
  BY DEF Types, Scoped
<1> HIDE DEF a
<1>2. ASSUME NEW b, AskScoped(b), ask' = [ask EXCEPT ![r] = b]
      PROVE  Scoped'
  BY <1>1, <1>2 DEF Scoped
<1>3. ASSUME NEW k \in Secrets, NEW g \in Subjects, AskSecret(r, k, g)
      PROVE  Scoped'
  <2>1. AskScoped([NoAsk EXCEPT !.at = "look", !.secret = k, !.subject = g])
    BY DEF NoAsk, AskScoped
  <2> QED
    BY <1>2, <1>3, <2>1 DEF AskSecret
<1>4. ASSUME NEW g \in Subjects, AskProperties(r, g)
      PROVE  Scoped'
  <2>1. AskScoped([NoAsk EXCEPT !.at = "look", !.turn = 3, !.subject = g])
    BY DEF NoAsk, AskScoped
  <2> QED
    BY <1>2, <1>4, <2>1 DEF AskProperties
<1>5. CASE Get(r)
  <2>1. a.at = "look"
    BY <1>5 DEF Get, a
  <2>2. CASE Proceed(r, entry[KeyOf(a)])
    BY <1>1, <1>2, <2>1, <2>2, ProceedScoped DEF a
  <2>3. CASE ask' = [ask EXCEPT ![r].at = "query"]
    <3>1. AskScoped([a EXCEPT !.at = "query"])
      BY <1>1, <2>1 DEF Asks, AskScoped
    <3>2. ask' = [ask EXCEPT ![r] = [a EXCEPT !.at = "query"]]
      BY <2>3 DEF a
    <3> QED
      BY <1>2, <3>1, <3>2
  <2> QED
    BY <1>5, <2>2, <2>3 DEF Get, a
<1>6. CASE Query(r)
  <2>1. a.at = "query"
    BY <1>6 DEF Query, a
  <2>2. PICK v : ask' = [ask EXCEPT ![r].at = "store", ![r].got = v]
    BY <1>6 DEF Query
  <2>3. AskScoped([a EXCEPT !.at = "store", !.got = v])
    BY <1>1, <2>1 DEF Asks, AskScoped
  <2>4. ask' = [ask EXCEPT ![r] = [a EXCEPT !.at = "store", !.got = v]]
    BY <1>1, <2>2 DEF a
  <2> QED
    BY <1>2, <2>3, <2>4
<1>7. CASE Set(r)
  <2>1. a.at = "store" /\ Proceed(r, a.got)
    BY <1>7 DEF Set, a
  <2> QED
    BY <1>1, <1>2, <2>1, ProceedScoped DEF a
<1>8. CASE Forbid(r)
  BY <1>2, <1>8, NoAskScoped DEF Forbid
<1> QED
  BY <1>3, <1>4, <1>5, <1>6, <1>7, <1>8 DEF Lookups

\* A request gets past CheckSendScope exactly when its subject is in the language of
\* the pattern that its secret has, for all patterns and subjects.
THEOREM ScopesDecide == Spec => []ScopeDecides
<1>1. Init => Scoped
  BY NoAskScoped DEF Init, EmptyCaches, Scoped
<1>2. Inv /\ Scoped /\ [Next]_vars => Scoped'
  <2> SUFFICES ASSUME Inv, Scoped, [Next]_vars
               PROVE  Scoped'
    OBVIOUS
  <2>1. CASE UNCHANGED ask
    BY <2>1 DEF Scoped
  <2>2. ASSUME NEW r \in Readers, Lookups(r)
        PROVE  Scoped'
    BY <2>2, LookupScoped DEF Inv
  <2>3. CASE Restart
    BY <2>3, NoAskScoped DEF Restart, EmptyCaches, Scoped
  <2>4. ASSUME NEW h \in Handlers, Handler(h)
        PROVE  UNCHANGED ask
    <3>1. CASE \E t \in Tokens : AdmitForm(h, t)
      BY <3>1 DEF AdmitForm, Admit
    <3>2. CASE Refuse(h)
      BY <3>2 DEF Refuse
    <3>3. CASE InsertApiSecret(h)
      BY <3>3 DEF InsertApiSecret, Write
    <3>4. CASE UpdateApiSecret(h)
      BY <3>4 DEF UpdateApiSecret, Write
    <3>5. CASE DeleteApiSecret(h)
      BY <3>5 DEF DeleteApiSecret, Write
    <3>6. CASE UpsertLogConfig(h)
      BY <3>6 DEF UpsertLogConfig, Write
    <3>7. CASE DeleteLogConfigForSubject(h)
      BY <3>7 DEF DeleteLogConfigForSubject, Write
    <3>8. CASE ListScope(h)
      BY <3>8 DEF ListScope
    <3>9. CASE \E s \in Subs : Attach(h, s) \/ Detach(h, s)
      BY <3>9 DEF Attach, Detach
    <3>10. CASE Flush(h)
      BY <3>10 DEF Flush
    <3>11. CASE Logout(h)
      BY <3>11 DEF Logout
    <3> QED
      BY <2>4, <3>1, <3>2, <3>3, <3>4, <3>5, <3>6, <3>7, <3>8, <3>9, <3>10, <3>11 DEF Handler
  <2> QED
    BY <2>1, <2>2, <2>3, <2>4 DEF Next, vars
<1>3. Inv /\ Scoped => ScopeDecides
  <2> SUFFICES ASSUME Inv, Scoped, NEW r \in Readers, ask[r].pattern # Nothing
               PROVE  CheckSendScope(ask[r].pattern, ask[r].subject)
                          <=> InLanguage(ask[r].subject, ask[r].pattern)
    BY DEF Scoped, AskScoped, ScopeDecides
  <2>1. ask[r].pattern \in SubjectPatterns /\ ask[r].subject \in Subjects
    BY DEF Inv, Types, Asks
  <2>2. ask[r].pattern \in Seq(Characters) /\ ask[r].subject \in Seq(Characters)
    BY <2>1, LookupAssumption
  <2> QED
    BY <2>2, PatternsMatch DEF CheckSendScope
<1> QED
  BY <1>1, <1>2, <1>3, InvHolds, PTL DEF Spec

=============================================================================
