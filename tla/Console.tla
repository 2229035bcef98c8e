------------------------------- MODULE Console -------------------------------
(***************************************************************************)
(* The forms of the web interface that change API secrets and logging      *)
(* properties (views/secrets.go, views/logging.go), statement by           *)
(* statement, beside the requests that use them through the caches         *)
(* (LookupCache) and behind the sessions (Sessions).                       *)
(*                                                                         *)
(* An edit writes its row first, then, for a secret, the subscribers it is *)
(* associated with, one statement each and none of them checked; its last  *)
(* step is the Flush of the cache.  Nothing keeps two edits apart.         *)
(***************************************************************************)
EXTENDS LookupCache, Sessions, Functions

CONSTANTS
    Subs,        \* subscribers
    Host,        \* Host[s]: host and port of its endpoint URL, "" in a URL without
    Stored,      \* secrets in the table at first
    Associated,  \* the subscribers they are associated with
    Choices,     \* bound: what forms select, in the order of the form
    Handlers,    \* goroutines that serve forms
    MaxRequests, \* bound
    MaxRestarts  \* bound

ASSUME ConsoleAssumption ==
    /\ Host \in [Subs -> STRING]
    /\ Stored \subseteq Secrets
    /\ Choices \subseteq Seq(Subs)
    /\ Associated \subseteq Subs
    /\ \A s1, s2 \in Associated : Host[s1] = "" \/ Host[s2] = "" \/ Host[s1] = Host[s2]
    /\ SubjectPatterns # {} /\ Subjects # {}
    /\ MaxRequests \in Nat /\ MaxRestarts \in Nat

VARIABLES
    scope,    \* scope[k]: the rows of api_secret_subscribers
    step,     \* step[h]: how far handler h is
    job,      \* job[h]: its form
    requests, restarts,
    \* history
    disturbed, \* secrets whose last edit met another, a restart or a failed statement
    revoked    \* secrets whose deletion is complete

handlerVars == <<scope, step, job, disturbed, revoked>>
vars == <<cacheVars, sessionVars, handlerVars, requests, restarts>>

Kinds == {"create", "update", "delete", "configure", "unconfigure", "logout"}

Jobs == [kind : Kinds, key : Keys \cup {Nothing}, value : Values \cup {Nothing},
         wanted : Seq(Subs), add : SUBSET Subs, drop : SUBSET Subs,
         token : Tokens \cup {Nothing}, clean : BOOLEAN]

NoJob == [kind |-> "logout", key |-> Nothing, value |-> Nothing, wanted |-> <<>>,
          add |-> {}, drop |-> {}, token |-> Nothing, clean |-> TRUE]

Form(kind, k, v, ids) ==
    [NoJob EXCEPT !.kind = kind, !.key = k, !.value = v, !.wanted = ids]

\* h has written its row and not yet flushed.
Editing(h, k) == step[h] \in {"listing", "syncing"} /\ job[h].key = k

\* The check of the forms, which create and update both make: the first host it meets is
\* the one for all the rest, and "" stands for none met yet.
HostsAgree(ids) ==
    \A i, j \in DOMAIN ids : i < j /\ Host[ids[i]] # "" => Host[ids[j]] = Host[ids[i]]

OnOneHost(S) == \A s1, s2 \in S : Host[s1] = "" \/ Host[s2] = "" \/ Host[s1] = Host[s2]

Init ==
    /\ row = [k \in Keys |-> IF k \in Stored THEN CHOOSE p \in SubjectPatterns : TRUE
                                             ELSE Nothing]
    /\ used = Stored
    /\ entry = EmptyCaches.entry /\ ask = EmptyCaches.ask /\ tainted = {}
    /\ SessionInit
    /\ scope = [k \in Secrets |-> IF k \in Stored THEN Associated ELSE {}]
    /\ step = [h \in Handlers |-> "idle"]
    /\ job = [h \in Handlers |-> NoJob]
    /\ disturbed = {} /\ revoked = {}
    /\ requests = 0 /\ restarts = 0

-----------------------------------------------------------------------------
\* The middleware lets form j of a browser with session t through.
Admit(h, t, j) ==
    /\ step[h] = "idle" /\ requests < MaxRequests
    /\ Admits(t)
    /\ step' = [step EXCEPT ![h] = "admitted"]
    /\ job' = [job EXCEPT ![h] = [j EXCEPT !.token = t]]
    /\ requests' = requests + 1
    /\ UNCHANGED <<cacheVars, sessionVars, scope, disturbed, revoked, restarts>>

\* The identifier of a new secret is a fresh UUID.
Fresh == (Secrets \ used) \ {job[h].key : h \in Handlers}

AdmitForm(h, t) ==
    \/ \E k \in Fresh, v \in SubjectPatterns, ids \in Choices :
            Admit(h, t, Form("create", k, v, ids))
    \/ \E k \in used, v \in SubjectPatterns, ids \in Choices :
            Admit(h, t, Form("update", k, v, ids))
    \/ \E k \in used : Admit(h, t, Form("delete", k, Nothing, <<>>))
    \/ \E g \in Subjects, v \in PropertyLists : Admit(h, t, Form("configure", g, v, <<>>))
    \/ \E g \in Subjects : Admit(h, t, Form("unconfigure", g, Nothing, <<>>))
    \/ Admit(h, t, NoJob)

\* The end of a handler.
Idle(h) ==
    /\ step' = [step EXCEPT ![h] = "idle"]
    /\ job' = [job EXCEPT ![h] = NoJob]

\* A page with an error: the check of the hosts, an update of nothing, or an error of
\* the first statement.
Refuse(h) ==
    /\ step[h] = "admitted" /\ job[h].kind # "logout"
    /\ \/ DbMayFail
       \/ job[h].kind \in {"create", "update"} /\ ~HostsAgree(job[h].wanted)
       \/ job[h].kind = "update" /\ row[job[h].key] = Nothing
    /\ Idle(h)
    /\ UNCHANGED <<cacheVars, sessionVars, scope, disturbed, revoked, requests, restarts>>

\* The first statement of an edit: the row under its key becomes its value.  From now
\* on it is in the middle of an edit, and so may be another.
Write(h, next, S) ==
    LET k == job[h].key
        overlaps == \E g \in Handlers \ {h} : Editing(g, k)
    IN  /\ row' = [row EXCEPT ![k] = job[h].value]
        /\ step' = [step EXCEPT ![h] = next]
        /\ job' = [g \in Handlers |->
                     IF g = h THEN [job[h] EXCEPT !.add = S, !.clean = ~overlaps]
                     ELSE IF Editing(g, k) THEN [job[g] EXCEPT !.clean = FALSE]
                     ELSE job[g]]
        /\ UNCHANGED <<entry, ask, tainted, sessionVars, disturbed, revoked,
                       requests, restarts>>

\* POST /secrets.
InsertApiSecret(h) ==
    /\ step[h] = "admitted" /\ job[h].kind = "create"
    /\ HostsAgree(job[h].wanted)
    /\ Write(h, "syncing", Range(job[h].wanted))
    /\ used' = used \cup {job[h].key}
    /\ UNCHANGED scope

\* Mutant: the form is not checked.
UpdateAnyHosts(h) ==
    /\ step[h] = "admitted" /\ job[h].kind = "update"
    /\ row[job[h].key] # Nothing
    /\ Write(h, "listing", {})
    /\ UNCHANGED <<used, scope>>

\* POST /secrets/{id}/edit.
UpdateApiSecret(h) ==
    /\ step[h] = "admitted" /\ job[h].kind = "update"
    /\ HostsAgree(job[h].wanted)
    /\ row[job[h].key] # Nothing
    /\ Write(h, "listing", {})
    /\ UNCHANGED <<used, scope>>

\* ListSubscribersForApiSecret, whose error is ignored: nothing is associated then.
ListSubscribersForApiSecret(k, failed) == IF failed THEN {} ELSE scope[k]

AddApiSecretSubscriber(k, s, failed) ==
    scope' = IF failed THEN scope ELSE [scope EXCEPT ![k] = @ \cup {s}]

RemoveApiSecretSubscriber(k, s, failed) ==
    scope' = IF failed THEN scope ELSE [scope EXCEPT ![k] = @ \ {s}]

ListScope(h) ==
    /\ step[h] = "listing"
    /\ \E failed \in {FALSE, DbMayFail} :
          LET current == ListSubscribersForApiSecret(job[h].key, failed)
              desired == Range(job[h].wanted)
          IN  job' = [job EXCEPT ![h].add = desired \ current, ![h].drop = current \ desired,
                                 ![h].clean = @ /\ ~failed]
    /\ step' = [step EXCEPT ![h] = "syncing"]
    /\ UNCHANGED <<cacheVars, sessionVars, scope, disturbed, revoked, requests, restarts>>

\* It fails when the secret is gone, and nobody looks.
Attach(h, s) ==
    LET gone == row[job[h].key] = Nothing IN
    /\ step[h] = "syncing" /\ s \in job[h].add
    /\ \E failed \in {gone, gone \/ DbMayFail} :
          /\ AddApiSecretSubscriber(job[h].key, s, failed)
          /\ job' = [job EXCEPT ![h].add = @ \ {s}, ![h].clean = @ /\ ~failed]
    /\ UNCHANGED <<cacheVars, sessionVars, step, disturbed, revoked, requests, restarts>>

\* Once all are added.
Detach(h, s) ==
    /\ step[h] = "syncing" /\ job[h].add = {} /\ s \in job[h].drop
    /\ \E failed \in {FALSE, DbMayFail} :
          /\ RemoveApiSecretSubscriber(job[h].key, s, failed)
          /\ job' = [job EXCEPT ![h].drop = @ \ {s}, ![h].clean = @ /\ ~failed]
    /\ UNCHANGED <<cacheVars, sessionVars, step, disturbed, revoked, requests, restarts>>

\* Mutant: the associations of the secret stay.
DeleteRowOnly(h) ==
    /\ step[h] = "admitted" /\ job[h].kind = "delete"
    /\ Write(h, "syncing", {})
    /\ UNCHANGED <<used, scope>>

\* POST /secrets/{id}/delete; its associations go with it (ON DELETE CASCADE).
DeleteApiSecret(h) ==
    /\ step[h] = "admitted" /\ job[h].kind = "delete"
    /\ Write(h, "syncing", {})
    /\ scope' = [scope EXCEPT ![job[h].key] = {}]
    /\ UNCHANGED used

\* POST and PUT /logging.
UpsertLogConfig(h) ==
    /\ step[h] = "admitted" /\ job[h].kind = "configure"
    /\ Write(h, "syncing", {})
    /\ UNCHANGED <<used, scope>>

\* DELETE /logging/{subject}.
DeleteLogConfigForSubject(h) ==
    /\ step[h] = "admitted" /\ job[h].kind = "unconfigure"
    /\ Write(h, "syncing", {})
    /\ UNCHANGED <<used, scope>>

\* Mutant: the page is rendered without it.
NoFlush(h) ==
    /\ step[h] = "syncing" /\ job[h].add = {} /\ job[h].drop = {}
    /\ Idle(h)
    /\ UNCHANGED <<cacheVars, sessionVars, scope, disturbed, revoked, requests, restarts>>

\* The Flush of the cache concerned and the end of the edit.
Flush(h) ==
    LET k == job[h].key IN
    /\ step[h] = "syncing" /\ job[h].add = {} /\ job[h].drop = {}
    /\ FlushCache(IF k \in Secrets THEN Secrets ELSE Subjects)
    /\ Idle(h)
    /\ disturbed' = IF job[h].clean THEN disturbed \ {k} ELSE disturbed \cup {k}
    /\ revoked' = IF job[h].kind = "delete" THEN revoked \cup {k} ELSE revoked
    /\ UNCHANGED <<tables, ask, sessionVars, scope, requests, restarts>>

Logout(h) ==
    /\ step[h] = "admitted" /\ job[h].kind = "logout"
    /\ DeleteSession(job[h].token)
    /\ Idle(h)
    /\ UNCHANGED <<cacheVars, scope, disturbed, revoked, requests, restarts>>

\* The process ends and another starts on the same tables.
Restart ==
    /\ restarts < MaxRestarts
    /\ restarts' = restarts + 1
    /\ entry' = EmptyCaches.entry /\ ask' = EmptyCaches.ask /\ tainted' = {}
    /\ LoseSessions
    /\ step' = [h \in Handlers |-> "idle"]
    /\ job' = [h \in Handlers |-> NoJob]
    /\ disturbed' = disturbed \cup {k \in Secrets : \E h \in Handlers : Editing(h, k)}
    /\ UNCHANGED <<tables, scope, revoked, requests>>

Handler(h) ==
    \/ \E t \in Tokens : AdmitForm(h, t)
    \/ Refuse(h) \/ InsertApiSecret(h) \/ UpdateApiSecret(h) \/ DeleteApiSecret(h)
    \/ UpsertLogConfig(h) \/ DeleteLogConfigForSubject(h)
    \/ ListScope(h)
    \/ \E s \in Subs : Attach(h, s) \/ Detach(h, s)
    \/ Flush(h) \/ Logout(h)

Next ==
    \/ \E h \in Handlers : Handler(h)
    \/ \E r \in Readers :
          Lookups(r) /\ UNCHANGED <<sessionVars, handlerVars, requests, restarts>>
    \/ SessionNext /\ UNCHANGED <<cacheVars, handlerVars, requests, restarts>>
    \/ Restart

Spec == Init /\ [][Next]_vars

-----------------------------------------------------------------------------
\* Types, and the foreign key: only secrets in the table are associated with anybody.
TypeOK ==
    /\ row \in [Keys -> Values \cup {Nothing}]
    /\ used \in SUBSET Secrets
    /\ entry \in [Keys -> Values \cup {Nothing, Absent}]
    /\ ask \in [Readers -> Asks]
    /\ tainted \in SUBSET Keys
    /\ SessionTypeOK
    /\ scope \in [Secrets -> SUBSET Subs]
    /\ step \in [Handlers -> {"idle", "admitted", "listing", "syncing"}]
    /\ job \in [Handlers -> Jobs]
    /\ disturbed \in SUBSET Keys /\ revoked \in SUBSET Secrets
    /\ requests \in 0..MaxRequests /\ restarts \in 0..MaxRestarts
    /\ \A k \in Secrets : scope[k] # {} => row[k] # Nothing

\* What a cache says and the table does not is the doing of an edit that has not
\* flushed yet, or was stored by a look-up that failed or took longer than an edit.
CacheHonest ==
    \A k \in Keys :
        entry[k] \notin {Absent, row[k]} => k \in tainted \/ \E h \in Handlers : Editing(h, k)

\* Subscribers of a secret whose URLs have hosts have the same one ("must share the same
\* host and port", tasks/prd-api-secrets.md, FR-17), through any number of edits, unless
\* edits of one secret overlap or a statement fails.  Of a URL without a host nothing is
\* said: listed first in a form, its subscriber passes beside any other.
ScopeOnOneHost ==
    \A k \in Secrets \ disturbed :
        OnOneHost(scope[k]) \/ \E h \in Handlers : Editing(h, k)

\* A session that is over stays over: what it is used for is turned away.
NoReadmission ==
    [][\A h \in Handlers : step[h] = "idle" /\ step'[h] = "admitted" =>
            job'[h].token \notin ended]_vars

\* docs/web-ui.md: deleting a secret "revokes access immediately".
RevokedAtOnce == \A k \in revoked : entry[k] \in {Absent, Nothing}
=============================================================================
