----------------------------- MODULE LookupCache -----------------------------
(***************************************************************************)
(* The read-through caches of app/cache.go: SecretCache, by the secret's   *)
(* identifier, and LogConfigCache, by subject.  They also remember that    *)
(* nothing was found.  Get and Set hold the lock, the query between them   *)
(* does not: whatever is written and flushed in between, the answer of the *)
(* query is stored.                                                        *)
(*                                                                         *)
(* The requests that look things up: POST /api/events validates its        *)
(* secret, then looks the subject's logging properties up twice, for the   *)
(* log line and for the "created" message; GET /api/events/{id} stops      *)
(* after the secret; the pages that list events look properties up only.   *)
(* None of them needs a session.                                           *)
(***************************************************************************)
EXTENDS Patterns

CONSTANTS
    Characters,      \* of patterns and subjects
    Secrets,         \* identifiers of api_secrets
    Subjects,        \* subjects of events and of log_config
    SubjectPatterns, \* values of api_secrets.subject_pattern
    PropertyLists,   \* values of log_config.log_properties
    Nothing,         \* no row, or a remembered miss
    Absent,          \* no entry in the cache
    Readers,         \* goroutines that serve these requests
    DbMayFail        \* whether a query may return an error

Keys == Secrets \cup Subjects
Values == SubjectPatterns \cup PropertyLists

ASSUME LookupAssumption ==
    /\ Secrets \cap Subjects = {}
    /\ {Nothing, Absent} \cap Values = {} /\ Nothing # Absent
    /\ Nothing \notin Secrets
    /\ SubjectPatterns \cup Subjects \subseteq Seq(Characters)
    /\ DbMayFail \in BOOLEAN

VARIABLES
    row,    \* row[k]: what the tables hold under k
    used,   \* identifiers of secrets ever given
    entry,  \* entry[k]: what the caches hold under k
    ask,    \* ask[r]: the request that r serves
    \* history
    tainted \* keys stored from a query that had failed or was out of date

tables == <<row, used>>
cacheVars == <<row, used, entry, ask, tainted>>

Asks == [at : {"idle", "look", "query", "store", "forbidden"}, turn : 1..3,
         secret : Secrets \cup {Nothing}, subject : Subjects,
         pattern : SubjectPatterns \cup {Nothing}, got : Values \cup {Nothing}]

NoAsk == [at |-> "idle", turn |-> 1, secret |-> Nothing,
          subject |-> CHOOSE g \in Subjects : TRUE,
          pattern |-> Nothing, got |-> Nothing]

\* NewCache twice, at the start of the process.
EmptyCaches ==
    [entry |-> [k \in Keys |-> Absent], ask |-> [r \in Readers |-> NoAsk]]

\* Mutant: the arguments are swapped.
CheckSendScopeSwapped(pattern, subject) == MatchLike(subject, pattern)

CheckSendScope(pattern, subject) == MatchLike(pattern, subject)

KeyOf(a) == IF a.turn = 1 THEN a.secret ELSE a.subject

\* The rest of a request once its present look-up has given v.  A request may also
\* end here: the wrong plaintext, a malformed body, a failing insert, or
\* GET /api/events/{id}.
Proceed(r, v) ==
    LET a == ask[r] IN
    ask' \in {[ask EXCEPT ![r] = b] : b \in {NoAsk} \cup
        CASE a.turn = 1 /\ v = Nothing -> {}
          [] a.turn = 1 /\ v # Nothing ->
                {IF CheckSendScope(v, a.subject)
                 THEN [a EXCEPT !.at = "look", !.turn = 2, !.pattern = v, !.got = Nothing]
                 ELSE [a EXCEPT !.at = "forbidden", !.pattern = v, !.got = Nothing]}
          [] a.turn = 2 -> {[a EXCEPT !.at = "look", !.turn = 3, !.got = Nothing]}
          [] a.turn = 3 -> {}}

-----------------------------------------------------------------------------
\* A request with the secret k for an event with subject g.
AskSecret(r, k, g) ==
    /\ ask[r].at = "idle" /\ k \in used
    /\ ask' = [ask EXCEPT ![r] = [NoAsk EXCEPT !.at = "look", !.secret = k,
                                               !.subject = g]]
    /\ UNCHANGED <<tables, entry, tainted>>

\* BatchExtractLogProperties for an event with subject g on a page.
AskProperties(r, g) ==
    /\ ask[r].at = "idle"
    /\ ask' = [ask EXCEPT ![r] = [NoAsk EXCEPT !.at = "look", !.turn = 3, !.subject = g]]
    /\ UNCHANGED <<tables, entry, tainted>>

\* Cache.Get.
Get(r) ==
    /\ ask[r].at = "look"
    /\ \/ /\ entry[KeyOf(ask[r])] # Absent
          /\ Proceed(r, entry[KeyOf(ask[r])])
       \/ /\ entry[KeyOf(ask[r])] = Absent
          /\ ask' = [ask EXCEPT ![r].at = "query"]
    /\ UNCHANGED <<tables, entry, tainted>>

\* What GetApiSecretByID or GetLogConfigBySubject may answer; any error, that of a
\* cancelled request too, counts as not found.
Answers(k) == {row[k]} \cup (IF DbMayFail THEN {Nothing} ELSE {})

Query(r) ==
    /\ ask[r].at = "query"
    /\ ask' \in {[ask EXCEPT ![r].at = "store", ![r].got = v] :
                    v \in Answers(KeyOf(ask[r]))}
    /\ UNCHANGED <<tables, entry, tainted>>

\* Cache.Set.
Set(r) ==
    LET k == KeyOf(ask[r]) IN
    /\ ask[r].at = "store"
    /\ entry' = [entry EXCEPT ![k] = ask[r].got]
    /\ tainted' = IF ask[r].got = row[k] THEN tainted \ {k} ELSE tainted \cup {k}
    /\ Proceed(r, ask[r].got)
    /\ UNCHANGED tables

\* 403: the subject is not in the secret's scope.
Forbid(r) ==
    /\ ask[r].at = "forbidden"
    /\ ask' = [ask EXCEPT ![r] = NoAsk]
    /\ UNCHANGED <<tables, entry, tainted>>

\* Cache.Flush of the cache that holds the keys K.
FlushCache(K) ==
    /\ entry' = [k \in Keys |-> IF k \in K THEN Absent ELSE entry[k]]
    /\ tainted' = tainted \ K

Lookups(r) ==
    \/ \E k \in Secrets, g \in Subjects : AskSecret(r, k, g)
    \/ \E g \in Subjects : AskProperties(r, g)
    \/ Get(r) \/ Query(r) \/ Set(r) \/ Forbid(r)

-----------------------------------------------------------------------------
\* CheckSendScope: a request gets past the check exactly when its subject is in the
\* language of the pattern its secret has.
ScopeDecides ==
    \A r \in Readers :
        /\ ask[r].at = "forbidden" => ~InLanguage(ask[r].subject, ask[r].pattern)
        /\ ask[r].pattern # Nothing /\ ask[r].at # "forbidden" =>
              InLanguage(ask[r].subject, ask[r].pattern)
=============================================================================
