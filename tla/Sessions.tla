------------------------------ MODULE Sessions ------------------------------
(***************************************************************************)
(* SessionStore of app/sessions.go, the login page and the middleware that *)
(* lets a request for a page through.  A session ends by logout, 24 hours  *)
(* after the login, or with the process.  Not behind the middleware:       *)
(* /login, /static/, /version and /api/.                                   *)
(***************************************************************************)
CONSTANTS
    Tokens,          \* session tokens: 32 random bytes, none is drawn twice
    AdminConfigured  \* whether ADMIN_SECRET is set

ASSUME SessionAssumption == AdminConfigured \in BOOLEAN

VARIABLES
    session, \* session[t]: "none", "valid" or, 24 hours later, "expired"
    \* history
    ended    \* tokens whose session is over

sessionVars == <<session, ended>>

SessionTypeOK ==
    /\ session \in [Tokens -> {"none", "valid", "expired"}]
    /\ ended \in SUBSET Tokens

\* NewSessionStore.
SessionInit ==
    /\ session = [t \in Tokens |-> "none"]
    /\ ended = {}

\* POST /login with the right secret.  Without ADMIN_SECRET there is none.
Login(t) ==
    /\ AdminConfigured
    /\ session[t] = "none" /\ t \notin ended
    /\ session' = [session EXCEPT ![t] = "valid"]
    /\ UNCHANGED ended

Expire(t) ==
    /\ session[t] = "valid"
    /\ session' = [session EXCEPT ![t] = "expired"]
    /\ ended' = ended \cup {t}

\* GetSession finds the session and lets the request through.
Admits(t) == session[t] = "valid"

\* GetSession deletes a session that has expired, and the request goes to /login.
TurnAway(t) ==
    /\ session[t] = "expired"
    /\ session' = [session EXCEPT ![t] = "none"]
    /\ UNCHANGED ended

\* Mutant: only the cookie is cleared.
DeleteCookie(t) ==
    /\ ended' = ended \cup {t}
    /\ UNCHANGED session

\* POST /logout.
DeleteSession(t) ==
    /\ session' = [session EXCEPT ![t] = "none"]
    /\ ended' = ended \cup {t}

\* The store is in memory.
LoseSessions ==
    /\ session' = [t \in Tokens |-> "none"]
    /\ ended' = ended \cup {t \in Tokens : session[t] # "none"}

SessionNext ==
    \E t \in Tokens : Login(t) \/ Expire(t) \/ TurnAway(t)
=============================================================================
