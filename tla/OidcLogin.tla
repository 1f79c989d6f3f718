---- MODULE OidcLogin ----
(***************************************************************************)
(* The OIDC login of oidc.py: the start and callback routes, the store of  *)
(* the logins in flight, and the limiter and the session store that        *)
(* __init__.py shares with the gate and the form (module Gate).            *)
(*                                                                         *)
(* A login is named by its state, which also stands for its nonce and its  *)
(* PKCE verifier: AuthorizationRequestStore.create draws the three at once.*)
(* A code is named by the login whose authorization request it answers.    *)
(* start awaits one read of the provider, callback three, and what a route *)
(* does between two awaits is one step.                                    *)
(***************************************************************************)
EXTENDS RateLimiter, FiniteSets

CONSTANTS
    Req,            \* slots for the requests that the server holds at a time
    Login,          \* the states that secrets.token_urlsafe(32) can still give
    NoLogin,        \* no state, or one that no start ever gave; no code
    Person,         \* who can sign in at the provider
    Nobody,
    Allowed,        \* the persons that LoginAllowlist.permits
    Uri,            \* the configured redirect URIs
    DefaultUri,     \* the first of them
    Elsewhere,      \* the origin of no redirect URI
    SessionToken,   \* what secrets.token_urlsafe(32) can still give
    MaxSize,        \* max_size of the store
    Faults          \* what the provider may do: "outage", "malformed", "lax"

ASSUME LoginAssumption ==
    /\ NoLogin \notin Login
    /\ Nobody \notin Person
    /\ Allowed \subseteq Person
    /\ DefaultUri \in Uri
    /\ Elsewhere \notin Uri
    /\ MaxSize \in Nat \ {0}
    /\ IsFiniteSet(Login)

VARIABLES
    store,      \* AuthorizationRequestStore._entries
    born,       \* born[s]: the place of s in the order of all starts, 0 before
    uri,        \* uri[s]: InFlightAuthRequest.redirect_uri, and the provider's copy
    closed,     \* history: the logins that a callback took or a restart dropped
    grant,      \* grant[s]: who signed in at the provider for s
    spent,      \* the codes that the provider has exchanged
    sessions,   \* SessionStore._tokens, but for the sessions of the form
    owner,      \* history: owner[t], the login and the person of each token
    handler     \* handler[r]: the request in slot r and how far it came

storeVars == <<store, born, uri, closed>>
providerVars == <<grant, spent>>
sessionVars == <<sessions, owner>>
loginVars == <<limiterVars, storeVars, providerVars, sessionVars, handler>>

----------------------------------------------------------------------------
(* Requests and answers                                                    *)

\* What a callback carries: any state and any code that a browser can have.
Sent(s) == born[s] > 0

Granted(s) == grant[s] # Nobody

Status == {"redirect", "signed in", "401", "429", "500", "503"}

Idle == [at |-> "idle"]

\* start at its read of the discovery document.
Starting == [at : {"starting"}, key : Key, uri : Uri]

\* callback at one of its three reads, with the login it took from the store.
CallbackStage == {"discovery", "token", "jwks"}

Calling == [at : CallbackStage, key : Key, login : Login, code : Login \cup {NoLogin}]

Answered == [at : {"answered"}, key : Key, status : Status]

Answer(r, k, status) ==
    handler' = [handler EXCEPT ![r] = [at |-> "answered", key |-> k, status |-> status]]

\* record_failure and the answer; OverflowError becomes a 500.
RefusedAs(r, k, status) ==
    /\ RecordFailure(k)
    /\ Answer(r, k, IF Overflows(k) THEN "500" ELSE status)

----------------------------------------------------------------------------
(* AuthorizationRequestStore                                               *)

Oldest(logins) == CHOOSE s \in logins : \A t \in logins : born'[s] <= born'[t]

Newest(logins) == CHOOSE s \in logins : \A t \in logins : born'[s] >= born'[t]

\* Mutant: popitem() takes the newest entry.
CappedNewestFirst(logins) ==
    IF Cardinality(logins) > MaxSize THEN logins \ {Newest(logins)} ELSE logins

\* The cap of create: the oldest entry makes room for the one just added.
Capped(logins) ==
    IF Cardinality(logins) > MaxSize THEN logins \ {Oldest(logins)} ELSE logins

\* create, for a state that no login has had.
Create(s, u) ==
    /\ born' = [born EXCEPT ![s] = Cardinality({t \in Login : Sent(t)}) + 1]
    /\ uri' = [uri EXCEPT ![s] = u]
    /\ store' = Capped(store \cup {s})
    /\ UNCHANGED closed

\* Mutant: the callback looks the state up with peek.
TakePeeks(s) == UNCHANGED storeVars

\* pop: whatever becomes of the callback, its state is used up.
Take(s) ==
    /\ store' = store \ {s}
    /\ closed' = IF s \in store THEN closed \cup {s} ELSE closed
    /\ UNCHANGED <<born, uri>>

----------------------------------------------------------------------------
(* The start route                                                         *)

\* redirect_uri_for: the configured URI of this origin, else the default.
RedirectUriFor(origin) == IF origin \in Uri THEN origin ELSE DefaultUri

\* Every hit outside a wait counts, up to the await on the discovery document.
Start(r, k, origin) ==
    /\ handler[r] = Idle
    /\ \/ /\ Blocked(k)
          /\ Answer(r, k, "429")
          /\ UNCHANGED limiterVars
       \/ /\ ~Blocked(k)
          /\ RecordFailure(k)
          /\ IF Overflows(k)
             THEN Answer(r, k, "500")
             ELSE handler' = [handler EXCEPT ![r] =
                     [at |-> "starting", key |-> k, uri |-> RedirectUriFor(origin)]]
    /\ UNCHANGED <<storeVars, providerVars, sessionVars>>

\* The document came: the login is recorded and the browser sent to the provider.
StartRedirects(r) ==
    /\ handler[r].at = "starting"
    /\ \E s \in Login :
          /\ ~Sent(s)
          /\ Create(s, handler[r].uri)
    /\ Answer(r, handler[r].key, "redirect")
    /\ UNCHANGED <<limiterVars, providerVars, sessionVars>>

\* OIDCDiscoveryError is a 503; an endpoint that urlsplit refuses, a ValueError.
StartFails(r) ==
    /\ handler[r].at = "starting"
    /\ \/ "outage" \in Faults /\ Answer(r, handler[r].key, "503")
       \/ "malformed" \in Faults /\ Answer(r, handler[r].key, "500")
    /\ UNCHANGED <<limiterVars, storeVars, providerVars, sessionVars>>

----------------------------------------------------------------------------
(* The callback route                                                      *)

\* A callback with an error of the provider or with no login of the store.
TurnedAway(s, error) == error \/ s \notin store

\* callback up to its answer or its await on the discovery document.
Callback(r, k, s, code, error) ==
    /\ handler[r] = Idle
    /\ Take(s)
    /\ \/ /\ TurnedAway(s, error) /\ Blocked(k)
          /\ Answer(r, k, "429")
          /\ UNCHANGED limiterVars
       \/ /\ TurnedAway(s, error) /\ ~Blocked(k)
          /\ RefusedAs(r, k, "401")
       \/ /\ ~TurnedAway(s, error)
          /\ handler' = [handler EXCEPT ![r] =
                [at |-> "discovery", key |-> k, login |-> s, code |-> code]]
          /\ UNCHANGED limiterVars
    /\ UNCHANGED <<providerVars, sessionVars>>

MovesOn(r, stage) ==
    /\ handler' = [handler EXCEPT ![r].at = stage]
    /\ UNCHANGED <<limiterVars, storeVars, sessionVars>>

\* The discovery document came.
Discovered(r) ==
    /\ handler[r].at = "discovery"
    /\ MovesOn(r, "token")
    /\ UNCHANGED providerVars

\* Mutant: the exchange sends the default redirect URI (issue #25).
DefaultUriSent(q) == DefaultUri

\* The redirect_uri of the token exchange.
UriSent(q) == uri[q.login]

\* The provider exchanges a code once, and wants the verifier and the redirect
\* URI of its request; a lax one takes any code that it gave, again and again.
CodeIsGood(q) ==
    /\ q.code # NoLogin
    /\ \/ "lax" \in Faults
       \/ q.code \notin spent /\ q.code = q.login /\ UriSent(q) = uri[q.code]

\* The token endpoint gave an ID token.
Exchanged(r) ==
    /\ handler[r].at = "token"
    /\ CodeIsGood(handler[r])
    /\ spent' = spent \cup {handler[r].code}
    /\ MovesOn(r, "jwks")
    /\ UNCHANGED grant

\* Mutant: the nonce of the ID token is not compared.
NonceIgnored(q) == TRUE

\* verify_id_token: the nonce of the ID token is the one of this login.
NonceMatches(q) == q.code = q.login

\* Who the ID token names, once the JWKS came.
Accepts(q) == NonceMatches(q) /\ grant[q.code] \in Allowed

SignedIn(r) ==
    /\ handler[r].at = "jwks"
    /\ Accepts(handler[r])
    /\ RecordSuccess(handler[r].key)
    /\ \E t \in SessionToken \ DOMAIN owner :
          /\ sessions' = sessions \cup {t}
          /\ owner' = [u \in DOMAIN owner \cup {t} |->
                IF u = t THEN [login |-> handler[r].login, person |-> grant[handler[r].code]]
                         ELSE owner[u]]
    /\ Answer(r, handler[r].key, "signed in")
    /\ UNCHANGED <<storeVars, providerVars>>

\* The provider took the code and its answer is no use.
CodeMayBeSpent(q) ==
    /\ spent' = spent \/ (q.at = "token" /\ CodeIsGood(q) /\ spent' = spent \cup {q.code})
    /\ UNCHANGED grant

\* Mutant: a login that fails after its state was recognised does not count.
RefusedUncounted(r) ==
    /\ handler[r].at = "token" /\ ~CodeIsGood(handler[r])
    /\ Answer(r, handler[r].key, "401")
    /\ UNCHANGED <<limiterVars, storeVars, providerVars, sessionVars>>

\* _reject_callback after an await: a read that failed, a code or an ID token
\* that was refused, or a person who is not on the allowlist.
CallbackRefused(r) ==
    /\ \/ /\ handler[r].at \in CallbackStage /\ "outage" \in Faults
          /\ CodeMayBeSpent(handler[r])
       \/ /\ handler[r].at = "token" /\ ~CodeIsGood(handler[r])
          /\ UNCHANGED providerVars
       \/ /\ handler[r].at = "jwks" /\ ~Accepts(handler[r])
          /\ UNCHANGED providerVars
    /\ RefusedAs(r, handler[r].key, "401")
    /\ UNCHANGED <<storeVars, sessionVars>>

\* An endpoint that urlsplit refuses, a token response that is no object, or an ID token
\* that jwt.decode refuses with a ValueError, which verify_access_token catches and
\* verify_id_token does not: callback catches neither it nor an AttributeError.
CallbackRaised(r) ==
    /\ handler[r].at \in CallbackStage
    /\ "malformed" \in Faults
    /\ CodeMayBeSpent(handler[r])
    /\ Answer(r, handler[r].key, "500")
    /\ UNCHANGED <<limiterVars, storeVars, sessionVars>>

----------------------------------------------------------------------------
(* The rest of the system                                                  *)

\* Somebody signs in at the provider for a login that was sent there.  The
\* provider answers each authorization request with one code.
Grant(s) ==
    /\ Sent(s) /\ ~Granted(s)
    /\ \E p \in Person : grant' = [grant EXCEPT ![s] = p]
    /\ UNCHANGED <<limiterVars, storeVars, spent, sessionVars, handler>>

\* The answer reaches the browser, or is lost: the slot is free again.
Delivered(r) ==
    /\ handler[r].at = "answered"
    /\ handler' = [handler EXCEPT ![r] = Idle]
    /\ UNCHANGED <<limiterVars, storeVars, providerVars, sessionVars>>

\* ComfyUI restarts.  Browsers keep their states and codes.
Restart ==
    /\ LimiterRestart
    /\ store' = {}
    /\ closed' = closed \cup store
    /\ sessions' = {}
    /\ handler' = [r \in Req |-> Idle]
    /\ UNCHANGED <<born, uri, providerVars, owner>>

Time == Elapse /\ UNCHANGED <<storeVars, providerVars, sessionVars, handler>>

\* The gate and the form have the same limiter (module Gate): a wrong credential
\* of a caller starts a wait for its logins too, and a right one ends it.
GateUsesLimiter ==
    /\ \E k \in Key : RecordFailure(k) \/ RecordSuccess(k)
    /\ UNCHANGED <<storeVars, providerVars, sessionVars, handler>>

LoginInit ==
    /\ LimiterInit
    /\ store = {}
    /\ born = [s \in Login |-> 0]
    /\ uri = [s \in Login |-> DefaultUri]
    /\ closed = {}
    /\ grant = [s \in Login |-> Nobody]
    /\ spent = {}
    /\ sessions = {}
    /\ owner = [t \in {} |-> Nobody]
    /\ handler = [r \in Req |-> Idle]

States == {s \in Login : Sent(s)} \cup {NoLogin}
Codes == {s \in Login : Granted(s)} \cup {NoLogin}

StartStep(r) ==
    \/ \E k \in Key, origin \in Uri \cup {Elsewhere} : Start(r, k, origin)
    \/ StartRedirects(r) \/ StartFails(r)

CallbackStep(r) ==
    \/ \E k \in Key, s \in States, code \in Codes, error \in BOOLEAN :
          Callback(r, k, s, code, error)
    \/ Discovered(r) \/ Exchanged(r) \/ SignedIn(r) \/ CallbackRefused(r) \/ CallbackRaised(r)

LoginNext ==
    \/ \E r \in Req : StartStep(r) \/ CallbackStep(r) \/ Delivered(r)
    \/ \E s \in Login : Grant(s)
    \/ GateUsesLimiter
    \/ Restart
    \/ Time

LoginSpec == LoginInit /\ [][LoginNext]_loginVars

----------------------------------------------------------------------------
(* Properties                                                              *)

LoginTypeOK ==
    /\ LimiterTypeOK
    /\ store \subseteq Login
    /\ born \in [Login -> 0..Cardinality(Login)]
    /\ uri \in [Login -> Uri]
    /\ closed \subseteq Login
    /\ grant \in [Login -> Person \cup {Nobody}]
    /\ spent \subseteq Login
    /\ sessions \subseteq DOMAIN owner
    /\ DOMAIN owner \subseteq SessionToken
    /\ owner \in [DOMAIN owner -> [login : Login, person : Person]]
    /\ handler \in [Req -> {Idle} \cup Starting \cup Calling \cup Answered]

\* FR-011: a login gives one session at most, however often its callback comes,
\* also twice at the same time, around a restart, and at a provider that
\* exchanges a code twice.
OneSessionPerLogin ==
    \A t, u \in DOMAIN owner : owner[t].login = owner[u].login => t = u

\* FR-007, ADR-007: a session belongs to an allowed person, who signed in for
\* the login that this gate started, also when a callback mixes the state of
\* one login with the code of another and the provider checks neither the PKCE
\* verifier nor the redirect URI nor whether the code was used.
SessionsAreAllowed ==
    \A t \in DOMAIN owner :
        /\ owner[t].person \in Allowed
        /\ owner[t].person = grant[owner[t].login]

\* How far login s came: a callback has it, it gave a session, it waits in the
\* store, or it is over.
Phase(s) ==
    IF \E r \in Req : handler[r].at \in CallbackStage /\ handler[r].login = s THEN "taken"
    ELSE IF \E t \in DOMAIN owner : owner[t].login = s THEN "granted"
    ELSE IF s \in store THEN "open"
    ELSE IF Sent(s) THEN "closed" ELSE "unused"

Once == INSTANCE OneTimeLogin
    WITH phase <- [s \in Login |-> Phase(s)], given <- owner, live <- sessions

\* FR-010, FR-011: the routes implement the one-time login.  No callback, replay,
\* eviction or restart brings a login back, and each step moves one login on.
LoginsAreOneTime == Once!OnceSpec

\* FR-010: the store never grows beyond its cap, and the cap costs a person its
\* login only after max_size younger starts, however callbacks and starts mix.
StoreKeepsTheNewest ==
    /\ Cardinality(store) <= MaxSize
    /\ \A s \in Login : Sent(s) /\ s \notin store \cup closed =>
          Cardinality({t \in Login : born[t] > born[s]}) >= MaxSize

\* The step that gives slot r its answer to the caller k.
AnswersNow(r, k, status) ==
    /\ handler[r].at # "answered"
    /\ handler'[r] = [at |-> "answered", key |-> k, status |-> status]

\* README:136 and README:216: the routes count each start outside a wait and
\* each callback that is refused with 401, and no fault of the provider at start.
\* A step of the gate or the form touches no slot.
StartsAndRefusalsCount ==
    [][\A k \in Key : handler' # handler /\ failures[k] < FloatExponents =>
         (failures'[k] > failures[k] <=>
            \E r \in Req :
               \/ handler[r] = Idle /\ handler'[r].at = "starting" /\ handler'[r].key = k
               \/ AnswersNow(r, k, "401"))]_loginVars

\* oidc.py:1129 "a real login never pays for the failure charged here": while
\* the provider works and nobody else holds the code, a callback whose state is
\* in the store is not held up by the wait of its caller, and it ends in a
\* session when its code answers that state and the person is allowed.
NoGoodLoginIsRefused ==
    [][\A r \in Req :
         /\ \A k \in Key, s \in store, code \in Codes :
               Callback(r, k, s, code, FALSE) => handler'[r].at = "discovery"
         /\ \A k \in Key, status \in Status :
               /\ AnswersNow(r, k, status)
               /\ handler[r].at \in CallbackStage
               /\ handler[r].code = handler[r].login
               /\ grant[handler[r].login] \in Allowed
               => status = "signed in"]_loginVars

\* README:136 "A refused callback gives HTTP 401 and counts as a failed attempt":
\* a callback that took its login and ends without a session is a 401.  The code
\* breaks it when the provider answers JSON of another shape: the callback is
\* a 500 that neither counts nor logs.
RefusedCallbackIs401 ==
    [][\A r \in Req, k \in Key, status \in Status :
         handler[r].at \in CallbackStage /\ AnswersNow(r, k, status)
         => status \in {"signed in", "401"}]_loginVars
====
