---- MODULE Gate ----
(***************************************************************************)
(* The gate middleware and the login form of gate.py, with the session     *)
(* store and the rate limiter that __init__.py gives to both.              *)
(*                                                                         *)
(* aiohttp runs the handlers on one thread: what a handler does between    *)
(* two awaits is one step.  Two handlers await before they answer, the     *)
(* gate on its token check and the login form on the body of the POST, so  *)
(* a request that waits there meets whatever other requests did meanwhile. *)
(***************************************************************************)
EXTENDS RateLimiter

CONSTANTS
    Req,            \* slots for the requests that the server holds at a time
    SessionToken,   \* what secrets.token_urlsafe(32) can still give; bounds the logins
    Forged,         \* a curu_auth cookie that no SessionStore ever issued
    NoCookie,       \* no cookie, or an empty one
    TokenMode       \* whether the gate has a token_check (ADR-008)

ASSUME GateAssumption ==
    /\ Forged # NoCookie
    /\ Forged \notin SessionToken
    /\ NoCookie \notin SessionToken
    /\ TokenMode \in BOOLEAN

VARIABLES
    sessions,   \* SessionStore._tokens
    minted,     \* every token issued so far, also before a restart
    handler     \* handler[r]: the request in slot r and how far it came

gateVars == <<failures, wait, sessions, minted, handler>>

----------------------------------------------------------------------------
(* Requests and answers                                                    *)

Cookie == SessionToken \cup {Forged, NoCookie}

\* The Authorization header, or the token field of the form: blank, the static
\* credential, another value, an access token of the issuer, another JWT.
Offer == {"none", "static", "wrong", "jwt", "badjwt"}

Jwt == {"jwt", "badjwt"}

\* A handler passes the request on, answers 401, 429, 503 or 500, or redirects:
\* a browser without access to the login page, one that logged in to the home page.
\* "raised" is the 500 of an exception that the token check let out.
Status == {"passed", "401", "429", "503", "500", "raised", "login", "home"}

Idle == [at |-> "idle"]

\* A request that awaits token_check or request.post().
Awaiting == [at : {"checking"}, key : Key, cookie : Cookie, offer : Jwt, html : BOOLEAN]
Reading  == [at : {"body"}, key : Key]

\* An answer on its way: whether it expires the cookie of the request, which
\* session it sets, and how many "authentication failure" lines were logged.
Answered == [at : {"answered"}, key : Key, cookie : Cookie, offer : Offer,
             status : Status, expires : BOOLEAN,
             issued : SessionToken \cup {NoCookie}, lines : 0..2]

AnswerTo(q, status, expires, issued, lines) ==
    [at |-> "answered", key |-> q.key, cookie |-> q.cookie, offer |-> q.offer,
     status |-> status, expires |-> expires, issued |-> issued, lines |-> lines]

Answer(r, q, status, expires, issued, lines) ==
    handler' = [handler EXCEPT ![r] = AnswerTo(q, status, expires, issued, lines)]

\* A client sends a cookie that some login gave it, a made up one, or none.
Presentable == minted \cup {Forged, NoCookie}

----------------------------------------------------------------------------
(* The gate                                                                *)

\* Mutant: a request with an Authorization header is judged by that alone.
HeaderBeatsSession(q) == q.cookie \in sessions /\ q.offer = "none"

\* Mutant: a cookie passes when the gate ever issued it, also before the restart.
PassesByAnyIssued(q) == q.cookie \in minted

\* SessionStore.is_valid of the cookie.  NoCookie is in no store.
PassesBySession(q) == q.cookie \in sessions

\* The token check runs for a JWT-shaped Bearer value; it is never the credential.
GoesToTokenCheck(q) == TokenMode /\ q.offer \in Jwt

\* Mutant: every refused request counts, also one that offered nothing.
EveryRequestIsAttempt(q) == TRUE

\* An attempt is a request with a header or a cookie that is not blank.
CredentialWasOffered(q) == q.offer # "none" \/ q.cookie # NoCookie

\* Mutant: the redirect of a browser is decided before its wait.
WaitSparesBrowsers(q) == Blocked(q.key) /\ ~q.html

HeldBack(q) == Blocked(q.key)

\* Mutant: the refused token gets a second line.
AlwaysLastLine(refused) == 1

\* A refused token wrote its line when the verdict came.
LastLine(refused) == IF refused THEN 0 ELSE 1

\* The tail of the gate: count the attempt, log it, expire the cookie, answer.
\* OverflowError in record_failure leaves the handler before the last line.
Refuse(r, q, refused) ==
    LET logged  == IF refused THEN 1 ELSE 0
        charged == CredentialWasOffered(q)
    IN  /\ IF charged THEN RecordFailure(q.key) ELSE UNCHANGED limiterVars
        /\ IF charged /\ Overflows(q.key)
           THEN Answer(r, q, "500", FALSE, NoCookie, logged)
           ELSE Answer(r, q, IF q.html THEN "login" ELSE "401", q.cookie # NoCookie,
                       NoCookie, logged + LastLine(refused))

\* The wait, then the static credential, for a request without a token verdict.
Judge(r, q) ==
    \/ /\ HeldBack(q)
       /\ Answer(r, q, IF q.html THEN "login" ELSE "429", q.cookie # NoCookie, NoCookie, 0)
       /\ UNCHANGED limiterVars
    \/ /\ ~HeldBack(q)
       /\ q.offer = "static"
       /\ RecordSuccess(q.key)
       /\ Answer(r, q, "passed", FALSE, NoCookie, 0)
    \/ /\ ~HeldBack(q)
       /\ q.offer # "static"
       /\ Refuse(r, q, FALSE)

\* A request reaches the gate, which takes it up to its answer or its await.
GateRequest(r, q) ==
    /\ handler[r] = Idle
    /\ UNCHANGED <<sessions, minted>>
    /\ \/ /\ PassesBySession(q)
          /\ Answer(r, q, "passed", FALSE, NoCookie, 0)
          /\ UNCHANGED limiterVars
       \/ /\ ~PassesBySession(q)
          /\ GoesToTokenCheck(q)
          /\ handler' = [handler EXCEPT ![r] =
                [at |-> "checking", key |-> q.key, cookie |-> q.cookie,
                 offer |-> q.offer, html |-> q.html]]
          /\ UNCHANGED limiterVars
       \/ /\ ~PassesBySession(q)
          /\ ~GoesToTokenCheck(q)
          /\ Judge(r, q)

\* The token check returns: only a token of the issuer can be valid, any token
\* can be refused, and an issuer without keys leaves the question open.
TokenAccepted(r) ==
    /\ handler[r].at = "checking"
    /\ handler[r].offer = "jwt"
    /\ RecordSuccess(handler[r].key)
    /\ Answer(r, handler[r], "passed", FALSE, NoCookie, 0)
    /\ UNCHANGED <<sessions, minted>>

TokenRefused(r) ==
    /\ handler[r].at = "checking"
    /\ Refuse(r, handler[r], TRUE)
    /\ UNCHANGED <<sessions, minted>>

TokenUnchecked(r) ==
    /\ handler[r].at = "checking"
    /\ Answer(r, handler[r], "503", FALSE, NoCookie, 0)
    /\ UNCHANGED <<failures, wait, sessions, minted>>

\* The gate catches TokenCheckUnavailableError and nothing else: a ValueError
\* out of discovery (IssuerKeys, DiscoveryRaised) ends the request uncounted.
TokenRaised(r) ==
    /\ handler[r].at = "checking"
    /\ Answer(r, handler[r], "raised", FALSE, NoCookie, 0)
    /\ UNCHANGED <<failures, wait, sessions, minted>>

----------------------------------------------------------------------------
(* The login form                                                          *)

Form(k, offer) == [key |-> k, cookie |-> NoCookie, offer |-> offer]

\* login_post up to `await request.post()`.
LoginPost(r, k) ==
    /\ handler[r] = Idle
    /\ IF Blocked(k)
       THEN Answer(r, Form(k, "none"), "429", FALSE, NoCookie, 0)
       ELSE handler' = [handler EXCEPT ![r] = [at |-> "body", key |-> k]]
    /\ UNCHANGED <<failures, wait, sessions, minted>>

\* The body came: the wait is not looked at again.
LoginRight(r) ==
    /\ handler[r].at = "body"
    /\ RecordSuccess(handler[r].key)
    /\ \E t \in SessionToken \ minted :
          /\ sessions' = sessions \cup {t}
          /\ minted' = minted \cup {t}
          /\ Answer(r, Form(handler[r].key, "static"), "home", FALSE, t, 0)

LoginWrong(r) ==
    /\ handler[r].at = "body"
    /\ RecordFailure(handler[r].key)
    /\ LET q == Form(handler[r].key, "wrong")
       IN  IF Overflows(q.key) THEN Answer(r, q, "500", FALSE, NoCookie, 0)
                               ELSE Answer(r, q, "401", FALSE, NoCookie, 1)
    /\ UNCHANGED <<sessions, minted>>

LoginBlank(r) ==
    /\ handler[r].at = "body"
    /\ Answer(r, Form(handler[r].key, "none"), "401", FALSE, NoCookie, 1)
    /\ UNCHANGED <<failures, wait, sessions, minted>>

\* The client goes away before its body is complete.
LoginAbandoned(r) ==
    /\ handler[r].at = "body"
    /\ handler' = [handler EXCEPT ![r] = Idle]
    /\ UNCHANGED <<failures, wait, sessions, minted>>

----------------------------------------------------------------------------
(* The rest of the system                                                  *)

\* The answer reaches the client, or is lost: the slot is free again.
Delivered(r) ==
    /\ handler[r].at = "answered"
    /\ handler' = [handler EXCEPT ![r] = Idle]
    /\ UNCHANGED <<failures, wait, sessions, minted>>

\* ComfyUI restarts: the store, the limiter and the open handlers are gone,
\* an answer that already left is not.
Restart ==
    /\ sessions' = {}
    /\ LimiterRestart
    /\ handler' = [r \in Req |-> IF handler[r].at = "answered" THEN handler[r] ELSE Idle]
    /\ UNCHANGED minted

Time == Elapse /\ UNCHANGED <<sessions, minted, handler>>

\* start and callback of oidc.py have the same limiter and session store (module
\* OidcLogin): they count a start or a refusal, also within a wait, and a login
\* forgets the failures of its caller and gives it a session.
OidcCounts ==
    /\ \E k \in Key : RecordFailure(k)
    /\ UNCHANGED <<sessions, minted, handler>>

OidcSignsIn ==
    /\ \E k \in Key : RecordSuccess(k)
    /\ \E t \in SessionToken \ minted :
          sessions' = sessions \cup {t} /\ minted' = minted \cup {t}
    /\ UNCHANGED handler

GateInit ==
    /\ LimiterInit
    /\ sessions = {}
    /\ minted = {}
    /\ handler = [r \in Req |-> Idle]

Request == [key : Key, cookie : Presentable, offer : Offer, html : BOOLEAN]

GateStep(r) ==
    \/ \E q \in Request : GateRequest(r, q)
    \/ TokenAccepted(r) \/ TokenRefused(r) \/ TokenUnchecked(r) \/ TokenRaised(r)
    \/ \E k \in Key : LoginPost(r, k)
    \/ LoginRight(r) \/ LoginWrong(r) \/ LoginBlank(r) \/ LoginAbandoned(r)
    \/ Delivered(r)

GateNext == (\E r \in Req : GateStep(r)) \/ OidcCounts \/ OidcSignsIn \/ Restart \/ Time

GateSpec == GateInit /\ [][GateNext]_gateVars

----------------------------------------------------------------------------
(* Properties                                                              *)

GateTypeOK ==
    /\ LimiterTypeOK
    /\ sessions \subseteq minted
    /\ minted \subseteq SessionToken
    /\ handler \in [Req -> {Idle} \cup Awaiting \cup Reading \cup Answered]

\* An answer that expires a cookie expires a dead one: no session that is in
\* the store while the answer travels, also when the cookie was looked up
\* before the await on the token check (gate.py: "A valid cookie ... is never
\* touched").
ExpiredCookieIsDead ==
    \A r \in Req : handler[r].at = "answered" /\ handler[r].expires =>
        handler[r].cookie \notin sessions \cup {NoCookie}

\* A step of the gate, the form or a restart: the OIDC routes touch no slot.
OwnStep == handler' # handler

\* The step that answers r, a request of the caller k.
AnswersNow(r, k) ==
    handler[r].at # "answered" /\ handler'[r].at = "answered" /\ handler'[r].key = k

\* The request that r answers showed what its access rests on: the static
\* credential, in resource-server mode a token of the issuer, or a live session.
Proved(r) ==
    LET a == handler'[r]
    IN  /\ a.status = "passed" =>
               \/ a.offer = "static"
               \/ a.offer = "jwt" /\ TokenMode
               \/ a.cookie \in sessions
        /\ a.issued # NoCookie => a.offer = "static"

\* Nothing passes the gate, and nothing gets a session, without a proof that holds at
\* that moment, also after an await, and also when a restart ended the session since the
\* cookie was given (gate.py, every path to `return await handler`).
AccessNeedsProof ==
    [][\A r \in Req, k \in Key : AnswersNow(r, k) => Proved(r)]_gateVars

\* How many failure lines the answer of r has to write: a refusal by the credential one,
\* whether it is a 401 or the redirect of a browser.  A request that its wait holds back is
\* not refused by its credential.  The 500 of an overflow has the line of a refused token.
LinesDue(r, k) ==
    LET a == handler'[r]
        held == handler[r].at = "idle" /\ Blocked(k)
    IN  IF \/ a.status = "401"
           \/ a.status = "login" /\ ~held
           \/ a.status = "500" /\ handler[r].at = "checking"
        THEN 1 ELSE 0

\* fail2ban and crowdsec count log lines: each refusal writes one, whichever of the two
\* log calls of the gate or the form's is on its way, and no other answer writes any.
\* That the answers of a wait are among the others is not what contrib/README.md:3 says.
OneLinePerRefusal ==
    [][\A r \in Req, k \in Key : AnswersNow(r, k) => handler'[r].lines = LinesDue(r, k)]_gateVars

\* ADR-004: the gate and the form count exactly the requests that offered a
\* credential, by header, cookie or form, and were judged and refused: no anonymous
\* probe, no request that a wait held back, no fault of the provider, no other caller.
AttemptsAreCounted ==
    [][\A k \in Key : OwnStep /\ failures[k] < CountCap =>
         (failures'[k] > failures[k] <=>
            \E r \in Req :
               /\ AnswersNow(r, k)
               /\ handler'[r].lines > 0 \/ handler'[r].status = "500"
               /\ handler'[r].offer # "none" \/ handler'[r].cookie # NoCookie)]_gateVars

\* The forms of k that passed the wait check and whose body is on its way.
OpenForms(k) == {r \in Req : handler[r].at = "body" /\ handler[r].key = k}

\* The answer of r tells its caller whether the static credential was right: it is not
\* about a token or a session, and not one that every request gets within a wait.
Tells(r) ==
    LET a == handler'[r]
    IN  /\ ~GoesToTokenCheck(a)
        /\ a.cookie \notin sessions
        /\ a.status # "429"
        /\ a.status = "login" => a.lines > 0

\* A wait opens no form and judges no header: the static credential can be tried within
\* it only by the forms that were open when it began, once each.  A token that goes to the
\* token check is not held back (ADR-008), so tokens are no part of this.
WaitHoldsGuesses ==
    [][\A k \in Key : Blocked(k) =>
         /\ OpenForms(k)' \subseteq OpenForms(k)
         /\ \A r \in Req : AnswersNow(r, k) /\ Tells(r) => r \in OpenForms(k)]_gateVars

\* gate.py:289-292 "even the *correct* credential is rejected while blocked,
\* matching the login form's own established semantics exactly": no login
\* succeeds for a caller that is in its wait.  The code breaks it: login_post
\* looks at the wait before it awaits the body, and not after.
NoLoginInWait ==
    [][\A r \in Req : handler[r].at = "body" /\ handler'[r].at = "answered"
         /\ handler'[r].status = "home" => ~Blocked(handler[r].key)]_gateVars
====
