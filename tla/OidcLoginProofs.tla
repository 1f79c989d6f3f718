---- MODULE OidcLoginProofs ----
(***************************************************************************)
(* What the OIDC login guarantees for any number of requests, callers,     *)
(* logins and restarts, and for a provider that is down, malformed or lax. *)
(*                                                                         *)
(* The inductive invariant follows a login through the system: it is in    *)
(* the store, or with one callback that took it, or it became one session, *)
(* or it is gone, and it is never at two of these places.  A second        *)
(* invariant, StoreInv, orders the starts for the cap of the store.        *)
(***************************************************************************)
EXTENDS OidcLogin, RateLimiterProofs, FiniteSetTheorems, WellFoundedInduction

InCallback(r) == handler[r].at \in CallbackStage

\* The variables but for the limiter keep their types.
Shapes ==
    /\ store \subseteq Login
    /\ born \in [Login -> 0..Cardinality(Login)]
    /\ uri \in [Login -> Uri]
    /\ closed \subseteq Login
    /\ grant \in [Login -> Person \cup {Nobody}]
    /\ spent \subseteq Login
    /\ sessions \subseteq DOMAIN owner
    /\ DOMAIN owner \subseteq SessionToken
    /\ owner \in [DOMAIN owner -> [login : Login, person : Person]]
    /\ handler \in [Req -> {Idle} \cup Starting \cup Calling \cup Answered]

\* A callback has a login of its own, which is neither in the store nor in use.
CallbacksApart ==
    /\ \A r \in Req : InCallback(r) =>
          /\ handler[r].login \notin store
          /\ Sent(handler[r].login)
          /\ \A t \in DOMAIN owner : owner[t].login # handler[r].login
          /\ handler[r].at = "jwks" => handler[r].code # NoLogin
    /\ \A r, q \in Req : InCallback(r) /\ InCallback(q)
          /\ handler[r].login = handler[q].login => r = q

\* A login in the store was started and has no session, and one with a session
\* was started.
StoreApart ==
    /\ \A s \in store : Sent(s)
    /\ \A t \in DOMAIN owner : owner[t].login \notin store /\ Sent(owner[t].login)

LoginInv ==
    /\ LimiterInv
    /\ Shapes
    /\ CallbacksApart
    /\ StoreApart
    /\ OneSessionPerLogin
    /\ SessionsAreAllowed

----------------------------------------------------------------------------
(* Facts for the steps                                                     *)

LEMMA LimiterSteps ==
    ASSUME LimiterInv,
           \/ \E k \in Key : RecordFailure(k) \/ RecordSuccess(k)
           \/ Elapse \/ LimiterRestart \/ UNCHANGED limiterVars
    PROVE  LimiterInv'
BY FailureFacts, SuccessFacts, ElapseFacts, RestartFacts, StutterFacts

LEMMA InitialInv == LoginInit => LoginInv
PROOF
<1> SUFFICES ASSUME LoginInit PROVE LoginInv
    OBVIOUS
<1>1. LimiterInv
    BY InitInv DEF LoginInit
<1>2. Cardinality(Login) \in Nat
    BY LoginAssumption, FS_CardinalityType
<1>3. \A r \in Req : handler[r] = Idle /\ handler[r].at = "idle"
    BY DEF LoginInit, Idle
<1>4. DOMAIN owner = {}
    BY DEF LoginInit
<1>5. Shapes
    BY <1>2, <1>4, LoginAssumption DEF LoginInit, Shapes
<1>6. CallbacksApart
    BY <1>3 DEF CallbacksApart, InCallback, CallbackStage
<1>7. StoreApart /\ OneSessionPerLogin /\ SessionsAreAllowed
    BY <1>4 DEF LoginInit, StoreApart, OneSessionPerLogin, SessionsAreAllowed
<1> QED BY <1>1, <1>5, <1>6, <1>7 DEF LoginInv

\* A step that changes the content of one slot and takes logins out of the
\* store: a callback that is there afterwards was there before with the same
\* login, or took its login in this step.
LEMMA SlotStep ==
    ASSUME LoginInv, LimiterInv', NEW r \in Req, NEW h,
           h \in {Idle} \cup Starting \cup Calling \cup Answered,
           handler' = [handler EXCEPT ![r] = h],
           h.at \in CallbackStage =>
              \/ /\ InCallback(r)
                 /\ h.login = handler[r].login
                 /\ h.at = "jwks" => h.code # NoLogin
              \/ h.login \in store \ store' /\ h.at # "jwks",
           spent' \subseteq Login, store' \subseteq store, closed' \subseteq Login,
           UNCHANGED <<born, uri, grant, sessionVars>>
    PROVE  LoginInv'
PROOF
<1>1. /\ Shapes /\ CallbacksApart /\ StoreApart /\ OneSessionPerLogin /\ SessionsAreAllowed
      /\ store' \subseteq store /\ born' = born /\ uri' = uri
      /\ grant' = grant /\ sessions' = sessions /\ owner' = owner
    BY DEF LoginInv, sessionVars
<1>2. handler'[r] = h /\ \A q \in Req \ {r} : handler'[q] = handler[q]
    BY <1>1 DEF Shapes
<1>3. Shapes'
    <2>1. handler' \in [Req -> {Idle} \cup Starting \cup Calling \cup Answered]
        BY <1>1 DEF Shapes
    <2> QED BY <1>1, <2>1 DEF Shapes
<1>4. \A q \in Req : InCallback(q)' =>
          \/ InCallback(q) /\ handler'[q].login = handler[q].login
          \/ q = r /\ handler'[q].login \in store \ store'
    BY <1>2 DEF InCallback
<1>5. \A q \in Req : InCallback(q)' => (handler'[q].at = "jwks" => handler'[q].code # NoLogin)
    BY <1>1, <1>2 DEF InCallback, CallbacksApart
<1>6. \A s \in store : Sent(s) /\ \A t \in DOMAIN owner : owner[t].login # s
    BY <1>1 DEF StoreApart
<1>7. CallbacksApart'
    BY <1>1, <1>4, <1>5, <1>6 DEF CallbacksApart, Sent
<1>8. StoreApart' /\ OneSessionPerLogin' /\ SessionsAreAllowed'
    BY <1>1 DEF StoreApart, OneSessionPerLogin, SessionsAreAllowed, Sent
<1> QED BY <1>3, <1>7, <1>8 DEF LoginInv

\* An answer to a caller is no callback any more.
LEMMA AnswerStep ==
    ASSUME LoginInv, LimiterInv', NEW r \in Req, NEW k \in Key, NEW status \in Status,
           Answer(r, k, status), spent' \subseteq Login,
           store' \subseteq store, closed' \subseteq Login,
           UNCHANGED <<born, uri, grant, sessionVars>>
    PROVE  LoginInv'
PROOF
<1> DEFINE h == [at |-> "answered", key |-> k, status |-> status]
<1>1. h \in Answered /\ h.at \notin CallbackStage
    BY DEF Answered, CallbackStage
<1>2. handler' = [handler EXCEPT ![r] = h]
    BY DEF Answer
<1> HIDE DEF h
<1> QED BY <1>1, <1>2, SlotStep

LEMMA RefusedStep ==
    ASSUME LoginInv, NEW r \in Req, NEW k \in Key, RefusedAs(r, k, "401"),
           spent' \subseteq Login, store' \subseteq store, closed' \subseteq Login,
           UNCHANGED <<born, uri, grant, sessionVars>>
    PROVE  LoginInv'
PROOF
<1>1. LimiterInv'
    BY LimiterSteps DEF RefusedAs, LoginInv
<1>2. (IF Overflows(k) THEN "500" ELSE "401") \in Status
    BY DEF Status
<1> QED BY <1>1, <1>2, AnswerStep DEF RefusedAs

\* The key of a request that awaits, and the login and the code of a callback.
LEMMA SlotTypes ==
    ASSUME Shapes, NEW r \in Req
    PROVE  /\ handler[r].at = "starting" => handler[r] \in Starting
           /\ InCallback(r) => handler[r] \in Calling
BY DEF Shapes, InCallback, CallbackStage, Idle, Starting, Calling, Answered

----------------------------------------------------------------------------
(* The invariant, action by action                                         *)

LEMMA StartInv ==
    ASSUME LoginInv, NEW r \in Req, NEW k \in Key, NEW origin, Start(r, k, origin)
    PROVE  LoginInv'
PROOF
<1>1. LimiterInv'
    BY LimiterSteps DEF Start, LoginInv
<1>2. /\ UNCHANGED <<born, uri, grant, sessionVars>> /\ spent' \subseteq Login
      /\ store' \subseteq store /\ closed' \subseteq Login
    BY DEF Start, storeVars, providerVars, LoginInv, Shapes
<1>3. "429" \in Status /\ "500" \in Status
    BY DEF Status
<1>4. CASE Answer(r, k, "429") \/ Answer(r, k, "500")
    BY <1>1, <1>2, <1>3, <1>4, AnswerStep
<1>5. CASE handler' = [handler EXCEPT ![r] =
              [at |-> "starting", key |-> k, uri |-> RedirectUriFor(origin)]]
    <2> DEFINE h == [at |-> "starting", key |-> k, uri |-> RedirectUriFor(origin)]
    <2>1. h \in Starting /\ h.at \notin CallbackStage
        BY LoginAssumption DEF Starting, CallbackStage, RedirectUriFor
    <2> HIDE DEF h
    <2> QED BY <1>1, <1>2, <1>5, <2>1, SlotStep DEF h
<1> QED BY <1>4, <1>5 DEF Start

LEMMA StartFailsInv ==
    ASSUME LoginInv, NEW r \in Req, StartFails(r)
    PROVE  LoginInv'
PROOF
<1>1. handler[r].key \in Key
    BY SlotTypes DEF StartFails, LoginInv, Starting
<1>2. /\ LimiterInv' /\ UNCHANGED <<born, uri, grant, sessionVars>>
      /\ spent' \subseteq Login /\ store' \subseteq store /\ closed' \subseteq Login
    BY LimiterSteps DEF StartFails, LoginInv, Shapes, storeVars, providerVars
<1>3. "503" \in Status /\ "500" \in Status
    BY DEF Status
<1> QED BY <1>1, <1>2, <1>3, AnswerStep DEF StartFails

\* A login that was never sent is nowhere.
LEMMA FreshLogin ==
    ASSUME LoginInv, NEW s \in Login, ~Sent(s)
    PROVE  /\ s \notin store
           /\ \A r \in Req : InCallback(r) => handler[r].login # s
           /\ \A t \in DOMAIN owner : owner[t].login # s
BY DEF LoginInv, StoreApart, CallbacksApart

\* The number of the next start: above all numbers given, and in range.
LEMMA NextNumber ==
    ASSUME Shapes, NEW s \in Login, ~Sent(s)
    PROVE  LET n == Cardinality({t \in Login : Sent(t)})
           IN  n \in Nat /\ n + 1 \in 1..Cardinality(Login)
PROOF
<1> DEFINE sent == {t \in Login : Sent(t)}
<1>1. IsFiniteSet(Login) /\ Cardinality(Login) \in Nat
    BY LoginAssumption, FS_CardinalityType
<1>2. sent \in SUBSET Login /\ s \notin sent
    OBVIOUS
<1>3. IsFiniteSet(sent) /\ Cardinality(sent) \in Nat
    BY <1>1, <1>2, FS_Subset, FS_CardinalityType
<1>4. Cardinality(sent \cup {s}) = Cardinality(sent) + 1
    BY <1>2, <1>3, FS_AddElement
<1>5. sent \cup {s} \in SUBSET Login
    BY <1>2
<1>6. Cardinality(sent \cup {s}) <= Cardinality(Login)
    BY <1>1, <1>5, FS_Subset
<1> QED BY <1>1, <1>3, <1>4, <1>6

LEMMA CappedSubset == \A logins : Capped(logins) \subseteq logins
BY DEF Capped

LEMMA StartRedirectsInv ==
    ASSUME LoginInv, NEW r \in Req, StartRedirects(r)
    PROVE  LoginInv'
PROOF
<1>1. /\ LimiterInv /\ Shapes /\ CallbacksApart /\ StoreApart
      /\ OneSessionPerLogin /\ SessionsAreAllowed
      /\ handler[r] \in Starting
      /\ Answer(r, handler[r].key, "redirect")
      /\ limiterVars' = limiterVars /\ grant' = grant /\ spent' = spent
      /\ sessions' = sessions /\ owner' = owner
    BY SlotTypes DEF LoginInv, StartRedirects, providerVars, sessionVars
<1>2. LimiterInv'
    BY <1>1, LimiterSteps
<1>3. PICK s \in Login : ~Sent(s) /\ Create(s, handler[r].uri)
    BY DEF StartRedirects
<1> DEFINE n == Cardinality({t \in Login : Sent(t)}) + 1
<1>4. /\ born' = [born EXCEPT ![s] = n] /\ n \in 1..Cardinality(Login)
      /\ uri' = [uri EXCEPT ![s] = handler[r].uri] /\ handler[r].uri \in Uri
      /\ store' \subseteq store \cup {s} /\ closed' = closed
    BY <1>1, <1>3, NextNumber, CappedSubset DEF Create, Starting
<1> HIDE DEF n
<1>5. /\ s \notin store
      /\ \A q \in Req : InCallback(q) => handler[q].login # s
      /\ \A t \in DOMAIN owner : owner[t].login # s
    BY <1>3, FreshLogin
<1>6. Sent(s)' /\ \A t \in Login \ {s} : Sent(t)' <=> Sent(t)
    BY <1>1, <1>4 DEF Shapes, Sent
<1>7. /\ handler'[r].at = "answered" /\ handler'[r] \in Answered
      /\ \A q \in Req \ {r} : handler'[q] = handler[q]
    BY <1>1 DEF Answer, Shapes, Answered, Starting, Status
<1>8. Shapes'
    <2>1. handler' \in [Req -> {Idle} \cup Starting \cup Calling \cup Answered]
        BY <1>1, <1>7 DEF Shapes, Answer
    <2>2. born' \in [Login -> 0..Cardinality(Login)] /\ uri' \in [Login -> Uri]
        BY <1>1, <1>4 DEF Shapes
    <2> QED BY <1>1, <1>3, <1>4, <2>1, <2>2 DEF Shapes
<1>9. \A q \in Req : InCallback(q)' => InCallback(q) /\ handler'[q] = handler[q]
    BY <1>7 DEF InCallback, CallbackStage
<1>10. \A q \in Req : InCallback(q) => handler[q].login \in Login
    BY <1>1, SlotTypes DEF Calling
<1>11. CallbacksApart'
    BY <1>1, <1>4, <1>5, <1>6, <1>9, <1>10 DEF CallbacksApart
<1>12. StoreApart' /\ OneSessionPerLogin' /\ SessionsAreAllowed'
    <2>1. \A t \in DOMAIN owner : owner[t].login \in Login
        BY <1>1 DEF Shapes
    <2> QED BY <1>1, <1>4, <1>5, <1>6, <2>1
            DEF StoreApart, OneSessionPerLogin, SessionsAreAllowed, Shapes
<1> QED BY <1>2, <1>8, <1>11, <1>12 DEF LoginInv

\* The callback takes its login out of the store in the step that finds it.
LEMMA CallbackInv ==
    ASSUME LoginInv, NEW r \in Req, NEW k \in Key, NEW s, NEW code \in Codes,
           NEW error \in BOOLEAN, Callback(r, k, s, code, error)
    PROVE  LoginInv'
PROOF
<1>1. LimiterInv'
    BY LimiterSteps DEF Callback, RefusedAs, LoginInv
<1>2. /\ store' = store \ {s} /\ store' \subseteq store /\ closed' \subseteq Login
      /\ spent' \subseteq Login /\ UNCHANGED <<born, uri, grant, sessionVars>>
    BY DEF Callback, Take, LoginInv, Shapes, providerVars
<1>3. "429" \in Status
    BY DEF Status
<1>4. CASE Answer(r, k, "429")
    BY <1>1, <1>2, <1>3, <1>4, AnswerStep
<1>5. CASE RefusedAs(r, k, "401")
    BY <1>2, <1>5, RefusedStep
<1>6. CASE /\ ~TurnedAway(s, error)
           /\ handler' = [handler EXCEPT ![r] =
                 [at |-> "discovery", key |-> k, login |-> s, code |-> code]]
    <2> DEFINE h == [at |-> "discovery", key |-> k, login |-> s, code |-> code]
    <2>1. s \in store /\ s \in Login /\ code \in Login \cup {NoLogin}
        BY <1>6 DEF TurnedAway, LoginInv, Shapes, Codes
    <2>2. h \in Calling /\ h.at # "jwks" /\ h.login = s
        BY <2>1 DEF Calling, CallbackStage
    <2>3. handler' = [handler EXCEPT ![r] = h]
        BY <1>6
    <2> HIDE DEF h
    <2> QED BY <1>1, <1>2, <2>1, <2>2, <2>3, SlotStep
<1> QED BY <1>4, <1>5, <1>6 DEF Callback

\* What the steps after the first await of a callback start from.
LEMMA CallingFacts ==
    ASSUME LoginInv, NEW r \in Req, InCallback(r)
    PROVE  /\ handler[r] \in Calling
           /\ handler[r].key \in Key /\ handler[r].login \in Login
           /\ handler[r].code \in Login \cup {NoLogin}
BY SlotTypes DEF LoginInv, Calling

\* A callback that goes on to its next read keeps its login and its code.
LEMMA MovesOnInv ==
    ASSUME LoginInv, NEW r \in Req, InCallback(r), NEW stage \in CallbackStage,
           MovesOn(r, stage), spent' \subseteq Login, UNCHANGED grant,
           stage = "jwks" => handler[r].code # NoLogin
    PROVE  LoginInv'
PROOF
<1>1. PICK q : q = handler[r]
    OBVIOUS
<1> DEFINE h == [q EXCEPT !.at = stage]
<1>2. q \in Calling
    BY <1>1, CallingFacts
<1>3. h \in Calling /\ h.login = q.login /\ h.code = q.code /\ h.at = stage
    BY <1>2 DEF Calling
<1>4. handler' = [handler EXCEPT ![r] = h]
    BY <1>1 DEF MovesOn
<1>5. /\ LimiterInv' /\ UNCHANGED <<born, uri, grant, sessionVars>>
      /\ store' \subseteq store /\ closed' \subseteq Login
    BY LimiterSteps DEF MovesOn, LoginInv, Shapes, storeVars
<1> HIDE DEF h
<1> QED BY <1>1, <1>3, <1>4, <1>5, SlotStep

LEMMA DiscoveredInv ==
    ASSUME LoginInv, NEW r \in Req, Discovered(r)
    PROVE  LoginInv'
PROOF
<1>1. InCallback(r) /\ "token" \in CallbackStage /\ "token" # "jwks"
    BY DEF Discovered, InCallback, CallbackStage
<1>2. MovesOn(r, "token") /\ spent' \subseteq Login /\ UNCHANGED grant
    BY DEF Discovered, providerVars, LoginInv, Shapes
<1> QED BY <1>1, <1>2, MovesOnInv

LEMMA ExchangedInv ==
    ASSUME LoginInv, NEW r \in Req, Exchanged(r)
    PROVE  LoginInv'
PROOF
<1>1. InCallback(r) /\ "jwks" \in CallbackStage
    BY DEF Exchanged, InCallback, CallbackStage
<1>2. handler[r].code # NoLogin /\ handler[r].code \in Login
    BY <1>1, CallingFacts DEF Exchanged, CodeIsGood
<1>3. MovesOn(r, "jwks") /\ spent' \subseteq Login /\ UNCHANGED grant
    BY <1>2 DEF Exchanged, LoginInv, Shapes
<1> QED BY <1>1, <1>2, <1>3, MovesOnInv

LEMMA CallbackRefusedInv ==
    ASSUME LoginInv, NEW r \in Req, CallbackRefused(r)
    PROVE  LoginInv'
PROOF
<1>1. InCallback(r) /\ handler[r].key \in Key /\ handler[r].code \in Login \cup {NoLogin}
    BY CallingFacts DEF CallbackRefused, InCallback, CallbackStage
<1>2. /\ spent' \subseteq Login /\ store' \subseteq store /\ closed' \subseteq Login
      /\ UNCHANGED <<born, uri, grant, sessionVars>>
    BY <1>1 DEF CallbackRefused, CodeMayBeSpent, CodeIsGood, providerVars, storeVars,
                LoginInv, Shapes
<1>3. RefusedAs(r, handler[r].key, "401")
    BY DEF CallbackRefused
<1> QED BY <1>1, <1>2, <1>3, RefusedStep

LEMMA CallbackRaisedInv ==
    ASSUME LoginInv, NEW r \in Req, CallbackRaised(r)
    PROVE  LoginInv'
PROOF
<1>1. InCallback(r) /\ handler[r].key \in Key /\ handler[r].code \in Login \cup {NoLogin}
    BY CallingFacts DEF CallbackRaised, InCallback, CallbackStage
<1>2. /\ LimiterInv' /\ spent' \subseteq Login /\ store' \subseteq store
      /\ closed' \subseteq Login /\ UNCHANGED <<born, uri, grant, sessionVars>>
    BY <1>1, LimiterSteps DEF CallbackRaised, CodeMayBeSpent, CodeIsGood, storeVars,
                LoginInv, Shapes
<1>3. Answer(r, handler[r].key, "500") /\ "500" \in Status
    BY DEF CallbackRaised, Status
<1> QED BY <1>1, <1>2, <1>3, AnswerStep

LEMMA DeliveredInv ==
    ASSUME LoginInv, NEW r \in Req, Delivered(r)
    PROVE  LoginInv'
PROOF
<1>1. Idle.at \notin CallbackStage
    BY DEF Idle, CallbackStage
<1>2. /\ LimiterInv' /\ spent' \subseteq Login /\ store' \subseteq store
      /\ closed' \subseteq Login /\ UNCHANGED <<born, uri, grant, sessionVars>>
      /\ handler' = [handler EXCEPT ![r] = Idle]
    BY LimiterSteps DEF Delivered, providerVars, storeVars, LoginInv, Shapes
<1> QED BY <1>1, <1>2, SlotStep

\* The one step that makes a session: its login has none yet, because the
\* callback kept it to itself.
LEMMA SignedInInv ==
    ASSUME LoginInv, NEW r \in Req, SignedIn(r)
    PROVE  LoginInv'
PROOF
<1>1. PICK q : q = handler[r]
    OBVIOUS
<1>2. InCallback(r) /\ q \in Calling /\ q.key \in Key /\ q.login \in Login
    BY <1>1, CallingFacts DEF SignedIn, InCallback, CallbackStage
<1>3. /\ Shapes /\ CallbacksApart /\ StoreApart /\ OneSessionPerLogin /\ SessionsAreAllowed
      /\ store' = store /\ born' = born /\ uri' = uri /\ closed' = closed
      /\ grant' = grant /\ spent' = spent
    BY DEF LoginInv, SignedIn, storeVars, providerVars
<1>4. LimiterInv'
    BY <1>1, <1>2, LimiterSteps DEF SignedIn, LoginInv
<1>5. q.code = q.login /\ grant[q.login] \in Allowed /\ grant[q.login] \in Person
    BY <1>1, LoginAssumption DEF SignedIn, Accepts, NonceMatches
<1>6. PICK t \in SessionToken \ DOMAIN owner :
          /\ sessions' = sessions \cup {t}
          /\ owner' = [u \in DOMAIN owner \cup {t} |->
                IF u = t THEN [login |-> q.login, person |-> grant[q.code]] ELSE owner[u]]
    BY <1>1 DEF SignedIn
<1>7. /\ DOMAIN owner' = DOMAIN owner \cup {t}
      /\ owner'[t] = [login |-> q.login, person |-> grant[q.login]]
      /\ \A u \in DOMAIN owner : owner'[u] = owner[u]
    BY <1>5, <1>6
<1>8. \A u \in DOMAIN owner : owner[u].login # q.login
    BY <1>1, <1>2, <1>3 DEF CallbacksApart
<1>9. /\ handler'[r].at = "answered" /\ handler'[r] \in Answered
      /\ \A p \in Req \ {r} : handler'[p] = handler[p]
    BY <1>1, <1>2, <1>3 DEF SignedIn, Answer, Shapes, Answered, Status
<1>10. Shapes'
    <2>1. handler' \in [Req -> {Idle} \cup Starting \cup Calling \cup Answered]
        BY <1>3, <1>9 DEF Shapes, SignedIn, Answer
    <2>2. owner'[t] \in [login : Login, person : Person]
        BY <1>2, <1>5, <1>7
    <2>3. owner' \in [DOMAIN owner' -> [login : Login, person : Person]]
        BY <1>3, <1>6, <1>7, <2>2 DEF Shapes
    <2>4. sessions' \subseteq DOMAIN owner' /\ DOMAIN owner' \subseteq SessionToken
        BY <1>3, <1>6, <1>7 DEF Shapes
    <2> QED BY <1>3, <2>1, <2>3, <2>4 DEF Shapes
<1>11. \A p \in Req : InCallback(p)' =>
           p # r /\ InCallback(p) /\ handler'[p] = handler[p] /\ handler[p].login # q.login
    BY <1>1, <1>2, <1>3, <1>9 DEF InCallback, CallbackStage, CallbacksApart
<1>12. CallbacksApart'
    BY <1>3, <1>7, <1>11 DEF CallbacksApart, Sent
<1>13. q.login \notin store /\ Sent(q.login)
    BY <1>1, <1>2, <1>3 DEF CallbacksApart
<1>14. StoreApart'
    BY <1>3, <1>7, <1>13 DEF StoreApart, Sent
<1>15. OneSessionPerLogin'
    BY <1>3, <1>7, <1>8 DEF OneSessionPerLogin
<1>16. SessionsAreAllowed'
    BY <1>3, <1>5, <1>7 DEF SessionsAreAllowed
<1> QED BY <1>4, <1>10, <1>12, <1>14, <1>15, <1>16 DEF LoginInv

\* A person signs in at the provider for a login that no session has yet.
LEMMA GrantInv ==
    ASSUME LoginInv, NEW s \in Login, Grant(s)
    PROVE  LoginInv'
PROOF
<1>1. /\ Shapes /\ CallbacksApart /\ StoreApart /\ OneSessionPerLogin /\ SessionsAreAllowed
      /\ store' = store /\ born' = born /\ uri' = uri /\ closed' = closed
      /\ spent' = spent /\ sessions' = sessions /\ owner' = owner /\ handler' = handler
    BY DEF LoginInv, Grant, storeVars, sessionVars
<1>2. LimiterInv'
    BY LimiterSteps DEF Grant, LoginInv
<1>3. PICK p \in Person : grant' = [grant EXCEPT ![s] = p]
    BY DEF Grant
<1>4. Shapes'
    BY <1>1, <1>3 DEF Shapes
<1>5. CallbacksApart' /\ StoreApart' /\ OneSessionPerLogin'
    BY <1>1 DEF CallbacksApart, StoreApart, OneSessionPerLogin, InCallback, Sent
<1>6. \A t \in DOMAIN owner : owner[t].login \in Login /\ owner[t].person \in Allowed
    BY <1>1 DEF Shapes, SessionsAreAllowed
<1>7. \A t \in DOMAIN owner : owner[t].login # s
    <2> SUFFICES ASSUME NEW t \in DOMAIN owner, owner[t].login = s PROVE FALSE
        OBVIOUS
    <2>1. grant[s] \in Person
        BY <1>1, <1>6, LoginAssumption DEF SessionsAreAllowed
    <2> QED BY <2>1, LoginAssumption DEF Grant, Granted
<1>8. SessionsAreAllowed'
    BY <1>1, <1>3, <1>6, <1>7 DEF SessionsAreAllowed, Shapes
<1> QED BY <1>2, <1>4, <1>5, <1>8 DEF LoginInv

LEMMA RestartInv ==
    ASSUME LoginInv, Restart
    PROVE  LoginInv'
PROOF
<1>1. /\ Shapes /\ CallbacksApart /\ StoreApart /\ OneSessionPerLogin /\ SessionsAreAllowed
      /\ store' = {} /\ born' = born /\ uri' = uri /\ closed' = closed \cup store
      /\ grant' = grant /\ spent' = spent /\ sessions' = {} /\ owner' = owner
      /\ handler' = [r \in Req |-> Idle]
    BY DEF LoginInv, Restart, providerVars
<1>2. LimiterInv'
    BY LimiterSteps DEF Restart, LoginInv
<1>3. \A r \in Req : ~InCallback(r)'
    BY <1>1 DEF InCallback, Idle, CallbackStage
<1>4. Shapes'
    BY <1>1 DEF Shapes
<1>5. CallbacksApart' /\ StoreApart' /\ OneSessionPerLogin' /\ SessionsAreAllowed'
    BY <1>1, <1>3 DEF CallbacksApart, StoreApart, OneSessionPerLogin, SessionsAreAllowed, Sent
<1> QED BY <1>2, <1>4, <1>5 DEF LoginInv

\* Time that passes, the gate, and a stutter touch the limiter at most.
LEMMA LimiterOnlyInv ==
    ASSUME LoginInv,
           \/ \E k \in Key : RecordFailure(k) \/ RecordSuccess(k)
           \/ Elapse \/ UNCHANGED limiterVars,
           UNCHANGED <<storeVars, providerVars, sessionVars, handler>>
    PROVE  LoginInv'
PROOF
<1>1. LimiterInv'
    BY LimiterSteps DEF LoginInv
<1>2. /\ store' = store /\ born' = born /\ uri' = uri /\ closed' = closed /\ grant' = grant
      /\ spent' = spent /\ sessions' = sessions /\ owner' = owner /\ handler' = handler
    BY DEF storeVars, providerVars, sessionVars
<1> QED BY <1>1, <1>2 DEF LoginInv, Shapes, CallbacksApart, StoreApart, OneSessionPerLogin,
                          SessionsAreAllowed, InCallback, Sent

LEMMA NextInv == LoginInv /\ [LoginNext]_loginVars => LoginInv'
PROOF
<1> SUFFICES ASSUME LoginInv, [LoginNext]_loginVars PROVE LoginInv'
    OBVIOUS
<1>1. ASSUME NEW r \in Req, StartStep(r) PROVE LoginInv'
    BY <1>1, StartInv, StartRedirectsInv, StartFailsInv DEF StartStep
<1>2. ASSUME NEW r \in Req, CallbackStep(r) PROVE LoginInv'
    BY <1>2, CallbackInv, DiscoveredInv, ExchangedInv, SignedInInv, CallbackRefusedInv,
       CallbackRaisedInv DEF CallbackStep
<1>3. ASSUME GateUsesLimiter \/ Time PROVE LoginInv'
    BY <1>3, LimiterOnlyInv DEF GateUsesLimiter, Time
<1>4. ASSUME UNCHANGED loginVars PROVE LoginInv'
    BY <1>4, LimiterOnlyInv DEF loginVars
<1> QED BY <1>1, <1>2, <1>3, <1>4, DeliveredInv, GrantInv, RestartInv DEF LoginNext

LEMMA LoginInvAlways == LoginSpec => []LoginInv
BY InitialInv, NextInv, PTL DEF LoginSpec

----------------------------------------------------------------------------
(* The cap of the store                                                    *)

SentLogins == {t \in Login : Sent(t)}

Younger(s) == {t \in Login : born[t] > born[s]}

\* The starts are numbered from 1 without a repetition.
InOrder ==
    /\ \A s, t \in Login : Sent(s) /\ born[s] = born[t] => s = t
    /\ \A s \in Login : born[s] <= Cardinality(SentLogins)

StoreInv == InOrder /\ StoreKeepsTheNewest

\* A set of logins that is not empty has a first one.
LEMMA OldestFacts ==
    ASSUME Shapes', NEW logins \in SUBSET Login, logins # {}
    PROVE  /\ Oldest(logins) \in logins
           /\ \A t \in logins : born'[Oldest(logins)] <= born'[t]
PROOF
<1> DEFINE numbers == {born'[t] : t \in logins}
<1>1. \A t \in Login : born'[t] \in Nat
    BY LoginAssumption, FS_CardinalityType DEF Shapes
<1>2. numbers \subseteq Nat /\ numbers # {}
    BY <1>1
<1>3. PICK n \in numbers : \A m \in numbers : <<m, n>> \notin OpToRel(<, Nat)
    BY <1>2, NatLessThanWellFounded, WFMin
<1>4. \A m \in numbers : ~(m < n)
    BY <1>2, <1>3 DEF OpToRel
<1>5. PICK s \in logins : born'[s] = n
    BY <1>3
<1>6. \A t \in logins : born'[s] <= born'[t]
    BY <1>1, <1>4, <1>5
<1> QED BY <1>6 DEF Oldest

LEMMA StoreInitial == LoginInit => StoreInv
PROOF
<1> SUFFICES ASSUME LoginInit PROVE StoreInv
    OBVIOUS
<1>1. \A s \in Login : born[s] = 0 /\ ~Sent(s)
    BY DEF LoginInit, Sent
<1>2. SentLogins = {} /\ store = {}
    BY <1>1 DEF LoginInit, SentLogins
<1>3. Cardinality({}) = 0 /\ MaxSize \in Nat
    BY FS_EmptySet, LoginAssumption
<1>4. InOrder
    BY <1>1, <1>2, <1>3 DEF InOrder
<1>5. StoreKeepsTheNewest
    BY <1>1, <1>2, <1>3 DEF StoreKeepsTheNewest
<1> QED BY <1>4, <1>5 DEF StoreInv

\* Each number of a set of logins is a natural number, and their sets finite.
LEMMA StoreTypes ==
    ASSUME Shapes
    PROVE  /\ \A s \in Login : born[s] \in Nat
           /\ \A logins \in SUBSET Login :
                 IsFiniteSet(logins) /\ Cardinality(logins) \in Nat
           /\ MaxSize \in Nat
BY LoginAssumption, FS_CardinalityType, FS_Subset DEF Shapes

\* A start adds the youngest login, and drops the oldest one if there are too
\* many: max_size younger ones are left.
LEMMA StartKeepsStore ==
    ASSUME LoginInv, LoginInv', StoreInv, NEW r \in Req, StartRedirects(r)
    PROVE  StoreInv'
PROOF
<1>1. Shapes /\ Shapes' /\ InOrder /\ StoreKeepsTheNewest /\ StoreApart
    BY DEF LoginInv, StoreInv
<1>2. PICK s \in Login : ~Sent(s) /\ Create(s, handler[r].uri)
    BY DEF StartRedirects
<1> DEFINE n == Cardinality(SentLogins) + 1
<1>3. n \in Nat /\ n > 0 /\ born' = [born EXCEPT ![s] = n] /\ closed' = closed
    BY <1>1, <1>2, StoreTypes DEF Create, SentLogins
<1>4. /\ \A t \in Login : born[t] \in Nat /\ born'[t] \in Nat
      /\ \A t \in Login : born[t] < n
      /\ born'[s] = n /\ born[s] = 0
      /\ \A t \in Login \ {s} : born'[t] = born[t]
    <2>1. \A t \in Login : born[t] \in Nat /\ born[t] <= Cardinality(SentLogins)
        BY <1>1, StoreTypes DEF InOrder
    <2>2. Cardinality(SentLogins) \in Nat
        BY <1>1, StoreTypes DEF SentLogins
    <2> QED BY <1>1, <1>2, <1>3, <2>1, <2>2 DEF Shapes, Sent
<1>5. SentLogins' = SentLogins \cup {s} /\ Cardinality(SentLogins') = n
    <2>1. SentLogins' = SentLogins \cup {s}
        BY <1>3, <1>4 DEF SentLogins, Sent
    <2>2. s \notin SentLogins /\ SentLogins \in SUBSET Login
        BY <1>2 DEF SentLogins
    <2> QED BY <1>1, <2>1, <2>2, StoreTypes, FS_AddElement
<1> HIDE DEF n
<1>6. InOrder'
    <2>1. \A t \in Login : born'[t] <= n
        BY <1>3, <1>4
    <2>2. \A t, u \in Login : Sent(t)' /\ born'[t] = born'[u] => t = u
        BY <1>1, <1>3, <1>4 DEF InOrder, Sent
    <2> QED BY <1>5, <2>1, <2>2 DEF InOrder
<1>7. \A u \in Login \ {s} : Younger(u) \subseteq Younger(u)'
    BY <1>3, <1>4 DEF Younger
<1> DEFINE all == store \cup {s}
<1>8. /\ all \in SUBSET Login /\ IsFiniteSet(all) /\ Cardinality(all) \in Nat
      /\ Cardinality(store) <= MaxSize /\ MaxSize \in Nat
      /\ s \notin store /\ Cardinality(all) = Cardinality(store) + 1
      /\ Cardinality(store) \in Nat
    <2>1. store \in SUBSET Login /\ s \notin store
        BY <1>1, <1>2 DEF Shapes, StoreApart
    <2>2. IsFiniteSet(store) /\ Cardinality(store) \in Nat /\ MaxSize \in Nat
        BY <1>1, <2>1, StoreTypes
    <2>3. IsFiniteSet(all) /\ Cardinality(all) = Cardinality(store) + 1
        BY <2>1, <2>2, FS_AddElement
    <2> QED BY <1>1, <2>1, <2>2, <2>3 DEF StoreKeepsTheNewest
<1>9. store' = Capped(all)
    BY <1>2 DEF Create
<1> HIDE DEF all
\* A login that was evicted before has at least as many younger ones now.
<1>10. ASSUME NEW u \in Login, u # s, Sent(u), u \notin store \cup closed
       PROVE  Cardinality(Younger(u)') >= MaxSize
    <2>1. Cardinality(Younger(u)) >= MaxSize
        BY <1>1, <1>10 DEF StoreKeepsTheNewest, Younger
    <2>2. Younger(u) \in SUBSET Younger(u)' /\ Younger(u)' \in SUBSET Login
          /\ Younger(u) \in SUBSET Login
        BY <1>7, <1>10 DEF Younger
    <2>3. /\ IsFiniteSet(Younger(u)') /\ Cardinality(Younger(u)') \in Nat
          /\ Cardinality(Younger(u)) \in Nat
        BY <1>1, <2>2, StoreTypes
    <2>4. Cardinality(Younger(u)) <= Cardinality(Younger(u)')
        BY <2>2, <2>3, FS_Subset
    <2> QED BY <1>8, <2>1, <2>3, <2>4
<1>11. CASE Cardinality(all) > MaxSize
    <2>0. PICK o : o = Oldest(all)
        OBVIOUS
    <2>1. store' = all \ {o}
        BY <1>9, <1>11, <2>0 DEF Capped
    <2>2. all # {}
        BY <1>8, <1>11, FS_EmptySet
    <2>3. o \in all /\ \A t \in all : born'[o] <= born'[t]
        BY <1>1, <1>8, <2>0, <2>2, OldestFacts
    <2>4. Cardinality(store') = Cardinality(all) - 1
        BY <1>8, <2>1, <2>3, FS_RemoveElement
    <2>5. Cardinality(store') <= MaxSize /\ Cardinality(store') >= MaxSize
          /\ Cardinality(store') \in Nat
        BY <1>8, <1>11, <2>4
    <2>6. \A t \in all : t \in Login /\ Sent(t)'
        BY <1>1, <1>3, <1>4, <1>8 DEF all, StoreApart, Sent
    <2>7. store' \in SUBSET Younger(o)' /\ Younger(o)' \in SUBSET Login
        BY <1>4, <1>6, <2>1, <2>3, <2>6 DEF Younger, InOrder
    <2>8. Cardinality(Younger(o)') >= MaxSize
        <3>1. IsFiniteSet(Younger(o)') /\ Cardinality(Younger(o)') \in Nat
            BY <1>1, <2>7, StoreTypes
        <3>2. Cardinality(store') <= Cardinality(Younger(o)')
            BY <2>7, <3>1, FS_Subset
        <3> QED BY <1>8, <2>5, <3>1, <3>2
    <2>9. ASSUME NEW u \in Login, Sent(u)', u \notin store' \cup closed'
          PROVE  Cardinality(Younger(u)') >= MaxSize
        <3>1. CASE u = o
            BY <2>8, <3>1
        <3>2. CASE u # o
            <4>1. u \notin all /\ u # s /\ u \notin store \cup closed
                BY <1>3, <2>1, <2>9, <3>2 DEF all
            <4>2. Sent(u)
                BY <1>4, <2>9, <4>1 DEF Sent
            <4> QED BY <1>10, <4>1, <4>2
        <3> QED BY <3>1, <3>2
    <2> QED BY <1>6, <2>5, <2>9 DEF StoreInv, StoreKeepsTheNewest, Younger
<1>12. CASE ~(Cardinality(all) > MaxSize)
    <2>1. store' = all
        BY <1>9, <1>12 DEF Capped
    <2>2. Cardinality(store') <= MaxSize
        BY <1>8, <1>12, <2>1
    <2>3. ASSUME NEW u \in Login, Sent(u)', u \notin store' \cup closed'
          PROVE  Cardinality(Younger(u)') >= MaxSize
        <3>1. u # s /\ u \notin store \cup closed
            BY <1>3, <2>1, <2>3 DEF all
        <3>2. Sent(u)
            BY <1>4, <2>3, <3>1 DEF Sent
        <3> QED BY <1>10, <3>1, <3>2
    <2> QED BY <1>6, <2>2, <2>3 DEF StoreInv, StoreKeepsTheNewest, Younger
<1> QED BY <1>11, <1>12

\* Any other step takes logins out of the store only to close them.
LEMMA TakingKeepsStore ==
    ASSUME Shapes, StoreInv, born' = born, store' \subseteq store,
           store \cup closed \subseteq store' \cup closed'
    PROVE  StoreInv'
PROOF
<1>1. store \in SUBSET Login /\ store' \in SUBSET Login
    BY DEF Shapes
<1>2. /\ IsFiniteSet(store) /\ Cardinality(store) \in Nat /\ Cardinality(store') \in Nat
      /\ MaxSize \in Nat
    BY <1>1, StoreTypes
<1>3. Cardinality(store') <= Cardinality(store)
    BY <1>2, FS_Subset
<1>4. Cardinality(store') <= MaxSize
    BY <1>2, <1>3 DEF StoreInv, StoreKeepsTheNewest
<1>5. InOrder'
    BY DEF StoreInv, InOrder, SentLogins, Sent
<1> QED BY <1>4, <1>5 DEF StoreInv, StoreKeepsTheNewest, Sent

LEMMA StoreNext == LoginInv /\ LoginInv' /\ StoreInv /\ [LoginNext]_loginVars => StoreInv'
PROOF
<1> SUFFICES ASSUME LoginInv, LoginInv', StoreInv, [LoginNext]_loginVars PROVE StoreInv'
    OBVIOUS
<1>1. Shapes
    BY DEF LoginInv
<1>2. ASSUME NEW r \in Req, StartRedirects(r) PROVE StoreInv'
    BY <1>2, StartKeepsStore
<1>3. ASSUME UNCHANGED storeVars PROVE StoreInv'
    BY <1>1, <1>3, TakingKeepsStore DEF storeVars
<1>4. ASSUME NEW s, Take(s) PROVE StoreInv'
    BY <1>1, <1>4, TakingKeepsStore DEF Take
<1>5. ASSUME Restart PROVE StoreInv'
    BY <1>1, <1>5, TakingKeepsStore DEF Restart
<1>6. ASSUME NEW r \in Req, StartStep(r) PROVE StoreInv'
    BY <1>2, <1>3, <1>6 DEF StartStep, Start, StartFails
<1>7. ASSUME NEW r \in Req, CallbackStep(r) PROVE StoreInv'
    BY <1>3, <1>4, <1>7 DEF CallbackStep, Callback, Discovered, Exchanged, SignedIn,
                            CallbackRefused, CallbackRaised, MovesOn
<1>8. ASSUME NEW r \in Req, Delivered(r) PROVE StoreInv'
    BY <1>3, <1>8 DEF Delivered
<1>9. ASSUME NEW s \in Login, Grant(s) PROVE StoreInv'
    BY <1>3, <1>9 DEF Grant
<1>10. ASSUME GateUsesLimiter \/ Time \/ UNCHANGED loginVars PROVE StoreInv'
    BY <1>3, <1>10 DEF GateUsesLimiter, Time, loginVars
<1> QED BY <1>5, <1>6, <1>7, <1>8, <1>9, <1>10 DEF LoginNext

----------------------------------------------------------------------------
(* The theorems                                                            *)

\* Every variable of the login and of its limiter keeps its type.
THEOREM LoginTypeCorrect == LoginSpec => []LoginTypeOK
PROOF
<1>1. LoginInv => LoginTypeOK
    BY DEF LoginInv, LimiterInv, Shapes, LoginTypeOK
<1> QED BY <1>1, LoginInvAlways, PTL

\* A login gives one session at most, for any number of callbacks at a time.
THEOREM LoginsAreSingleUse == LoginSpec => []OneSessionPerLogin
PROOF
<1>1. LoginInv => OneSessionPerLogin
    BY DEF LoginInv
<1> QED BY <1>1, LoginInvAlways, PTL

\* A session belongs to an allowed person who signed in for its own login, also
\* at a provider that exchanges any code that it gave.
THEOREM SessionsBelongToAllowed == LoginSpec => []SessionsAreAllowed
PROOF
<1>1. LoginInv => SessionsAreAllowed
    BY DEF LoginInv
<1> QED BY <1>1, LoginInvAlways, PTL

\* The cap of the store, for every max_size: it holds, and it drops a login only
\* after max_size younger starts.
THEOREM CapDropsTheOldest == LoginSpec => []StoreKeepsTheNewest
PROOF
<1>1. LoginInv /\ LoginInv' /\ StoreInv /\ [LoginNext]_loginVars => StoreInv'
    BY StoreNext
<1>2. StoreInv => StoreKeepsTheNewest
    BY DEF StoreInv
<1> QED BY <1>1, <1>2, StoreInitial, LoginInvAlways, PTL DEF LoginSpec
----------------------------------------------------------------------------
(* What the limiter counts                                                 *)

StartsNow(r, k) == handler[r] = Idle /\ handler'[r].at = "starting" /\ handler'[r].key = k

\* The step counts a failure of k exactly if it starts a login of k or refuses
\* a callback of k.
CountsRightly(k) ==
    failures'[k] > failures[k] <=> \E r \in Req : StartsNow(r, k) \/ AnswersNow(r, k, "401")

\* A failure counts for its caller alone, a success and a restart for nobody.
LEMMA WhatGrows ==
    ASSUME LimiterInv, NEW k \in Key, failures[k] < FloatExponents
    PROVE  /\ \A j \in Key : RecordFailure(j) => (failures'[k] > failures[k] <=> j = k)
           /\ \A j \in Key : RecordSuccess(j) => ~(failures'[k] > failures[k])
           /\ LimiterRestart => ~(failures'[k] > failures[k])
           /\ failures' = failures => ~(failures'[k] > failures[k])
PROOF
<1>1. failures \in [Key -> Nat] /\ CountCap = FloatExponents + 1 /\ FloatExponents \in Nat
    BY LimiterAssumption DEF LimiterInv, LimiterTypeOK, CountCap
<1> QED BY <1>1 DEF RecordFailure, RecordSuccess, LimiterRestart, Counted

Refusal(k) == [at |-> "answered", key |-> k, status |-> "401"]

\* A step that changes the slot r starts or refuses for nobody else.
LEMMA OneSlot ==
    ASSUME Shapes, NEW r \in Req, NEW h, handler' = [handler EXCEPT ![r] = h], NEW k \in Key
    PROVE  (\E q \in Req : StartsNow(q, k) \/ AnswersNow(q, k, "401")) <=>
              \/ handler[r] = Idle /\ h.at = "starting" /\ h.key = k
              \/ handler[r].at # "answered" /\ h = Refusal(k)
PROOF
<1>1. handler'[r] = h /\ \A q \in Req \ {r} : handler'[q] = handler[q]
    BY DEF Shapes
<1>2. \A q \in Req \ {r} : ~StartsNow(q, k) /\ ~AnswersNow(q, k, "401")
    BY <1>1 DEF StartsNow, AnswersNow, Idle
<1> QED BY <1>1, <1>2 DEF StartsNow, AnswersNow, Refusal

\* Another answer than a refusal, with no failure of k.
LEMMA OtherAnswer ==
    ASSUME Shapes, NEW r \in Req, NEW j, NEW status, status # "401", Answer(r, j, status),
           NEW k \in Key, ~(failures'[k] > failures[k])
    PROVE  CountsRightly(k)
PROOF
<1>1. PICK h : h = [at |-> "answered", key |-> j, status |-> status]
    OBVIOUS
<1>2. handler' = [handler EXCEPT ![r] = h] /\ h.at # "starting" /\ h # Refusal(k)
    BY <1>1 DEF Answer, Refusal
<1>3. ~ \E q \in Req : StartsNow(q, k) \/ AnswersNow(q, k, "401")
    BY <1>2, OneSlot
<1> QED BY <1>3 DEF CountsRightly

\* A step that starts nothing and answers nobody, with no failure of k.
LEMMA NoAnswer ==
    ASSUME NEW k \in Key, ~(failures'[k] > failures[k]),
           \A r \in Req : handler'[r] = handler[r] \/ handler'[r].at \notin {"answered", "starting"}
    PROVE  CountsRightly(k)
BY DEF CountsRightly, StartsNow, AnswersNow, Idle

\* _reject_callback counts its caller; where the count is too large it is a 500.
LEMMA RefusalCounts ==
    ASSUME LoginInv, NEW r \in Req, handler[r].at # "answered", NEW j \in Key,
           RefusedAs(r, j, "401"), NEW k \in Key, failures[k] < FloatExponents
    PROVE  CountsRightly(k)
PROOF
<1>1. RecordFailure(j) /\ LimiterInv /\ Shapes
    BY DEF RefusedAs, LoginInv
<1>2. failures'[k] > failures[k] <=> j = k
    BY <1>1, WhatGrows
<1>3. CASE Overflows(j)
    <2>1. j # k
        BY <1>1, <1>3, LimiterAssumption DEF Overflows, LimiterInv, LimiterTypeOK, CountCap
    <2> QED BY <1>1, <1>2, <1>3, <2>1, OtherAnswer DEF RefusedAs
<1>4. CASE ~Overflows(j)
    <2>1. PICK h : h = [at |-> "answered", key |-> j, status |-> "401"]
        OBVIOUS
    <2>2. handler' = [handler EXCEPT ![r] = h] /\ h.at # "starting"
          /\ (h = Refusal(k) <=> j = k)
        BY <1>4, <2>1 DEF RefusedAs, Answer, Refusal
    <2>3. (\E q \in Req : StartsNow(q, k) \/ AnswersNow(q, k, "401")) <=> j = k
        BY <1>1, <2>2, OneSlot
    <2> QED BY <1>2, <2>3 DEF CountsRightly
<1> QED BY <1>3, <1>4

LEMMA StartCounts ==
    ASSUME LoginInv, NEW r \in Req, NEW j \in Key, NEW origin, Start(r, j, origin),
           NEW k \in Key, failures[k] < FloatExponents
    PROVE  CountsRightly(k)
PROOF
<1>1. LimiterInv /\ Shapes /\ handler[r] = Idle
    BY DEF LoginInv, Start
<1>2. CASE Blocked(j)
    <2>1. Answer(r, j, "429") /\ ~(failures'[k] > failures[k])
        BY <1>1, <1>2, WhatGrows DEF Start, limiterVars
    <2> QED BY <1>1, <2>1, OtherAnswer
<1>3. CASE ~Blocked(j)
    <2>1. RecordFailure(j) /\ (failures'[k] > failures[k] <=> j = k)
        BY <1>1, <1>3, WhatGrows DEF Start
    <2>2. CASE Overflows(j)
        <3>1. j # k
            BY <1>1, <2>2, LimiterAssumption DEF Overflows, LimiterInv, LimiterTypeOK, CountCap
        <3>2. Answer(r, j, "500")
            BY <1>3, <2>2 DEF Start
        <3> QED BY <1>1, <2>1, <3>1, <3>2, OtherAnswer
    <2>3. CASE ~Overflows(j)
        <3>1. PICK h : h = [at |-> "starting", key |-> j, uri |-> RedirectUriFor(origin)]
            OBVIOUS
        <3>2. handler' = [handler EXCEPT ![r] = h] /\ h.at = "starting" /\ h.key = j
                  /\ h # Refusal(k)
            BY <1>3, <2>3, <3>1 DEF Start, Refusal
        <3>3. (\E q \in Req : StartsNow(q, k) \/ AnswersNow(q, k, "401")) <=> j = k
            BY <1>1, <3>2, OneSlot
        <3> QED BY <2>1, <3>3 DEF CountsRightly
    <2> QED BY <2>2, <2>3
<1> QED BY <1>2, <1>3

LEMMA StartStepCounts ==
    ASSUME LoginInv, NEW r \in Req, StartStep(r), NEW k \in Key, failures[k] < FloatExponents
    PROVE  CountsRightly(k)
PROOF
<1>1. LimiterInv /\ Shapes
    BY DEF LoginInv
<1>2. ASSUME StartRedirects(r) \/ StartFails(r) PROVE CountsRightly(k)
    <2>1. ~(failures'[k] > failures[k])
        BY <1>1, <1>2, WhatGrows DEF StartRedirects, StartFails, limiterVars
    <2>2. PICK status \in {"redirect", "503", "500"} : Answer(r, handler[r].key, status)
        BY <1>2 DEF StartRedirects, StartFails
    <2> QED BY <1>1, <2>1, <2>2, OtherAnswer
<1> QED BY <1>2, StartCounts DEF StartStep

LEMMA CallbackCounts ==
    ASSUME LoginInv, NEW r \in Req, NEW j \in Key, NEW s, NEW code, NEW error,
           Callback(r, j, s, code, error), NEW k \in Key, failures[k] < FloatExponents
    PROVE  CountsRightly(k)
PROOF
<1>1. LimiterInv /\ Shapes /\ handler[r].at # "answered"
    BY DEF LoginInv, Callback, Idle
<1>2. CASE TurnedAway(s, error) /\ Blocked(j)
    <2>1. Answer(r, j, "429") /\ ~(failures'[k] > failures[k])
        BY <1>1, <1>2, WhatGrows DEF Callback, limiterVars
    <2> QED BY <1>1, <2>1, OtherAnswer
<1>3. CASE TurnedAway(s, error) /\ ~Blocked(j)
    BY <1>1, <1>3, RefusalCounts DEF Callback
<1>4. CASE ~TurnedAway(s, error)
    <2>1. ~(failures'[k] > failures[k])
        BY <1>1, <1>4, WhatGrows DEF Callback, limiterVars
    <2>2. PICK h : h.at = "discovery" /\ handler' = [handler EXCEPT ![r] = h]
        BY <1>4 DEF Callback
    <2>3. \A q \in Req : handler'[q] = handler[q] \/ handler'[q].at \notin {"answered", "starting"}
        BY <1>1, <2>2 DEF Shapes
    <2> QED BY <2>1, <2>3, NoAnswer
<1> QED BY <1>2, <1>3, <1>4

LEMMA CallbackStepCounts ==
    ASSUME LoginInv, NEW r \in Req, CallbackStep(r), NEW k \in Key, failures[k] < FloatExponents
    PROVE  CountsRightly(k)
PROOF
<1>1. LimiterInv /\ Shapes
    BY DEF LoginInv
<1>2. ASSUME NEW j \in Key, NEW s, NEW code, NEW error, Callback(r, j, s, code, error)
      PROVE  CountsRightly(k)
    BY <1>2, CallbackCounts
<1>3. CASE Discovered(r) \/ Exchanged(r)
    <2>1. ~(failures'[k] > failures[k])
        BY <1>1, <1>3, WhatGrows DEF Discovered, Exchanged, MovesOn, limiterVars
    <2>2. PICK stage \in {"token", "jwks"} : handler' = [handler EXCEPT ![r].at = stage]
        BY <1>3 DEF Discovered, Exchanged, MovesOn
    <2>3. handler[r] \in Calling
        BY <1>3, CallingFacts DEF Discovered, Exchanged, InCallback, CallbackStage
    <2>4. \A q \in Req : handler'[q] = handler[q] \/ handler'[q].at \notin {"answered", "starting"}
        BY <1>1, <2>2, <2>3 DEF Shapes, Calling
    <2> QED BY <2>1, <2>4, NoAnswer
<1>4. CASE SignedIn(r)
    <2>1. handler[r].key \in Key
        BY <1>4, CallingFacts DEF SignedIn, InCallback, CallbackStage
    <2>2. Answer(r, handler[r].key, "signed in") /\ ~(failures'[k] > failures[k])
        BY <1>1, <1>4, <2>1, WhatGrows DEF SignedIn
    <2> QED BY <1>1, <2>2, OtherAnswer
<1>5. CASE CallbackRefused(r)
    <2>1. handler[r].key \in Key /\ handler[r].at # "answered"
        BY <1>5, CallingFacts DEF CallbackRefused, InCallback, CallbackStage
    <2>2. RefusedAs(r, handler[r].key, "401")
        BY <1>5 DEF CallbackRefused
    <2> QED BY <2>1, <2>2, RefusalCounts
<1>6. CASE CallbackRaised(r)
    <2>1. Answer(r, handler[r].key, "500") /\ ~(failures'[k] > failures[k])
        BY <1>1, <1>6, WhatGrows DEF CallbackRaised, limiterVars
    <2> QED BY <1>1, <2>1, OtherAnswer
<1> QED BY <1>2, <1>3, <1>4, <1>5, <1>6 DEF CallbackStep

LEMMA OtherStepCounts ==
    ASSUME LoginInv, \/ \E r \in Req : Delivered(r)
                     \/ \E s \in Login : Grant(s)
                     \/ Restart \/ Time \/ UNCHANGED loginVars,
           NEW k \in Key, failures[k] < FloatExponents
    PROVE  CountsRightly(k)
PROOF
<1>1. ~(failures'[k] > failures[k])
    BY WhatGrows DEF Delivered, Grant, Restart, Time, Elapse, loginVars, limiterVars, LoginInv
<1>2. Idle.at \notin {"answered", "starting"}
    BY DEF Idle
<1>3. ASSUME NEW q \in Req
      PROVE  handler'[q] = handler[q] \/ handler'[q].at \notin {"answered", "starting"}
    BY <1>2 DEF Delivered, Grant, Restart, Time, loginVars, LoginInv, Shapes
<1> QED BY <1>1, <1>3, NoAnswer

\* The routes count each start outside a wait and each refused callback, and
\* nothing else, for any number of both at a time, whatever the provider does and
\* however the gate uses the limiter meanwhile.
THEOREM CountsAreStartsAndRefusals == LoginSpec => StartsAndRefusalsCount
PROOF
<1>1. LoginInv /\ [LoginNext]_loginVars
        => \A k \in Key : handler' # handler /\ failures[k] < FloatExponents => CountsRightly(k)
    BY StartStepCounts, CallbackStepCounts, OtherStepCounts DEF LoginNext, GateUsesLimiter
<1>2. LoginInv /\ [LoginNext]_loginVars
        => [\A k \in Key : handler' # handler /\ failures[k] < FloatExponents =>
              (failures'[k] > failures[k] <=>
                 \E r \in Req :
                    \/ handler[r] = Idle /\ handler'[r].at = "starting" /\ handler'[r].key = k
                    \/ AnswersNow(r, k, "401"))]_loginVars
    BY <1>1 DEF CountsRightly, StartsNow
<1> QED BY LoginInvAlways, <1>2, PTL DEF LoginSpec, StartsAndRefusalsCount

----------------------------------------------------------------------------
(* A login at a provider that works                                        *)

\* A code that is spent was the one of its login: that login is out of the
\* store, and its callback is past the exchange.
SpentApart ==
    \A s \in spent :
        /\ Sent(s) /\ s \notin store
        /\ \A r \in Req : handler[r].at \in {"discovery", "token"} => handler[r].login # s

\* A step that spends no code, and whose callbacks before the exchange were
\* there before or took their login in this step.
LEMMA SpentKept ==
    ASSUME SpentApart, spent' = spent,
           \A s \in Login : Sent(s) => born'[s] = born[s],
           spent \subseteq Login,
           \A s \in store' : s \in store \/ ~Sent(s),
           \A r \in Req : handler'[r].at \in {"discovery", "token"} =>
               \/ handler[r].at \in {"discovery", "token"} /\ handler'[r].login = handler[r].login
               \/ handler'[r].login \in store
    PROVE  SpentApart'
BY DEF SpentApart, Sent

LEMMA SpentStep ==
    ASSUME LoginInv, SpentApart, [LoginNext]_loginVars, Faults = {}
    PROVE  SpentApart'
PROOF
<1>1. Shapes /\ CallbacksApart /\ spent \subseteq Login
    BY DEF LoginInv, Shapes
<1>2. ASSUME NEW r \in Req, NEW h, handler' = [handler EXCEPT ![r] = h],
             spent' = spent, born' = born, store' \subseteq store,
             h.at \in {"discovery", "token"} =>
               \/ handler[r].at \in {"discovery", "token"} /\ h.login = handler[r].login
               \/ h.login \in store
      PROVE  SpentApart'
    <2>1. handler'[r] = h /\ \A q \in Req \ {r} : handler'[q] = handler[q]
        BY <1>1, <1>2 DEF Shapes
    <2> QED BY <1>1, <1>2, <2>1, SpentKept
<1>3. ASSUME NEW r \in Req, NEW j, NEW status, Answer(r, j, status),
             spent' = spent, born' = born, store' \subseteq store
      PROVE  SpentApart'
    <2>1. PICK h : h = [at |-> "answered", key |-> j, status |-> status]
        OBVIOUS
    <2>2. handler' = [handler EXCEPT ![r] = h] /\ h.at \notin {"discovery", "token"}
        BY <1>3, <2>1 DEF Answer
    <2> QED BY <1>2, <1>3, <2>2
<1>4. ASSUME NEW r \in Req, StartRedirects(r) PROVE SpentApart'
    <2>1. PICK s \in Login : ~Sent(s) /\ Create(s, handler[r].uri)
        BY <1>4 DEF StartRedirects
    <2>2. \A t \in Login : Sent(t) => born'[t] = born[t]
        BY <1>1, <2>1 DEF Create, Shapes
    <2>3. store' \subseteq store \cup {s}
        BY <2>1, CappedSubset DEF Create
    <2>4. PICK h : h.at = "answered" /\ handler' = [handler EXCEPT ![r] = h]
        BY <1>4 DEF StartRedirects, Answer
    <2>5. handler'[r].at = "answered" /\ \A q \in Req \ {r} : handler'[q] = handler[q]
        BY <1>1, <2>4 DEF Shapes
    <2>6. spent' = spent
        BY <1>4 DEF StartRedirects, providerVars
    <2> QED BY <1>1, <2>1, <2>2, <2>3, <2>5, <2>6, SpentKept
<1>5. ASSUME NEW r \in Req, StartStep(r) PROVE SpentApart'
    <2>1. ASSUME NEW j \in Key, NEW origin, Start(r, j, origin) PROVE SpentApart'
        <3>1. spent' = spent /\ born' = born /\ store' \subseteq store
            BY <2>1 DEF Start, providerVars, storeVars
        <3>2. (\E status : Answer(r, j, status))
                \/ \E h : h.at = "starting" /\ handler' = [handler EXCEPT ![r] = h]
            BY <2>1 DEF Start
        <3> QED BY <1>2, <1>3, <3>1, <3>2
    <2> QED BY <1>4, <1>5, <2>1 DEF StartStep, StartFails
<1>6. ASSUME NEW r \in Req, NEW j \in Key, NEW s, NEW code, NEW error, Callback(r, j, s, code, error)
      PROVE  SpentApart'
    <2>1. spent' = spent /\ born' = born /\ store' \subseteq store
        BY <1>6 DEF Callback, Take, providerVars
    <2>2. CASE TurnedAway(s, error)
        BY <1>3, <1>6, <2>1, <2>2 DEF Callback, RefusedAs
    <2>3. CASE ~TurnedAway(s, error)
        <3>1. PICK h : h.at = "discovery" /\ h.login = s /\ handler' = [handler EXCEPT ![r] = h]
            BY <1>6, <2>3 DEF Callback
        <3> QED BY <1>2, <2>1, <2>3, <3>1 DEF TurnedAway
    <2> QED BY <2>2, <2>3
<1>7. ASSUME NEW r \in Req, Discovered(r) PROVE SpentApart'
    <2>1. handler[r] \in Calling
        BY <1>7, CallingFacts DEF Discovered, InCallback, CallbackStage
    <2>2. PICK h : h = [handler[r] EXCEPT !.at = "token"]
        OBVIOUS
    <2>3. h.login = handler[r].login /\ handler' = [handler EXCEPT ![r] = h]
        BY <1>7, <2>1, <2>2 DEF Discovered, MovesOn, Calling
    <2>4. spent' = spent /\ born' = born /\ store' \subseteq store
        BY <1>7 DEF Discovered, MovesOn, providerVars, storeVars
    <2> QED BY <1>2, <1>7, <2>3, <2>4 DEF Discovered
<1>8. ASSUME NEW r \in Req, Exchanged(r) PROVE SpentApart'
    <2>1. PICK s : s = handler[r].login
        OBVIOUS
    <2>2. InCallback(r) /\ handler[r] \in Calling /\ s \in Login
        BY <1>8, <2>1, CallingFacts DEF Exchanged, InCallback, CallbackStage
    <2>3. spent' = spent \cup {s} /\ born' = born /\ store' = store
        BY <1>8, <2>1 DEF Exchanged, CodeIsGood, MovesOn, storeVars
    <2>4. handler'[r].at = "jwks" /\ \A q \in Req \ {r} : handler'[q] = handler[q]
        BY <1>1, <1>8, <2>2 DEF Exchanged, MovesOn, Shapes, Calling
    <2>5. Sent(s) /\ s \notin store
        BY <1>1, <2>1, <2>2 DEF CallbacksApart
    <2>6. \A q \in Req \ {r} : handler[q].at \in {"discovery", "token"} => handler[q].login # s
        BY <1>1, <2>1, <2>2 DEF CallbacksApart, InCallback, CallbackStage
    <2> QED BY <2>3, <2>4, <2>5, <2>6 DEF SpentApart, Sent
<1>9. ASSUME NEW r \in Req, SignedIn(r) \/ CallbackRefused(r) \/ CallbackRaised(r)
      PROVE  SpentApart'
    BY <1>3, <1>9 DEF SignedIn, CallbackRefused, CallbackRaised, RefusedAs, providerVars, storeVars
<1>10. ASSUME NEW r \in Req, Delivered(r) PROVE SpentApart'
    <2>1. Idle.at \notin {"discovery", "token"}
        BY DEF Idle
    <2> QED BY <1>2, <1>10, <2>1 DEF Delivered, providerVars, storeVars
<1>11. ASSUME Restart PROVE SpentApart'
    <2>1. \A r \in Req : handler'[r].at = "idle"
        BY <1>11 DEF Restart, Idle
    <2> QED BY <1>1, <1>11, <2>1, SpentKept DEF Restart, providerVars
<1>12. ASSUME \/ \E s \in Login : Grant(s)
              \/ GateUsesLimiter \/ Time \/ UNCHANGED loginVars
       PROVE  SpentApart'
    BY <1>12 DEF Grant, GateUsesLimiter, Time, loginVars, storeVars, providerVars, SpentApart, Sent
<1> QED BY <1>5, <1>6, <1>7, <1>8, <1>9, <1>10, <1>11, <1>12 DEF LoginNext, CallbackStep

LEMMA SpentInitial == LoginInit => SpentApart
BY DEF LoginInit, SpentApart

\* The answer to a callback that carries the code of its own login.
LEMMA GoodCallbackStep ==
    ASSUME LoginInv, SpentApart, LoginNext, Faults = {}, NEW r \in Req, NEW k, NEW status,
           AnswersNow(r, k, status), InCallback(r),
           handler[r].code = handler[r].login, grant[handler[r].login] \in Allowed
    PROVE  status = "signed in"
PROOF
<1>1. Shapes /\ handler[r].login \in Login /\ handler[r] # Idle /\ handler'[r] # handler[r]
    BY CallingFacts DEF LoginInv, InCallback, CallbackStage, Idle, AnswersNow
<1>2. ASSUME NEW q \in Req, q # r, StartStep(q) \/ CallbackStep(q) \/ Delivered(q) PROVE FALSE
    <2>1. \E h : handler' = [handler EXCEPT ![q] = h]
        BY <1>2 DEF StartStep, Start, StartRedirects, StartFails, CallbackStep, Callback, Discovered,
                    Exchanged, SignedIn, CallbackRefused, CallbackRaised, MovesOn, RefusedAs, Answer,
                    Delivered
    <2> QED BY <1>1, <1>2, <2>1 DEF Shapes
<1>3. ~StartStep(r) /\ ~Delivered(r)
    BY <1>1 DEF StartStep, Start, StartRedirects, StartFails, Delivered, AnswersNow, InCallback,
                CallbackStage
<1>4. CallbackStep(r)
    <2>1. ~Restart
        BY DEF Restart, AnswersNow, Idle
    <2>2. handler' # handler
        BY <1>1
    <2> QED BY <1>2, <1>3, <2>1, <2>2 DEF LoginNext, Grant, GateUsesLimiter, Time
<1>5. ~ \E j \in Key, s \in States, code \in Codes, error \in BOOLEAN : Callback(r, j, s, code, error)
    BY <1>1 DEF Callback
<1>6. ~Discovered(r) /\ ~Exchanged(r)
    <2>1. handler[r] \in Calling
        BY CallingFacts
    <2>2. \A stage \in {"token", "jwks"} : MovesOn(r, stage) => handler'[r].at = stage
        BY <1>1, <2>1 DEF MovesOn, Shapes, Calling
    <2> QED BY <2>2 DEF Discovered, Exchanged, AnswersNow
<1>7. ~CallbackRaised(r)
    BY DEF CallbackRaised
<1>8. ~CallbackRefused(r)
    <2>1. handler[r].at = "token" => CodeIsGood(handler[r])
        BY <1>1, LoginAssumption DEF CodeIsGood, SpentApart, UriSent
    <2>2. handler[r].at = "jwks" => Accepts(handler[r])
        BY DEF Accepts, NonceMatches
    <2> QED BY <2>1, <2>2 DEF CallbackRefused
<1>9. SignedIn(r)
    BY <1>4, <1>5, <1>6, <1>7, <1>8 DEF CallbackStep
<1>10. handler'[r].status = "signed in"
    BY <1>1, <1>9 DEF SignedIn, Answer, Shapes
<1>11. handler'[r].status = status
    BY DEF AnswersNow
<1> QED BY <1>10, <1>11

\* At a provider that works and exchanges a code once, a person who is allowed
\* and comes back with the code of its own login gets its session, however many
\* failures its caller has and whatever other callbacks do meanwhile.
THEOREM GoodLoginsSucceed ==
    ASSUME Faults = {}
    PROVE  LoginSpec => NoGoodLoginIsRefused
PROOF
<1> DEFINE Step == \A r \in Req :
         /\ \A k \in Key, s \in store, code \in Codes :
               Callback(r, k, s, code, FALSE) => handler'[r].at = "discovery"
         /\ \A k \in Key, status \in Status :
               /\ AnswersNow(r, k, status)
               /\ handler[r].at \in CallbackStage
               /\ handler[r].code = handler[r].login
               /\ grant[handler[r].login] \in Allowed
               => status = "signed in"
<1>1. LoginInv /\ SpentApart /\ [LoginNext]_loginVars => SpentApart'
    BY SpentStep
<1>2. LoginInv /\ SpentApart /\ [LoginNext]_loginVars => [Step]_loginVars
    <2> SUFFICES ASSUME LoginInv, SpentApart, LoginNext, NEW r \in Req
                 PROVE  /\ \A k \in Key, s \in store, code \in Codes :
                              Callback(r, k, s, code, FALSE) => handler'[r].at = "discovery"
                        /\ \A k \in Key, status \in Status :
                              /\ AnswersNow(r, k, status)
                              /\ handler[r].at \in CallbackStage
                              /\ handler[r].code = handler[r].login
                              /\ grant[handler[r].login] \in Allowed
                              => status = "signed in"
        OBVIOUS
    <2>1. ASSUME NEW k \in Key, NEW s \in store, NEW code \in Codes, Callback(r, k, s, code, FALSE)
          PROVE  handler'[r].at = "discovery"
        BY <2>1 DEF Callback, TurnedAway, LoginInv, Shapes
    <2> QED BY <2>1, GoodCallbackStep DEF InCallback
<1> QED BY <1>1, <1>2, SpentInitial, LoginInvAlways, PTL DEF LoginSpec, NoGoodLoginIsRefused


----------------------------------------------------------------------------
(* The limiter inside the login                                            *)

\* Every step of the routes is a step of the limiter or leaves it alone.
LEMMA LoginStepLimits ==
    ASSUME LoginInv, [LoginNext]_loginVars
    PROVE  [LimiterNext]_limiterVars
PROOF
<1>1. ASSUME NEW r \in Req, StartStep(r) PROVE [LimiterNext]_limiterVars
    BY <1>1 DEF StartStep, Start, StartRedirects, StartFails, LimiterNext
<1>2. ASSUME NEW r \in Req, InCallback(r) PROVE handler[r].key \in Key
    BY <1>2, CallingFacts
<1>3. ASSUME NEW r \in Req, CallbackStep(r) PROVE [LimiterNext]_limiterVars
    <2>1. CASE \E k \in Key, s \in States, code \in Codes, error \in BOOLEAN :
                  Callback(r, k, s, code, error)
        BY <2>1 DEF Callback, RefusedAs, LimiterNext
    <2>2. CASE Discovered(r) \/ Exchanged(r) \/ CallbackRaised(r)
        BY <2>2 DEF Discovered, Exchanged, CallbackRaised, MovesOn
    <2>3. CASE SignedIn(r) \/ CallbackRefused(r)
        BY <1>2, <2>3 DEF SignedIn, CallbackRefused, RefusedAs, LimiterNext, InCallback,
                          CallbackStage
    <2> QED BY <1>3, <2>1, <2>2, <2>3 DEF CallbackStep
<1>4. ASSUME \/ \E r \in Req : Delivered(r)
             \/ \E s \in Login : Grant(s)
             \/ GateUsesLimiter \/ Restart \/ Time \/ UNCHANGED loginVars
      PROVE  [LimiterNext]_limiterVars
    BY <1>4 DEF Delivered, Grant, GateUsesLimiter, Restart, Time, loginVars, LimiterNext
<1> QED BY <1>1, <1>3, <1>4 DEF LoginNext

\* The OIDC routes use the limiter as RateLimiter says: what is proved of the
\* limiter alone holds of it here, in every interleaving of the routes.
THEOREM LoginImplementsLimiter == LoginSpec => LimiterSpec
PROOF
<1>1. LoginInit => LimiterInit
    BY DEF LoginInit
<1>2. LoginInv /\ [LoginNext]_loginVars => [LimiterNext]_limiterVars
    BY LoginStepLimits
<1> QED BY <1>1, <1>2, LoginInvAlways, PTL DEF LoginSpec, LimiterSpec

\* No start and no refused callback leaves a wait that is longer than the
\* delay of its failures.
THEOREM LoginWaitsAreBounded == LoginSpec => []WaitWithinDelay
BY LoginImplementsLimiter, WaitIsBounded, PTL

\* No start and no callback shortens the wait of its caller by failing.
THEOREM LoginWaitsOnlyGrow == LoginSpec => FailureNeverShortensWait
BY LoginImplementsLimiter, WaitsOnlyGrow, PTL


----------------------------------------------------------------------------
(* What the gate assumes of the routes                                     *)

\* The two steps of module Gate for the routes (OidcCounts, OidcSignsIn), a
\* restart, or a step that leaves the limiter and the sessions alone.
AsTheGateExpects ==
    \/ (\E k \in Key : RecordFailure(k)) /\ sessions' = sessions
    \/ /\ \E k \in Key : RecordSuccess(k)
       /\ \E t \in SessionToken \ DOMAIN owner : sessions' = sessions \cup {t}
    \/ LimiterRestart /\ sessions' = {}
    \/ UNCHANGED limiterVars /\ sessions' = sessions

\* __init__.py:110: the routes use the shared limiter and session store as the
\* gate's model says.  A wait ends early only with a session that is new.
THEOREM RoutesDoAsTheGateExpects ==
    LoginSpec => [][handler' # handler => AsTheGateExpects]_loginVars
PROOF
<1>1. ASSUME LoginInv, NEW r \in Req, StartStep(r) PROVE AsTheGateExpects
    BY <1>1 DEF StartStep, Start, StartRedirects, StartFails, AsTheGateExpects, sessionVars
<1>2. ASSUME LoginInv, NEW r \in Req, InCallback(r) PROVE handler[r].key \in Key
    BY <1>2, CallingFacts
<1>3. ASSUME LoginInv, NEW r \in Req, CallbackStep(r) PROVE AsTheGateExpects
    <2>1. CASE \E k \in Key, s \in States, code \in Codes, error \in BOOLEAN :
                  Callback(r, k, s, code, error)
        BY <2>1 DEF Callback, RefusedAs, AsTheGateExpects, sessionVars
    <2>2. CASE Discovered(r) \/ Exchanged(r) \/ CallbackRaised(r)
        BY <2>2 DEF Discovered, Exchanged, CallbackRaised, MovesOn, AsTheGateExpects, sessionVars
    <2>3. CASE SignedIn(r)
        BY <1>2, <1>3, <2>3 DEF SignedIn, AsTheGateExpects, InCallback, CallbackStage
    <2>4. CASE CallbackRefused(r)
        BY <1>2, <1>3, <2>4 DEF CallbackRefused, RefusedAs, AsTheGateExpects, InCallback,
                                CallbackStage, sessionVars
    <2> QED BY <1>3, <2>1, <2>2, <2>3, <2>4 DEF CallbackStep
<1>4. ASSUME NEW r \in Req, Delivered(r) PROVE AsTheGateExpects
    BY <1>4 DEF Delivered, AsTheGateExpects, sessionVars
<1>5. ASSUME Restart PROVE AsTheGateExpects
    BY <1>5 DEF Restart, AsTheGateExpects
<1>6. ASSUME \/ \E s \in Login : Grant(s)
             \/ GateUsesLimiter \/ Time
      PROVE  handler' = handler
    BY <1>6 DEF Grant, GateUsesLimiter, Time
<1>7. LoginInv /\ [LoginNext]_loginVars => [handler' # handler => AsTheGateExpects]_loginVars
    BY <1>1, <1>3, <1>4, <1>5, <1>6 DEF LoginNext
<1> QED BY <1>7, LoginInvAlways, PTL DEF LoginSpec
====
