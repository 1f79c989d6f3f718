---- MODULE OneTimeProofs ----
(***************************************************************************)
(* The OIDC routes implement OneTimeLogin: each of their steps moves one   *)
(* login from a phase to the next, or moves none.                          *)
(***************************************************************************)
EXTENDS OidcLoginProofs

Held(s) == \E r \in Req : InCallback(r) /\ handler[r].login = s

Owned(s) == \E t \in DOMAIN owner : owner[t].login = s

phases == [s \in Login |-> Phase(s)]

\* The four places of a login are apart, so that the order in which Phase looks
\* at them does not matter.
PhasesApart ==
    \A s \in Login :
        /\ Phase(s) = "taken" <=> Held(s)
        /\ Phase(s) = "granted" <=> Owned(s)
        /\ Phase(s) = "open" <=> s \in store
        /\ Phase(s) = "unused" <=> ~Sent(s)
        /\ Phase(s) \in {"unused", "open", "taken", "granted", "closed"}

LEMMA PhaseFacts == LoginInv => PhasesApart
PROOF
<1> SUFFICES ASSUME LoginInv, NEW s \in Login
             PROVE  /\ Phase(s) = "taken" <=> Held(s)
                    /\ Phase(s) = "granted" <=> Owned(s)
                    /\ Phase(s) = "open" <=> s \in store
                    /\ Phase(s) = "unused" <=> ~Sent(s)
                    /\ Phase(s) \in {"unused", "open", "taken", "granted", "closed"}
    BY DEF PhasesApart
<1>1. /\ Held(s) => Sent(s) /\ ~Owned(s) /\ s \notin store
      /\ Owned(s) => Sent(s) /\ s \notin store
      /\ s \in store => Sent(s)
    BY DEF LoginInv, CallbacksApart, StoreApart, Held, Owned
<1>2. Phase(s) = IF Held(s) THEN "taken" ELSE IF Owned(s) THEN "granted"
                 ELSE IF s \in store THEN "open" ELSE IF Sent(s) THEN "closed" ELSE "unused"
    BY DEF Phase, Held, Owned, InCallback
<1> QED BY <1>1, <1>2

LEMMA PhaseFactsNext == LoginInv' => PhasesApart'
BY PhaseFacts, PTL

\* The phase of a login changes only with its places.
LEMMA SamePhase ==
    ASSUME PhasesApart, PhasesApart', NEW s \in Login,
           Held(s)' <=> Held(s), Owned(s)' <=> Owned(s), s \in store' <=> s \in store,
           Sent(s)' <=> Sent(s)
    PROVE  Phase(s)' = Phase(s)
BY DEF PhasesApart

\* The logins of the store are the open ones.
LEMMA OpenIsStore ==
    ASSUME LoginInv
    PROVE  Once!Open = store
BY PhaseFacts DEF Once!Open, PhasesApart, LoginInv, Shapes

----------------------------------------------------------------------------
(* The steps of OneTimeLogin, on the phases                                *)

Stays == phases' = phases /\ owner' = owner /\ sessions' = sessions

LEMMA StaysIsStutter == Stays => UNCHANGED Once!onceVars
BY DEF Stays, phases, Once!onceVars

LEMMA TakeIsNext ==
    ASSUME NEW s \in Login, phases[s] = "open", phases' = [phases EXCEPT ![s] = "taken"],
           owner' = owner, sessions' = sessions
    PROVE  Once!OnceNext
BY DEF phases, Once!OnceNext, Once!Take

LEMMA CloseIsNext ==
    ASSUME NEW s \in Login, phases[s] \in {"open", "taken"},
           phases' = [phases EXCEPT ![s] = "closed"], owner' = owner, sessions' = sessions
    PROVE  Once!OnceNext
BY DEF phases, Once!OnceNext, Once!Close

LEMMA SignInIsNext ==
    ASSUME NEW s \in Login, phases[s] = "taken", phases' = [phases EXCEPT ![s] = "granted"],
           NEW t \in SessionToken \ DOMAIN owner, NEW p \in Allowed,
           owner' = [u \in DOMAIN owner \cup {t} |->
               IF u = t THEN [login |-> s, person |-> p] ELSE owner[u]],
           sessions' = sessions \cup {t}
    PROVE  Once!OnceNext
BY DEF phases, Once!OnceNext, Once!SignIn

LEMMA StopIsNext ==
    ASSUME phases' = [s \in Login |->
               IF phases[s] \in {"open", "taken"} THEN "closed" ELSE phases[s]],
           owner' = owner, sessions' = {}
    PROVE  Once!OnceNext
BY DEF phases, Once!OnceNext, Once!Stop

LEMMA BeginIsNext ==
    ASSUME LoginInv, NEW s \in Login, phases[s] = "unused",
           \/ /\ Cardinality(store) < MaxSize
              /\ phases' = [phases EXCEPT ![s] = "open"]
           \/ /\ Cardinality(store) = MaxSize
              /\ \E e \in store : phases' = [phases EXCEPT ![s] = "open", ![e] = "closed"],
           owner' = owner, sessions' = sessions
    PROVE  Once!OnceNext
PROOF
<1>1. Once!Open = store
    BY OpenIsStore
<1>2. Once!Cardinality(store) = Cardinality(store)
    BY DEF Once!Cardinality, Cardinality
<1>3. Once!Begin(s)
    BY <1>1, <1>2 DEF phases, Once!Begin
<1> QED BY <1>3 DEF Once!OnceNext


----------------------------------------------------------------------------
(* How a step moves the logins                                             *)

\* All but login x keep their places.
OnlyMoves(x) ==
    \A s \in Login \ {x} :
        /\ Held(s)' <=> Held(s)
        /\ Owned(s)' <=> Owned(s)
        /\ s \in store' <=> s \in store
        /\ Sent(s)' <=> Sent(s)

LEMMA OneMoves ==
    ASSUME PhasesApart, PhasesApart', NEW x \in Login, OnlyMoves(x)
    PROVE  phases' = [phases EXCEPT ![x] = Phase(x)']
PROOF
<1>1. \A s \in Login \ {x} : Phase(s)' = Phase(s)
    BY SamePhase DEF OnlyMoves
<1> QED BY <1>1 DEF phases

LEMMA NoneMoves ==
    ASSUME PhasesApart, PhasesApart',
           \A s \in Login :
              /\ Held(s)' <=> Held(s)
              /\ Owned(s)' <=> Owned(s)
              /\ s \in store' <=> s \in store
              /\ Sent(s)' <=> Sent(s)
    PROVE  phases' = phases
PROOF
<1>1. \A s \in Login : Phase(s)' = Phase(s)
    BY SamePhase
<1> QED BY <1>1 DEF phases

\* Who has a login after a step that changes the content of one slot.
LEMMA SlotHeld ==
    ASSUME Shapes, NEW r \in Req, NEW h, handler' = [handler EXCEPT ![r] = h], NEW s
    PROVE  Held(s)' <=> \/ h.at \in CallbackStage /\ h.login = s
                        \/ \E q \in Req \ {r} : InCallback(q) /\ handler[q].login = s
PROOF
<1>1. handler'[r] = h /\ \A q \in Req \ {r} : handler'[q] = handler[q]
    BY DEF Shapes
<1> QED BY <1>1 DEF Held, InCallback

LEMMA HeldKept ==
    ASSUME LoginInv, NEW r \in Req, NEW h, handler' = [handler EXCEPT ![r] = h], NEW s,
           \/ ~InCallback(r) /\ h.at \notin CallbackStage
           \/ InCallback(r) /\ h.at \in CallbackStage /\ h.login = handler[r].login
    PROVE  Held(s)' <=> Held(s)
PROOF
<1>1. Shapes
    BY DEF LoginInv
<1> QED BY <1>1, SlotHeld DEF Held, InCallback

LEMMA HeldLeft ==
    ASSUME LoginInv, NEW r \in Req, NEW h, handler' = [handler EXCEPT ![r] = h], NEW s,
           InCallback(r), h.at \notin CallbackStage
    PROVE  Held(s)' <=> Held(s) /\ s # handler[r].login
PROOF
<1>1. Shapes /\ CallbacksApart
    BY DEF LoginInv
<1>2. \A q \in Req \ {r} : InCallback(q) => handler[q].login # handler[r].login
    BY <1>1 DEF CallbacksApart
<1>3. Held(s)' <=> \E q \in Req \ {r} : InCallback(q) /\ handler[q].login = s
    BY <1>1, SlotHeld
<1>4. Held(s) /\ s # handler[r].login
      <=> \E q \in Req \ {r} : InCallback(q) /\ handler[q].login = s
    BY <1>2 DEF Held
<1> QED BY <1>3, <1>4


LEMMA HeldTaken ==
    ASSUME LoginInv, NEW r \in Req, NEW h, handler' = [handler EXCEPT ![r] = h], NEW s,
           ~InCallback(r), h.at \in CallbackStage
    PROVE  Held(s)' <=> Held(s) \/ s = h.login
PROOF
<1>1. Shapes
    BY DEF LoginInv
<1>2. Held(s) <=> \E q \in Req \ {r} : InCallback(q) /\ handler[q].login = s
    BY DEF Held
<1> QED BY <1>1, <1>2, SlotHeld

\* A step that changes a slot and leaves every login where it is.
LEMMA SlotStays ==
    ASSUME LoginInv, LoginInv', NEW r \in Req, NEW h, handler' = [handler EXCEPT ![r] = h],
           \/ ~InCallback(r) /\ h.at \notin CallbackStage
           \/ InCallback(r) /\ h.at \in CallbackStage /\ h.login = handler[r].login,
           store' = store, born' = born, UNCHANGED sessionVars
    PROVE  Stays
PROOF
<1>1. PhasesApart /\ PhasesApart'
    BY PhaseFacts, PhaseFactsNext
<1>2. \A s \in Login : Held(s)' <=> Held(s)
    BY HeldKept
<1>3. owner' = owner /\ sessions' = sessions
    BY DEF sessionVars
<1>4. \A s \in Login : /\ Owned(s)' <=> Owned(s)
                       /\ s \in store' <=> s \in store
                       /\ Sent(s)' <=> Sent(s)
    BY <1>3 DEF Owned, Sent
<1>5. phases' = phases
    BY <1>1, <1>2, <1>4, NoneMoves
<1> QED BY <1>3, <1>5 DEF Stays

\* A callback that gets an answer and no session closes its login.
LEMMA CallbackCloses ==
    ASSUME LoginInv, LoginInv', NEW r \in Req, InCallback(r), NEW k, NEW status,
           Answer(r, k, status), store' = store, born' = born, UNCHANGED sessionVars
    PROVE  Once!OnceNext
PROOF
<1> DEFINE h == [at |-> "answered", key |-> k, status |-> status]
<1>1. PhasesApart /\ PhasesApart'
    BY PhaseFacts, PhaseFactsNext
<1>2. /\ handler' = [handler EXCEPT ![r] = h] /\ h.at \notin CallbackStage
      /\ owner' = owner /\ sessions' = sessions
    BY DEF Answer, CallbackStage, sessionVars
<1>3. PICK x \in Login : x = handler[r].login
    BY SlotTypes DEF LoginInv, Calling
<1> HIDE DEF h
<1>4. \A s \in Login : Held(s)' <=> Held(s) /\ s # x
    BY <1>2, <1>3, HeldLeft
<1>5. \A s \in Login : /\ Owned(s)' <=> Owned(s)
                       /\ s \in store' <=> s \in store
                       /\ Sent(s)' <=> Sent(s)
    BY <1>2 DEF Owned, Sent
<1>6. phases' = [phases EXCEPT ![x] = Phase(x)']
    BY <1>1, <1>3, <1>4, <1>5, OneMoves DEF OnlyMoves
<1>7. Phase(x) = "taken"
    BY <1>1, <1>3 DEF PhasesApart, Held
<1>8. Phase(x)' = "closed"
    BY <1>1, <1>3, <1>4, <1>5, <1>7 DEF PhasesApart
<1> QED BY <1>2, <1>3, <1>6, <1>7, <1>8, CloseIsNext DEF phases


\* A callback with an error of the provider closes the login of its state.
LEMMA ErrorCloses ==
    ASSUME LoginInv, LoginInv', NEW r \in Req, ~InCallback(r), NEW k, NEW status,
           Answer(r, k, status), NEW s \in store, store' = store \ {s}, born' = born,
           UNCHANGED sessionVars
    PROVE  Once!OnceNext
PROOF
<1> DEFINE h == [at |-> "answered", key |-> k, status |-> status]
<1>1. PhasesApart /\ PhasesApart'
    BY PhaseFacts, PhaseFactsNext
<1>2. /\ handler' = [handler EXCEPT ![r] = h] /\ h.at \notin CallbackStage
      /\ owner' = owner /\ sessions' = sessions /\ s \in Login
    BY DEF Answer, CallbackStage, sessionVars, LoginInv, Shapes
<1> HIDE DEF h
<1>3. \A x \in Login : Held(x)' <=> Held(x)
    BY <1>2, HeldKept
<1>4. \A x \in Login : /\ Owned(x)' <=> Owned(x)
                       /\ Sent(x)' <=> Sent(x)
    BY <1>2 DEF Owned, Sent
<1>5. phases' = [phases EXCEPT ![s] = Phase(s)']
    BY <1>1, <1>2, <1>3, <1>4, OneMoves DEF OnlyMoves
<1>6. Phase(s) = "open"
    BY <1>1, <1>2 DEF PhasesApart
<1>7. Phase(s)' = "closed"
    BY <1>1, <1>2, <1>3, <1>4, <1>6 DEF PhasesApart
<1> QED BY <1>2, <1>5, <1>6, <1>7, CloseIsNext DEF phases

\* A callback takes the login of its state for itself.
LEMMA CallbackTakes ==
    ASSUME LoginInv, LoginInv', NEW r \in Req, ~InCallback(r), NEW h,
           h.at \in CallbackStage, h.login \in store, handler' = [handler EXCEPT ![r] = h],
           store' = store \ {h.login}, born' = born, UNCHANGED sessionVars
    PROVE  Once!OnceNext
PROOF
<1>1. PhasesApart /\ PhasesApart'
    BY PhaseFacts, PhaseFactsNext
<1>2. owner' = owner /\ sessions' = sessions
    BY DEF sessionVars
<1>3. PICK s \in Login : s = h.login
    BY DEF LoginInv, Shapes
<1>4. \A x \in Login : Held(x)' <=> Held(x) \/ x = s
    BY <1>3, HeldTaken
<1>5. \A x \in Login : /\ Owned(x)' <=> Owned(x)
                       /\ x \in store' <=> x \in store /\ x # s
                       /\ Sent(x)' <=> Sent(x)
    BY <1>2, <1>3 DEF Owned, Sent
<1>6. phases' = [phases EXCEPT ![s] = Phase(s)']
    BY <1>1, <1>4, <1>5, OneMoves DEF OnlyMoves
<1>7. Phase(s) = "open" /\ Phase(s)' = "taken"
    BY <1>1, <1>3, <1>4 DEF PhasesApart
<1> QED BY <1>2, <1>6, <1>7, TakeIsNext DEF phases

----------------------------------------------------------------------------
(* The steps of the routes                                                 *)

OneTimeStep == Stays \/ Once!OnceNext

LEMMA CallbackIsOneTime ==
    ASSUME LoginInv, LoginInv', NEW r \in Req, NEW k, NEW s, NEW code,
           NEW error \in BOOLEAN, Callback(r, k, s, code, error)
    PROVE  OneTimeStep
PROOF
<1>1. /\ ~InCallback(r) /\ store' = store \ {s} /\ born' = born /\ UNCHANGED sessionVars
    BY DEF Callback, Take, Idle, InCallback, CallbackStage
<1>2. ASSUME NEW status, Answer(r, k, status)
      PROVE  OneTimeStep
    <2>1. CASE s \in store
        BY <1>1, <1>2, <2>1, ErrorCloses DEF OneTimeStep
    <2>2. CASE s \notin store
        <3> DEFINE h == [at |-> "answered", key |-> k, status |-> status]
        <3>1. handler' = [handler EXCEPT ![r] = h] /\ h.at \notin CallbackStage
            BY <1>2 DEF Answer, CallbackStage
        <3>2. store' = store
            BY <1>1, <2>2
        <3> HIDE DEF h
        <3> QED BY <1>1, <3>1, <3>2, SlotStays DEF OneTimeStep
    <2> QED BY <2>1, <2>2
<1>3. CASE /\ ~TurnedAway(s, error)
           /\ handler' = [handler EXCEPT ![r] =
                 [at |-> "discovery", key |-> k, login |-> s, code |-> code]]
    <2> DEFINE h == [at |-> "discovery", key |-> k, login |-> s, code |-> code]
    <2>1. h.at \in CallbackStage /\ h.login = s /\ s \in store
        BY <1>3 DEF CallbackStage, TurnedAway
    <2>2. handler' = [handler EXCEPT ![r] = h]
        BY <1>3
    <2> HIDE DEF h
    <2> QED BY <1>1, <2>1, <2>2, CallbackTakes DEF OneTimeStep
<1> QED BY <1>2, <1>3 DEF Callback, RefusedAs

LEMMA RefusalIsOneTime ==
    ASSUME LoginInv, LoginInv', NEW r \in Req, CallbackRefused(r) \/ CallbackRaised(r)
    PROVE  OneTimeStep
PROOF
<1>1. InCallback(r)
    BY DEF CallbackRefused, CallbackRaised, InCallback, CallbackStage
<1>2. store' = store /\ born' = born /\ UNCHANGED sessionVars
    BY DEF CallbackRefused, CallbackRaised, storeVars
<1>3. PICK status : Answer(r, handler[r].key, status)
    BY DEF CallbackRefused, CallbackRaised, RefusedAs
<1> QED BY <1>1, <1>2, <1>3, CallbackCloses DEF OneTimeStep

\* The steps of a slot that move no login.
LEMMA MoveIsOneTime ==
    ASSUME LoginInv, LoginInv', NEW r \in Req, Discovered(r) \/ Exchanged(r)
    PROVE  OneTimeStep
PROOF
<1>1. PICK stage \in CallbackStage : MovesOn(r, stage)
    BY DEF Discovered, Exchanged, CallbackStage
<1>2. InCallback(r)
    BY DEF Discovered, Exchanged, InCallback, CallbackStage
<1> DEFINE h == [handler[r] EXCEPT !.at = stage]
<1>3. h.at \in CallbackStage /\ h.login = handler[r].login
    BY <1>2, SlotTypes DEF LoginInv, Calling
<1>4. handler' = [handler EXCEPT ![r] = h]
    BY <1>1 DEF MovesOn
<1>5. store' = store /\ born' = born /\ UNCHANGED sessionVars
    BY <1>1 DEF MovesOn, storeVars
<1> HIDE DEF h
<1> QED BY <1>2, <1>3, <1>4, <1>5, SlotStays DEF OneTimeStep


LEMMA QuietIsOneTime ==
    ASSUME LoginInv, LoginInv', NEW r \in Req,
           \/ \E k \in Key, origin \in Uri \cup {Elsewhere} : Start(r, k, origin)
           \/ StartFails(r)
           \/ Delivered(r)
    PROVE  OneTimeStep
PROOF
<1>1. PICK h : handler' = [handler EXCEPT ![r] = h] /\ h.at \notin CallbackStage
    <2>1. ASSUME NEW k, NEW status, Answer(r, k, status)
          PROVE  \E h : handler' = [handler EXCEPT ![r] = h] /\ h.at \notin CallbackStage
        <3>1. [at |-> "answered", key |-> k, status |-> status].at \notin CallbackStage
            BY DEF CallbackStage
        <3> QED BY <2>1, <3>1 DEF Answer
    <2>2. ASSUME NEW k, NEW u, handler' = [handler EXCEPT ![r] =
                     [at |-> "starting", key |-> k, uri |-> u]]
          PROVE  \E h : handler' = [handler EXCEPT ![r] = h] /\ h.at \notin CallbackStage
        <3>1. [at |-> "starting", key |-> k, uri |-> u].at \notin CallbackStage
            BY DEF CallbackStage
        <3> QED BY <2>2, <3>1
    <2>3. Idle.at \notin CallbackStage
        BY DEF Idle, CallbackStage
    <2> QED BY <2>1, <2>2, <2>3 DEF Start, StartFails, Delivered
<1>2. ~InCallback(r)
    BY DEF Start, StartFails, Delivered, InCallback, Idle, CallbackStage
<1>3. store' = store /\ born' = born /\ UNCHANGED sessionVars
    BY DEF Start, StartFails, Delivered, storeVars
<1> QED BY <1>1, <1>2, <1>3, SlotStays DEF OneTimeStep

\* A step that touches neither the slots nor the store nor the sessions.
LEMMA OthersAreOneTime ==
    ASSUME LoginInv, LoginInv', handler' = handler, UNCHANGED storeVars, UNCHANGED sessionVars
    PROVE  OneTimeStep
PROOF
<1>1. PhasesApart /\ PhasesApart'
    BY PhaseFacts, PhaseFactsNext
<1>2. store' = store /\ born' = born /\ owner' = owner /\ sessions' = sessions
    BY DEF storeVars, sessionVars
<1>3. phases' = phases
    BY <1>1, <1>2, NoneMoves DEF Held, Owned, Sent, InCallback
<1> QED BY <1>2, <1>3 DEF OneTimeStep, Stays

\* The login of a callback that ends in a session is granted.
LEMMA SignedInIsOneTime ==
    ASSUME LoginInv, LoginInv', NEW r \in Req, SignedIn(r)
    PROVE  OneTimeStep
PROOF
<1> DEFINE h == [at |-> "answered", key |-> handler[r].key, status |-> "signed in"]
<1>1. PhasesApart /\ PhasesApart'
    BY PhaseFacts, PhaseFactsNext
<1>2. /\ InCallback(r) /\ h.at \notin CallbackStage /\ handler' = [handler EXCEPT ![r] = h]
      /\ store' = store /\ born' = born
    BY DEF SignedIn, InCallback, CallbackStage, Answer, storeVars
<1> HIDE DEF h
<1>3. PICK s \in Login : s = handler[r].login
    BY <1>2, SlotTypes DEF LoginInv, Calling
<1>4. PICK p \in Allowed : p = grant[handler[r].code]
    BY DEF SignedIn, Accepts
<1>5. PICK t \in SessionToken \ DOMAIN owner :
          /\ sessions' = sessions \cup {t}
          /\ owner' = [u \in DOMAIN owner \cup {t} |->
                IF u = t THEN [login |-> s, person |-> p] ELSE owner[u]]
    BY <1>3, <1>4 DEF SignedIn
<1>6. \A x \in Login : Held(x)' <=> Held(x) /\ x # s
    BY <1>2, <1>3, HeldLeft
<1>7. \A x \in Login : Owned(x)' <=> Owned(x) \/ x = s
    <2>1. DOMAIN owner' = DOMAIN owner \cup {t} /\ owner'[t].login = s
          /\ \A u \in DOMAIN owner : owner'[u] = owner[u]
        BY <1>5
    <2> QED BY <2>1 DEF Owned
<1>8. \A x \in Login : Sent(x)' <=> Sent(x)
    BY <1>2 DEF Sent
<1>9. phases' = [phases EXCEPT ![s] = Phase(s)']
    BY <1>1, <1>2, <1>6, <1>7, <1>8, OneMoves DEF OnlyMoves
<1>10. Phase(s) = "taken"
    BY <1>1, <1>2, <1>3 DEF PhasesApart, Held
<1>11. Phase(s)' = "granted"
    BY <1>1, <1>7 DEF PhasesApart
<1> QED BY <1>5, <1>9, <1>10, <1>11, SignInIsNext DEF OneTimeStep, phases

\* A restart ends the logins under way and keeps the record of the sessions.
LEMMA RestartIsOneTime ==
    ASSUME LoginInv, LoginInv', Restart
    PROVE  OneTimeStep
PROOF
<1>1. PhasesApart /\ PhasesApart'
    BY PhaseFacts, PhaseFactsNext
<1>2. \A s \in Login : ~Held(s)'
    BY DEF Restart, Held, InCallback, Idle, CallbackStage
<1>3. /\ store' = {} /\ born' = born /\ sessions' = {} /\ owner' = owner
      /\ \A s \in Login : Owned(s)' <=> Owned(s)
      /\ \A s \in Login : Sent(s)' <=> Sent(s)
    BY DEF Restart, Owned, Sent
<1>4. \A s \in Login : Phase(s)' = IF Phase(s) \in {"open", "taken"} THEN "closed" ELSE Phase(s)
    BY <1>1, <1>2, <1>3 DEF PhasesApart
<1>5. phases' = [s \in Login |->
               IF phases[s] \in {"open", "taken"} THEN "closed" ELSE phases[s]]
    BY <1>4 DEF phases
<1> QED BY <1>3, <1>5, StopIsNext DEF OneTimeStep


\* A start numbers its login last, and a full store gives up another one.
LEMMA RoomIsMade ==
    ASSUME LoginInv, LoginInv', StoreInv, NEW s \in Login, ~Sent(s), NEW u, Create(s, u)
    PROVE  /\ Sent(s)' /\ \A t \in Login \ {s} : Sent(t)' <=> Sent(t)
           /\ \/ Cardinality(store) < MaxSize /\ store' = store \cup {s}
              \/ /\ Cardinality(store) = MaxSize
                 /\ \E e \in store : store' = (store \cup {s}) \ {e}
PROOF
<1> DEFINE n == Cardinality(SentLogins) + 1
<1> DEFINE all == store \cup {s}
<1>1. Shapes /\ Shapes' /\ InOrder /\ StoreKeepsTheNewest /\ StoreApart
    BY DEF LoginInv, StoreInv
<1>2. Cardinality(SentLogins) \in Nat /\ \A t \in Login : born[t] \in Nat /\ born[t] < n
    BY <1>1, StoreTypes DEF SentLogins, InOrder
<1>3. /\ born'[s] = n /\ n > 0 /\ \A t \in Login \ {s} : born'[t] = born[t]
      /\ store' = Capped(all)
    BY <1>1, <1>2 DEF Create, SentLogins, Shapes
<1>4. Sent(s)' /\ \A t \in Login \ {s} : Sent(t)' <=> Sent(t)
    BY <1>3 DEF Sent
<1>5. /\ store \in SUBSET Login /\ s \notin store /\ IsFiniteSet(store)
      /\ Cardinality(store) \in Nat /\ Cardinality(store) <= MaxSize /\ MaxSize \in Nat
      /\ MaxSize > 0
    BY <1>1, StoreTypes, LoginAssumption DEF StoreApart, Shapes, StoreKeepsTheNewest
<1>6. Cardinality(all) = Cardinality(store) + 1
    BY <1>5, FS_AddElement
<1>7. CASE Cardinality(store) < MaxSize
    BY <1>3, <1>4, <1>5, <1>6, <1>7 DEF Capped
<1>8. CASE Cardinality(store) = MaxSize
    <2>1. PICK e : e = Oldest(all)
        OBVIOUS
    <2>2. store' = all \ {e}
        BY <1>3, <1>5, <1>6, <1>8, <2>1 DEF Capped
    <2>3. all \in SUBSET Login /\ all # {}
        BY <1>5
    <2> HIDE DEF all
    <2>4. e \in all /\ \A t \in all : born'[e] <= born'[t]
        BY <1>1, <2>1, <2>3, OldestFacts
    <2>5. PICK t \in store : TRUE
        BY <1>5, <1>8, FS_EmptySet
    <2>6. t \in Login /\ t # s /\ t \in all
        BY <1>5, <2>5 DEF all
    <2>7. born'[t] < born'[s]
        BY <1>2, <1>3, <2>6
    <2>8. ~(born'[s] <= born'[t])
        BY <1>1, <2>6, <2>7, StoreTypes, <1>2, <1>3
    <2>9. e \in store
        BY <2>4, <2>6, <2>8 DEF all
    <2> QED BY <1>4, <1>8, <2>2, <2>9 DEF all
<1> QED BY <1>5, <1>7, <1>8

LEMMA RedirectIsOneTime ==
    ASSUME LoginInv, LoginInv', StoreInv, NEW r \in Req, StartRedirects(r)
    PROVE  OneTimeStep
PROOF
<1> DEFINE h == [at |-> "answered", key |-> handler[r].key, status |-> "redirect"]
<1>1. PhasesApart /\ PhasesApart'
    BY PhaseFacts, PhaseFactsNext
<1>2. PICK s \in Login : ~Sent(s) /\ Create(s, handler[r].uri)
    BY DEF StartRedirects
<1>3. /\ ~InCallback(r) /\ h.at \notin CallbackStage /\ handler' = [handler EXCEPT ![r] = h]
      /\ owner' = owner /\ sessions' = sessions
    BY DEF StartRedirects, InCallback, CallbackStage, Answer, sessionVars
<1> HIDE DEF h
<1>4. \A x \in Login : Held(x)' <=> Held(x)
    BY <1>3, HeldKept
<1>5. \A x \in Login : Owned(x)' <=> Owned(x)
    BY <1>3 DEF Owned
<1>6. Sent(s)' /\ \A t \in Login \ {s} : Sent(t)' <=> Sent(t)
    BY <1>2, RoomIsMade
<1>7. Phase(s) = "unused"
    BY <1>1, <1>2 DEF PhasesApart
<1>8. CASE Cardinality(store) < MaxSize /\ store' = store \cup {s}
    <2>1. phases' = [phases EXCEPT ![s] = Phase(s)']
        BY <1>1, <1>4, <1>5, <1>6, <1>8, OneMoves DEF OnlyMoves
    <2>2. Phase(s)' = "open"
        BY <1>1, <1>8 DEF PhasesApart
    <2> QED BY <1>3, <1>7, <1>8, <2>1, <2>2, BeginIsNext DEF OneTimeStep, phases
<1>9. ASSUME Cardinality(store) = MaxSize, NEW e \in store, store' = (store \cup {s}) \ {e}
      PROVE  OneTimeStep
    <2>1. e \in Login /\ Phase(e) = "open" /\ e # s
        BY <1>1, <1>7, <1>9 DEF PhasesApart, LoginInv, Shapes
    <2>2. \A t \in Login \ {s, e} : Phase(t)' = Phase(t)
        BY <1>1, <1>4, <1>5, <1>6, <1>9, SamePhase
    <2>3. Phase(s)' = "open"
        BY <1>1, <1>9, <2>1 DEF PhasesApart
    <2>4. Phase(e)' = "closed"
        BY <1>1, <1>4, <1>5, <1>6, <1>9, <2>1 DEF PhasesApart
    <2>5. phases' = [phases EXCEPT ![s] = "open", ![e] = "closed"]
        BY <2>1, <2>2, <2>3, <2>4 DEF phases
    <2> QED BY <1>3, <1>7, <1>9, <2>5, BeginIsNext DEF OneTimeStep, phases
<1> QED BY <1>2, <1>8, <1>9, RoomIsMade

----------------------------------------------------------------------------
(* The theorem                                                             *)

LEMMA StepsAreOneTime ==
    LoginInv /\ LoginInv' /\ StoreInv /\ [LoginNext]_loginVars => OneTimeStep
PROOF
<1> SUFFICES ASSUME LoginInv, LoginInv', StoreInv, [LoginNext]_loginVars PROVE OneTimeStep
    OBVIOUS
<1>1. ASSUME NEW r \in Req, StartStep(r) PROVE OneTimeStep
    BY <1>1, QuietIsOneTime, RedirectIsOneTime DEF StartStep
<1>2. ASSUME NEW r \in Req, CallbackStep(r) PROVE OneTimeStep
    BY <1>2, CallbackIsOneTime, MoveIsOneTime, SignedInIsOneTime, RefusalIsOneTime
       DEF CallbackStep
<1>3. ASSUME NEW r \in Req, Delivered(r) PROVE OneTimeStep
    BY <1>3, QuietIsOneTime
<1>4. ASSUME NEW s \in Login, Grant(s) PROVE OneTimeStep
    BY <1>4, OthersAreOneTime DEF Grant
<1>5. ASSUME GateUsesLimiter \/ Time \/ UNCHANGED loginVars PROVE OneTimeStep
    BY <1>5, OthersAreOneTime DEF GateUsesLimiter, Time, loginVars
<1> QED BY <1>1, <1>2, <1>3, <1>4, <1>5, RestartIsOneTime DEF LoginNext

LEMMA OnceInitially == LoginInit => Once!OnceInit
PROOF
<1> SUFFICES ASSUME LoginInit PROVE Once!OnceInit
    OBVIOUS
<1>1. PhasesApart
    BY InitialInv, PhaseFacts
<1>2. \A s \in Login : ~Sent(s)
    BY DEF LoginInit, Sent
<1>3. \A s \in Login : Phase(s) = "unused"
    BY <1>1, <1>2 DEF PhasesApart
<1> QED BY <1>3 DEF LoginInit, Once!OnceInit

\* FR-010, FR-011: for any number of requests, logins and restarts, whatever the
\* provider does and whatever the cap is, the routes implement the one-time login.
THEOREM LoginsImplementOneTime == LoginSpec => LoginsAreOneTime
PROOF
<1>1. LoginInv /\ LoginInv' /\ StoreInv /\ [LoginNext]_loginVars
      => [Once!OnceNext]_(Once!onceVars)
    BY StepsAreOneTime, StaysIsStutter DEF OneTimeStep
<1>2. LoginInv /\ LoginInv' /\ StoreInv /\ [LoginNext]_loginVars => StoreInv'
    BY StoreNext
<1> QED BY <1>1, <1>2, OnceInitially, StoreInitial, LoginInvAlways, PTL
        DEF LoginSpec, LoginsAreOneTime, Once!OnceSpec
====
