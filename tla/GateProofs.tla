---- MODULE GateProofs ----
(***************************************************************************)
(* What the gate and the login form guarantee for any number of requests,  *)
(* callers, logins and restarts, with or without resource-server mode.     *)
(*                                                                         *)
(* The inductive invariant strengthens the safety invariant of Gate with   *)
(* one fact about the requests that await a verdict: the cookie they sent  *)
(* is dead already, and stays dead, because a token is issued only once.   *)
(* The action properties follow from it by a look at each answer.          *)
(***************************************************************************)
EXTENDS Gate, RateLimiterProofs

\* What holds of a request slot h, in the state of the stores.
SlotOK(h) ==
    /\ h \in {Idle} \cup Awaiting \cup Reading \cup Answered
    /\ h.at = "checking" =>
          /\ TokenMode
          /\ h.cookie \in Presentable \ sessions
    /\ h.at = "answered" =>
          /\ h.cookie \in Presentable
          /\ h.expires => h.cookie \notin sessions \cup {NoCookie}

StoresOK == sessions \subseteq minted /\ minted \subseteq SessionToken

GateInv ==
    /\ LimiterInv
    /\ StoresOK
    /\ handler = [r \in Req |-> handler[r]]
    /\ \A r \in Req : SlotOK(handler[r])

\* Tokens are only ever added to minted, and a session that appears is new.
StoresGrow ==
    /\ minted \subseteq minted'
    /\ sessions' \subseteq sessions \cup (minted' \ minted)

LEMMA SlotKept ==
    ASSUME StoresOK, StoresOK', StoresGrow, NEW h, SlotOK(h)
    PROVE  SlotOK(h)'
PROOF
<1> USE DEF StoresOK, StoresGrow, Presentable
<1>1. CASE h.at = "checking"
    <2>1. h.cookie \in Presentable' \ sessions'
        BY <1>1, GateAssumption DEF SlotOK
    <2> QED BY <1>1, <2>1 DEF SlotOK
<1>2. CASE h.at = "answered"
    <2>1. h.cookie \in Presentable'
        BY <1>2 DEF SlotOK
    <2>2. h.expires => h.cookie \notin sessions' \cup {NoCookie}
        BY <1>2, GateAssumption DEF SlotOK
    <2> QED BY <1>2, <2>1, <2>2 DEF SlotOK
<1>3. CASE h.at # "checking" /\ h.at # "answered"
    BY <1>3 DEF SlotOK
<1> QED BY <1>1, <1>2, <1>3

\* A step that changes one slot keeps the invariant when the new content is right.
LEMMA SlotChange ==
    ASSUME GateInv, LimiterInv', StoresOK', StoresGrow,
           NEW r \in Req, NEW h, handler' = [handler EXCEPT ![r] = h], SlotOK(h)'
    PROVE  GateInv'
PROOF
<1>1. handler' = [s \in Req |-> IF s = r THEN h ELSE handler[s]]
    BY DEF GateInv
<1>2. ASSUME NEW s \in Req PROVE SlotOK(handler[s])'
    <2>1. CASE s = r
        <3>1. handler'[s] = h
            BY <1>1, <2>1
        <3> QED BY <3>1 DEF SlotOK, Presentable
    <2>2. CASE s # r
        <3>1. handler'[s] = handler[s] /\ SlotOK(handler[s])
            BY <1>1, <2>2 DEF GateInv
        <3> DEFINE g == handler[s]
        <3>2. StoresOK
            BY DEF GateInv
        <3> HIDE DEF g
        <3> QED
            <4>1. \A x : SlotOK(x) => SlotOK(x)'
                BY <3>2, SlotKept
            <4> QED BY <3>1, <4>1
    <2> QED BY <2>1, <2>2
<1>3. handler' = [s \in Req |-> handler'[s]]
    BY <1>1
<1> QED BY <1>2, <1>3 DEF GateInv

----------------------------------------------------------------------------
(* Answers                                                                 *)

\* A request as the gate sees it: one of Request, or one that awaited a verdict.
AskOK(q) ==
    /\ q.key \in Key
    /\ q.cookie \in Presentable \ sessions
    /\ q.offer \in Offer
    /\ q.html \in BOOLEAN

\* When an answer may leave, in the state that its step leads to.
LEMMA AnsweredOK ==
    ASSUME NEW a \in Answered, a.cookie \in Presentable',
           a.expires => a.cookie \notin sessions' \cup {NoCookie}
    PROVE  SlotOK(a)'
BY DEF SlotOK, Answered, Presentable

LEMMA AnswerOK ==
    ASSUME NEW q, q.key \in Key, q.cookie \in Cookie \cap Presentable', q.offer \in Offer,
           NEW status \in Status, NEW expires \in BOOLEAN,
           NEW issued \in SessionToken \cup {NoCookie}, NEW lines \in 0..1,
           expires => q.cookie \notin sessions' \cup {NoCookie}
    PROVE  SlotOK(AnswerTo(q, status, expires, issued, lines))'
BY AnsweredOK DEF AnswerTo, Answered

LEMMA PassedOK ==
    ASSUME NEW q, q.key \in Key, q.cookie \in Cookie \cap Presentable', q.offer \in Offer
    PROVE  SlotOK(AnswerTo(q, "passed", FALSE, NoCookie, 0))'
PROOF
<1>1. /\ ~FALSE /\ FALSE \in BOOLEAN /\ 0 \in 0..1 /\ "passed" \in Status
      /\ NoCookie \in SessionToken \cup {NoCookie}
    BY DEF Status
<1> QED BY <1>1, AnswerOK

LEMMA StoresUnchanged ==
    ASSUME GateInv, UNCHANGED <<sessions, minted>>
    PROVE  StoresOK' /\ StoresGrow
BY DEF GateInv, StoresOK, StoresGrow

\* The cookie of a refused request, after a step that leaves the stores alone.
LEMMA AskKept ==
    ASSUME GateInv, NEW q, AskOK(q), UNCHANGED <<sessions, minted>>
    PROVE  q.cookie \in Cookie \cap Presentable' /\ q.cookie \notin sessions'
BY DEF GateInv, StoresOK, AskOK, Presentable, Cookie

\* The tail of the gate keeps the invariant, whether or not a refused token
\* wrote its line before.
LEMMA RefuseInv ==
    ASSUME GateInv, NEW r \in Req, NEW q, AskOK(q), NEW refused \in BOOLEAN,
           Refuse(r, q, refused), UNCHANGED <<sessions, minted>>
    PROVE  GateInv'
PROOF
<1> DEFINE logged == IF refused THEN 1 ELSE 0
           status == IF q.html THEN "login" ELSE "401"
           expires == q.cookie # NoCookie
           failed == AnswerTo(q, "500", FALSE, NoCookie, logged)
           told == AnswerTo(q, status, expires, NoCookie, logged + LastLine(refused))
<1>0. /\ q.key \in Key /\ q.offer \in Offer
      /\ q.cookie \in Cookie \cap Presentable' /\ q.cookie \notin sessions'
    BY AskKept DEF AskOK
<1>1. LimiterInv'
    <2>1. LimiterInv /\ q.key \in Key
        BY DEF GateInv, AskOK
    <2>2. CASE CredentialWasOffered(q)
        BY <2>1, <2>2, FailureFacts DEF Refuse
    <2>3. CASE ~CredentialWasOffered(q)
        BY <2>1, <2>3, StutterFacts DEF Refuse
    <2> QED BY <2>2, <2>3
<1>2. logged + LastLine(refused) = 1 /\ logged \in 0..1 /\ status \in {"login", "401"}
    BY DEF LastLine, AskOK
<1>3. SlotOK(failed)'
    BY <1>0, <1>2, AnswerOK DEF Status
<1>4. SlotOK(told)'
    <2>1. expires \in BOOLEAN /\ (expires => q.cookie \notin sessions' \cup {NoCookie})
        BY <1>0
    <2> HIDE DEF expires, status
    <2> QED BY <1>0, <1>2, <2>1, AnswerOK DEF Status
<1>5. handler' = [handler EXCEPT ![r] = failed] \/ handler' = [handler EXCEPT ![r] = told]
    BY DEF Refuse, Answer
<1> HIDE DEF failed, told
<1> QED BY <1>1, <1>3, <1>4, <1>5, StoresUnchanged, SlotChange

\* The wait, the static credential and the refusal together.
LEMMA JudgeInv ==
    ASSUME GateInv, NEW r \in Req, NEW q, AskOK(q), Judge(r, q), UNCHANGED <<sessions, minted>>
    PROVE  GateInv'
PROOF
<1> DEFINE status == IF q.html THEN "login" ELSE "429"
           expires == q.cookie # NoCookie
           held == AnswerTo(q, status, expires, NoCookie, 0)
           welcome == AnswerTo(q, "passed", FALSE, NoCookie, 0)
<1>0. /\ q.key \in Key /\ q.offer \in Offer
      /\ q.cookie \in Cookie \cap Presentable' /\ q.cookie \notin sessions'
    BY AskKept DEF AskOK
<1>1. LimiterInv /\ q.key \in Key
    BY DEF GateInv, AskOK
<1>2. ASSUME UNCHANGED limiterVars, handler' = [handler EXCEPT ![r] = held]
      PROVE  GateInv'
    <2>1. SlotOK(held)'
        <3>1. status \in {"login", "429"}
            BY DEF AskOK
        <3>2. expires \in BOOLEAN /\ (expires => q.cookie \notin sessions' \cup {NoCookie})
            BY <1>0
        <3> HIDE DEF expires, status
        <3> QED BY <1>0, <3>1, <3>2, AnswerOK DEF Status
    <2>2. LimiterInv'
        BY <1>1, <1>2, StutterFacts
    <2> HIDE DEF held
    <2> QED BY <1>2, <2>1, <2>2, StoresUnchanged, SlotChange
<1>3. ASSUME q.offer = "static", RecordSuccess(q.key), handler' = [handler EXCEPT ![r] = welcome]
      PROVE  GateInv'
    <2>1. SlotOK(welcome)'
        BY <1>0, PassedOK
    <2>2. LimiterInv'
        BY <1>1, <1>3, SuccessFacts
    <2> HIDE DEF welcome
    <2> QED BY <1>3, <2>1, <2>2, StoresUnchanged, SlotChange
<1>4. ASSUME Refuse(r, q, FALSE) PROVE GateInv'
    BY <1>4, RefuseInv
<1> QED BY <1>2, <1>3, <1>4 DEF Judge, Answer

----------------------------------------------------------------------------
(* The actions                                                             *)

LEMMA GateRequestInv ==
    ASSUME GateInv, NEW r \in Req, NEW q \in Request, GateRequest(r, q)
    PROVE  GateInv'
PROOF
<1>1. /\ UNCHANGED <<sessions, minted>> /\ LimiterInv /\ StoresOK
      /\ q.key \in Key /\ q.cookie \in Cookie \cap Presentable' /\ q.offer \in Offer
      /\ q.html \in BOOLEAN /\ q.cookie \in Presentable
    BY DEF GateRequest, GateInv, Request, StoresOK, Presentable, Cookie
<1>2. CASE PassesBySession(q) /\ UNCHANGED limiterVars
           /\ Answer(r, q, "passed", FALSE, NoCookie, 0)
    <2> DEFINE a == AnswerTo(q, "passed", FALSE, NoCookie, 0)
    <2>1. SlotOK(a)'
        BY <1>1, PassedOK
    <2>2. LimiterInv' /\ handler' = [handler EXCEPT ![r] = a]
        BY <1>1, <1>2, StutterFacts DEF Answer
    <2> HIDE DEF a
    <2> QED BY <1>1, <2>1, <2>2, StoresUnchanged, SlotChange
<1>3. CASE /\ ~PassesBySession(q) /\ GoesToTokenCheck(q) /\ UNCHANGED limiterVars
           /\ handler' = [handler EXCEPT ![r] =
                [at |-> "checking", key |-> q.key, cookie |-> q.cookie,
                 offer |-> q.offer, html |-> q.html]]
    <2> DEFINE a == [at |-> "checking", key |-> q.key, cookie |-> q.cookie,
                     offer |-> q.offer, html |-> q.html]
    <2>1. q.cookie \in Presentable' \ sessions' /\ TokenMode /\ q.offer \in Jwt
        BY <1>1, <1>3 DEF PassesBySession, GoesToTokenCheck
    <2>2. a \in Awaiting /\ a.at = "checking" /\ a.cookie = q.cookie
        BY <1>1, <2>1 DEF Awaiting
    <2>3. SlotOK(a)'
        BY <2>1, <2>2 DEF SlotOK, Presentable
    <2>4. LimiterInv'
        BY <1>1, <1>3, StutterFacts
    <2> HIDE DEF a
    <2> QED BY <1>1, <1>3, <2>3, <2>4, StoresUnchanged, SlotChange DEF a
<1>4. CASE ~PassesBySession(q) /\ Judge(r, q)
    <2>1. AskOK(q)
        BY <1>1, <1>4 DEF AskOK, PassesBySession
    <2> QED BY <1>1, <1>4, <2>1, JudgeInv
<1> QED BY <1>2, <1>3, <1>4 DEF GateRequest

\* A request with the token check: its cookie was dead when it came and still is.
LEMMA AwaitedAsk ==
    ASSUME GateInv, NEW r \in Req, handler[r].at = "checking"
    PROVE  /\ AskOK(handler[r]) /\ handler[r].offer \in Jwt /\ TokenMode
           /\ handler[r].cookie \in Cookie
PROOF
<1>1. SlotOK(handler[r])
    BY DEF GateInv
<1>2. handler[r] \in Awaiting
    BY <1>1 DEF SlotOK, Idle, Reading, Answered
<1> QED BY <1>1, <1>2 DEF SlotOK, AskOK, Awaiting, Jwt, Offer

LEMMA TokenInv ==
    ASSUME GateInv, NEW r \in Req,
           TokenAccepted(r) \/ TokenRefused(r) \/ TokenUnchecked(r) \/ TokenRaised(r)
    PROVE  GateInv'
PROOF
<1> PICK q : q = handler[r]
    OBVIOUS
<1>0. handler[r].at = "checking" /\ UNCHANGED <<sessions, minted>>
    BY DEF TokenAccepted, TokenRefused, TokenUnchecked, TokenRaised
<1>1. AskOK(q) /\ q.offer \in Jwt /\ TokenMode /\ q.cookie \in Cookie /\ LimiterInv
    BY <1>0, AwaitedAsk DEF GateInv
<1>2. q.key \in Key /\ q.cookie \in Cookie \cap Presentable' /\ q.offer \in Offer
    BY <1>0, <1>1 DEF AskOK, Presentable
<1>3. CASE TokenAccepted(r)
    <2> DEFINE a == AnswerTo(q, "passed", FALSE, NoCookie, 0)
    <2>1. RecordSuccess(q.key) /\ handler' = [handler EXCEPT ![r] = a]
        BY <1>3 DEF TokenAccepted, Answer
    <2>2. SlotOK(a)'
        BY <1>2, PassedOK
    <2>3. LimiterInv'
        BY <1>1, <1>2, <2>1, SuccessFacts
    <2> HIDE DEF a
    <2> QED BY <1>0, <2>1, <2>2, <2>3, StoresUnchanged, SlotChange
<1>4. CASE TokenRefused(r)
    BY <1>0, <1>1, <1>4, RefuseInv DEF TokenRefused
<1>5. CASE TokenUnchecked(r) \/ TokenRaised(r)
    <2>0. PICK status \in {"503", "raised"} :
            UNCHANGED limiterVars /\ Answer(r, q, status, FALSE, NoCookie, 0)
        BY <1>5 DEF TokenUnchecked, TokenRaised, limiterVars
    <2> DEFINE a == AnswerTo(q, status, FALSE, NoCookie, 0)
    <2>1. UNCHANGED limiterVars /\ handler' = [handler EXCEPT ![r] = a]
        BY <2>0 DEF Answer
    <2>2. SlotOK(a)'
        <3>1. q.key \in Key /\ q.cookie \in Cookie \cap Presentable' /\ q.offer \in Offer
            BY <1>2
        <3>2. ~FALSE /\ FALSE \in BOOLEAN /\ 0 \in 0..1 /\ status \in Status
            BY <2>0 DEF Status
        <3> QED BY <3>1, <3>2, AnswerOK
    <2>3. LimiterInv'
        BY <1>1, <2>1, StutterFacts
    <2> HIDE DEF a
    <2> QED BY <1>0, <2>1, <2>2, <2>3, StoresUnchanged, SlotChange
<1> QED BY <1>3, <1>4, <1>5

LEMMA LoginPostInv ==
    ASSUME GateInv, NEW r \in Req, NEW k \in Key, LoginPost(r, k)
    PROVE  GateInv'
PROOF
<1>0. UNCHANGED limiterVars /\ UNCHANGED <<sessions, minted>> /\ LimiterInv
    BY DEF LoginPost, limiterVars, GateInv
<1>1. LimiterInv'
    BY <1>0, StutterFacts
<1>2. CASE handler' = [handler EXCEPT ![r] = AnswerTo(Form(k, "none"), "429", FALSE, NoCookie, 0)]
    <2>1. PICK q : q = Form(k, "none")
        OBVIOUS
    <2>2. q.key \in Key /\ q.cookie \in Cookie \cap Presentable' /\ q.offer \in Offer
        BY <2>1 DEF Form, Cookie, Presentable, Offer
    <2>3. ~FALSE /\ FALSE \in BOOLEAN /\ 0 \in 0..1 /\ "429" \in Status
        BY DEF Status
    <2>4. SlotOK(AnswerTo(q, "429", FALSE, NoCookie, 0))'
        BY <2>2, <2>3, AnswerOK
    <2> QED BY <1>0, <1>1, <1>2, <2>1, <2>4, StoresUnchanged, SlotChange
<1>3. CASE handler' = [handler EXCEPT ![r] = [at |-> "body", key |-> k]]
    <2>1. SlotOK([at |-> "body", key |-> k])'
        BY DEF SlotOK, Reading
    <2> QED BY <1>0, <1>1, <1>3, <2>1, StoresUnchanged, SlotChange
<1> QED BY <1>2, <1>3 DEF LoginPost, Answer

LEMMA ReadingKey ==
    ASSUME GateInv, NEW r \in Req, handler[r].at = "body"
    PROVE  handler[r].key \in Key
PROOF
<1>1. SlotOK(handler[r])
    BY DEF GateInv
<1>2. handler[r] \in Reading
    BY <1>1 DEF SlotOK, Idle, Awaiting, Answered
<1> QED BY <1>2 DEF Reading

\* A login adds a token that no one holds yet, so no cookie that is being
\* refused at that moment can come to life.
LEMMA LoginRightInv ==
    ASSUME GateInv, NEW r \in Req, LoginRight(r)
    PROVE  GateInv'
PROOF
<1> PICK t \in SessionToken \ minted :
        /\ sessions' = sessions \cup {t}
        /\ minted' = minted \cup {t}
        /\ Answer(r, Form(handler[r].key, "static"), "home", FALSE, t, 0)
    BY DEF LoginRight
<1> PICK q : q = Form(handler[r].key, "static")
    OBVIOUS
<1>1. handler[r].key \in Key /\ RecordSuccess(handler[r].key) /\ LimiterInv
    BY ReadingKey DEF LoginRight, GateInv
<1>2. LimiterInv'
    BY <1>1, SuccessFacts
<1>3. StoresOK' /\ StoresGrow
    BY DEF GateInv, StoresOK, StoresGrow
<1>4. q.key \in Key /\ q.cookie \in Cookie \cap Presentable' /\ q.offer = "static" /\ q.offer \in Offer
    BY <1>1 DEF Form, Cookie, Presentable, Offer
<1>5. /\ ~FALSE /\ FALSE \in BOOLEAN /\ 0 \in 0..1 /\ "home" \in Status
      /\ t \in SessionToken \cup {NoCookie}
    BY DEF Status
<1>6. SlotOK(AnswerTo(q, "home", FALSE, t, 0))'
    BY <1>4, <1>5, AnswerOK
<1> QED BY <1>2, <1>3, <1>6, SlotChange DEF Answer

LEMMA LoginRefusedInv ==
    ASSUME GateInv, NEW r \in Req, LoginWrong(r) \/ LoginBlank(r)
    PROVE  GateInv'
PROOF
<1> PICK k : k = handler[r].key
    OBVIOUS
<1> DEFINE refused(offer) == AnswerTo(Form(k, offer), "401", FALSE, NoCookie, 1)
           failed == AnswerTo(Form(k, "wrong"), "500", FALSE, NoCookie, 0)
<1>0. handler[r].at = "body" /\ UNCHANGED <<sessions, minted>>
    BY DEF LoginWrong, LoginBlank
<1>1. k \in Key /\ LimiterInv
    BY <1>0, ReadingKey DEF GateInv
<1>2. ~FALSE /\ FALSE \in BOOLEAN /\ 1 \in 0..1 /\ 0 \in 0..1 /\ "401" \in Status /\ "500" \in Status
    BY DEF Status
<1>3. ASSUME NEW offer \in {"wrong", "none"} PROVE SlotOK(refused(offer))'
    <2>1. PICK q : q = Form(k, offer)
        OBVIOUS
    <2>2. q.key \in Key /\ q.cookie \in Cookie \cap Presentable' /\ q.offer \in Offer
        BY <1>1, <2>1 DEF Form, Cookie, Presentable, Offer
    <2>3. SlotOK(AnswerTo(q, "401", FALSE, NoCookie, 1))'
        BY <1>2, <2>2, AnswerOK
    <2> QED BY <2>1, <2>3
<1>4. SlotOK(failed)'
    <2>1. PICK q : q = Form(k, "wrong")
        OBVIOUS
    <2>2. q.key \in Key /\ q.cookie \in Cookie \cap Presentable' /\ q.offer \in Offer
        BY <1>1, <2>1 DEF Form, Cookie, Presentable, Offer
    <2>3. SlotOK(AnswerTo(q, "500", FALSE, NoCookie, 0))'
        BY <1>2, <2>2, AnswerOK
    <2> QED BY <2>1, <2>3
<1>5. LimiterInv'
    <2>1. CASE LoginWrong(r)
        BY <1>1, <2>1, FailureFacts DEF LoginWrong
    <2>2. CASE LoginBlank(r)
        BY <1>1, <2>2, StutterFacts DEF LoginBlank, limiterVars
    <2> QED BY <2>1, <2>2
<1>6. \/ handler' = [handler EXCEPT ![r] = refused("wrong")]
      \/ handler' = [handler EXCEPT ![r] = refused("none")]
      \/ handler' = [handler EXCEPT ![r] = failed]
    BY DEF LoginWrong, LoginBlank, Answer
<1>7. SlotOK(refused("wrong"))' /\ SlotOK(refused("none"))'
    BY <1>3
<1> HIDE DEF refused, failed
<1> QED BY <1>0, <1>4, <1>5, <1>6, <1>7, StoresUnchanged, SlotChange

LEMMA SlotFreed ==
    ASSUME GateInv, NEW r \in Req, LoginAbandoned(r) \/ Delivered(r)
    PROVE  GateInv'
PROOF
<1>1. UNCHANGED limiterVars /\ UNCHANGED <<sessions, minted>> /\ LimiterInv
      /\ handler' = [handler EXCEPT ![r] = Idle]
    BY DEF LoginAbandoned, Delivered, limiterVars, GateInv
<1>2. SlotOK(Idle)'
    BY DEF SlotOK, Idle
<1>3. LimiterInv'
    BY <1>1, StutterFacts
<1> QED BY <1>1, <1>2, <1>3, StoresUnchanged, SlotChange

LEMMA RestartInv ==
    ASSUME GateInv, Restart
    PROVE  GateInv'
PROOF
<1>1. LimiterInv' /\ StoresOK /\ StoresOK' /\ StoresGrow
    BY RestartFacts DEF Restart, GateInv, StoresOK, StoresGrow
<1>2. handler' = [r \in Req |-> IF handler[r].at = "answered" THEN handler[r] ELSE Idle]
    BY DEF Restart
<1>3. \A h : SlotOK(h) => SlotOK(h)'
    BY <1>1, SlotKept
<1>4. SlotOK(Idle)'
    BY DEF SlotOK, Idle
<1>5. ASSUME NEW r \in Req PROVE SlotOK(handler[r])'
    <2>1. PICK h : h = handler'[r]
        OBVIOUS
    <2>2. h = Idle \/ h = handler[r]
        BY <1>2, <2>1
    <2>3. SlotOK(h)'
        BY <1>3, <1>4, <2>2 DEF GateInv
    <2> QED BY <2>1, <2>3 DEF SlotOK, Presentable
<1> QED BY <1>1, <1>2, <1>5 DEF GateInv

LEMMA TimeInv ==
    ASSUME GateInv, Time \/ UNCHANGED gateVars
    PROVE  GateInv'
PROOF
<1>1. UNCHANGED <<sessions, minted, handler>>
    BY DEF Time, gateVars
<1>2. LimiterInv'
    BY ElapseFacts, StutterFacts DEF Time, gateVars, limiterVars, GateInv
<1> QED BY <1>1, <1>2 DEF GateInv, StoresOK, SlotOK, Presentable

\* The OIDC routes touch no slot, and their tokens are new: no answer on its
\* way expires one.
LEMMA OidcInv ==
    ASSUME GateInv, OidcCounts \/ OidcSignsIn
    PROVE  GateInv'
PROOF
<1>1. LimiterInv'
    BY FailureFacts, SuccessFacts DEF OidcCounts, OidcSignsIn, GateInv
<1>2. handler' = handler /\ StoresGrow /\ StoresOK /\ StoresOK'
    BY DEF OidcCounts, OidcSignsIn, GateInv, StoresOK, StoresGrow
<1>3. \A h : SlotOK(h) => SlotOK(h)'
    BY <1>2, SlotKept
<1> QED BY <1>1, <1>2, <1>3 DEF GateInv

LEMMA GateInitInv == GateInit => GateInv
PROOF
<1> SUFFICES ASSUME GateInit PROVE GateInv
    OBVIOUS
<1>1. LimiterInv /\ StoresOK
    BY InitInv DEF GateInit, StoresOK
<1>2. handler = [r \in Req |-> Idle]
    BY DEF GateInit
<1>3. SlotOK(Idle)
    BY DEF SlotOK, Idle
<1> QED BY <1>1, <1>2, <1>3 DEF GateInv

LEMMA GateStepInv == GateInv /\ [GateNext]_gateVars => GateInv'
PROOF
<1> SUFFICES ASSUME GateInv, [GateNext]_gateVars PROVE GateInv'
    OBVIOUS
<1>1. ASSUME NEW r \in Req, GateStep(r) PROVE GateInv'
    <2>1. ASSUME NEW q \in Request, GateRequest(r, q) PROVE GateInv'
        BY <2>1, GateRequestInv
    <2>2. CASE TokenAccepted(r) \/ TokenRefused(r) \/ TokenUnchecked(r) \/ TokenRaised(r)
        BY <2>2, TokenInv
    <2>3. ASSUME NEW k \in Key, LoginPost(r, k) PROVE GateInv'
        BY <2>3, LoginPostInv
    <2>4. CASE LoginRight(r)
        BY <2>4, LoginRightInv
    <2>5. CASE LoginWrong(r) \/ LoginBlank(r)
        BY <2>5, LoginRefusedInv
    <2>6. CASE LoginAbandoned(r) \/ Delivered(r)
        BY <2>6, SlotFreed
    <2> QED BY <1>1, <2>1, <2>2, <2>3, <2>4, <2>5, <2>6 DEF GateStep
<1>2. CASE Restart
    BY <1>2, RestartInv
<1>3. CASE Time \/ UNCHANGED gateVars
    BY <1>3, TimeInv
<1>4. CASE OidcCounts \/ OidcSignsIn
    BY <1>4, OidcInv
<1> QED BY <1>1, <1>2, <1>3, <1>4 DEF GateNext

LEMMA GateInvariant == GateSpec => []GateInv
PROOF
BY GateInitInv, GateStepInv, PTL DEF GateSpec

----------------------------------------------------------------------------
(* The theorems                                                            *)

\* The stores, the limiter and the request slots keep their types.
THEOREM GateTypeCorrect == GateSpec => []GateTypeOK
PROOF
<1>1. GateInv => GateTypeOK
    BY DEF GateInv, GateTypeOK, LimiterInv, StoresOK, SlotOK
<1> QED BY GateInvariant, <1>1, PTL

\* An answer never expires a cookie whose session is live, whatever happened
\* between the look at the cookie and the answer, and while the answer travels.
THEOREM ExpiredCookiesAreDead == GateSpec => []ExpiredCookieIsDead
PROOF
<1>1. GateInv => ExpiredCookieIsDead
    BY DEF GateInv, ExpiredCookieIsDead, SlotOK
<1> QED BY GateInvariant, <1>1, PTL

----------------------------------------------------------------------------
(* What an answer promises                                                 *)

\* The three promises of Gate about an answer, for the step that gives it to slot r.
RightAnswer(r) ==
    \A k \in Key : AnswersNow(r, k) =>
        /\ Proved(r)
        /\ handler'[r].lines = LinesDue(r, k)
        /\ Blocked(k) /\ Tells(r) => r \in OpenForms(k)

\* A wait opens no form of its caller.
OpensNone == \A k \in Key : Blocked(k) => OpenForms(k)' \subseteq OpenForms(k)

\* A step that gives slot r the content h and leaves the others alone.
LEMMA OneSlot ==
    ASSUME GateInv, NEW r \in Req, NEW h, handler' = [handler EXCEPT ![r] = h],
           h.at = "body" => ~Blocked(h.key),
           h.at = "answered" => RightAnswer(r)
    PROVE  OpensNone /\ \A s \in Req : RightAnswer(s)
PROOF
<1>1. handler'[r] = h /\ \A s \in Req \ {r} : handler'[s] = handler[s]
    BY DEF GateInv
<1>2. OpensNone
    BY <1>1 DEF OpensNone, OpenForms
<1>3. ASSUME NEW s \in Req, s # r \/ h.at # "answered" PROVE RightAnswer(s)
    BY <1>1, <1>3 DEF RightAnswer, AnswersNow
<1> QED BY <1>2, <1>3

\* What a step that answers q at slot r has to keep to.
LEMMA AnswerIsRight ==
    ASSUME GateInv, NEW r \in Req, NEW q, NEW status, NEW expires, NEW issued, NEW lines,
           Answer(r, q, status, expires, issued, lines),
           status = "passed" => \/ q.offer = "static"
                                \/ q.offer = "jwt" /\ TokenMode
                                \/ q.cookie \in sessions,
           issued # NoCookie => q.offer = "static",
           LET held == handler[r].at = "idle" /\ Blocked(q.key)
           IN  lines = IF \/ status = "401"
                          \/ status = "login" /\ ~held
                          \/ status = "500" /\ handler[r].at = "checking"
                       THEN 1 ELSE 0,
           \/ ~Blocked(q.key)
           \/ GoesToTokenCheck(q)
           \/ q.cookie \in sessions
           \/ status = "429"
           \/ status = "login" /\ lines = 0
           \/ handler[r].at = "body" /\ handler[r].key = q.key
    PROVE  OpensNone /\ \A s \in Req : RightAnswer(s)
PROOF
<1> DEFINE a == AnswerTo(q, status, expires, issued, lines)
<1>1. /\ a.at = "answered" /\ a.key = q.key /\ a.cookie = q.cookie /\ a.offer = q.offer
      /\ a.status = status /\ a.issued = issued /\ a.lines = lines
    BY DEF AnswerTo
<1>2. handler' = [handler EXCEPT ![r] = a] /\ handler'[r] = a
    BY DEF Answer, GateInv
<1> HIDE DEF a
<1>3. GoesToTokenCheck(q) => GoesToTokenCheck(a)
    BY <1>1 DEF GoesToTokenCheck
<1>4. ASSUME NEW k \in Key, AnswersNow(r, k)
      PROVE  /\ Proved(r) /\ handler'[r].lines = LinesDue(r, k)
             /\ Blocked(k) /\ Tells(r) => r \in OpenForms(k)
    <2>1. k = q.key
        BY <1>1, <1>2, <1>4 DEF AnswersNow
    <2>2. Proved(r)
        BY <1>1, <1>2 DEF Proved
    <2>3. handler'[r].lines = LinesDue(r, k)
        BY <1>1, <1>2, <2>1 DEF LinesDue
    <2>4. ASSUME Blocked(k), Tells(r) PROVE r \in OpenForms(k)
        BY <1>1, <1>2, <1>3, <2>1, <2>4 DEF Tells, OpenForms
    <2> QED BY <2>2, <2>3, <2>4
<1> QED BY <1>1, <1>2, <1>4, OneSlot DEF RightAnswer

\* The tail of the gate, for a request out of a wait or with a refused token.
LEMMA RefuseIsRight ==
    ASSUME GateInv, NEW r \in Req, NEW q, AskOK(q), NEW refused \in BOOLEAN, Refuse(r, q, refused),
           IF refused THEN handler[r].at = "checking" /\ GoesToTokenCheck(q)
                      ELSE handler[r].at = "idle" /\ ~Blocked(q.key)
    PROVE  OpensNone /\ \A s \in Req : RightAnswer(s)
PROOF
<1> DEFINE logged == IF refused THEN 1 ELSE 0
           status == IF q.html THEN "login" ELSE "401"
<1>1. PICK expires : expires = (q.cookie # NoCookie)
    OBVIOUS
<1>2. logged + LastLine(refused) = 1 /\ status \in {"login", "401"}
    BY DEF LastLine, AskOK
<1>3. CASE Answer(r, q, "500", FALSE, NoCookie, logged)
    BY <1>3, AnswerIsRight
<1>4. CASE Answer(r, q, status, expires, NoCookie, 1)
    <2> HIDE DEF status
    <2> QED BY <1>2, <1>4, AnswerIsRight
<1> QED BY <1>1, <1>2, <1>3, <1>4 DEF Refuse

LEMMA GateRequestIsRight ==
    ASSUME GateInv, NEW r \in Req, NEW q \in Request, GateRequest(r, q)
    PROVE  OpensNone /\ \A s \in Req : RightAnswer(s)
PROOF
<1>1. handler[r].at = "idle" /\ q.key \in Key /\ q.html \in BOOLEAN
    BY DEF GateRequest, Idle, Request
<1>2. CASE PassesBySession(q)
    BY <1>2, AnswerIsRight DEF GateRequest, PassesBySession
<1>3. CASE ~PassesBySession(q) /\ GoesToTokenCheck(q)
    <2>1. PICK h : h.at = "checking" /\ handler' = [handler EXCEPT ![r] = h]
        BY <1>3 DEF GateRequest
    <2> QED BY <2>1, OneSlot
<1>4. CASE ~PassesBySession(q) /\ HeldBack(q) /\ Judge(r, q)
    <2>1. PICK expires : expires = (q.cookie # NoCookie)
        OBVIOUS
    <2>2. PICK status \in {"login", "429"} : Answer(r, q, status, expires, NoCookie, 0)
        BY <1>1, <1>4, <2>1 DEF Judge
    <2>3. Blocked(q.key)
        BY <1>4 DEF HeldBack
    <2> QED BY <1>1, <2>2, <2>3, AnswerIsRight
<1>5. CASE ~PassesBySession(q) /\ ~HeldBack(q) /\ q.offer = "static" /\ Judge(r, q)
    <2>1. Answer(r, q, "passed", FALSE, NoCookie, 0) /\ ~Blocked(q.key)
        BY <1>5 DEF Judge, HeldBack
    <2> QED BY <1>5, <2>1, AnswerIsRight
<1>6. CASE ~PassesBySession(q) /\ ~HeldBack(q) /\ q.offer # "static" /\ Judge(r, q)
    <2>1. Refuse(r, q, FALSE) /\ ~Blocked(q.key)
        BY <1>6 DEF Judge, HeldBack
    <2>2. AskOK(q)
        BY <1>6 DEF AskOK, Request, PassesBySession
    <2> QED BY <1>1, <2>1, <2>2, RefuseIsRight
<1> QED BY <1>2, <1>3, <1>4, <1>5, <1>6 DEF GateRequest

LEMMA TokenIsRight ==
    ASSUME GateInv, NEW r \in Req,
           TokenAccepted(r) \/ TokenRefused(r) \/ TokenUnchecked(r) \/ TokenRaised(r)
    PROVE  OpensNone /\ \A s \in Req : RightAnswer(s)
PROOF
<1>1. PICK q : q = handler[r]
    OBVIOUS
<1>2. handler[r].at = "checking" /\ AskOK(q) /\ TokenMode /\ GoesToTokenCheck(q)
    BY <1>1, AwaitedAsk DEF TokenAccepted, TokenRefused, TokenUnchecked, TokenRaised, GoesToTokenCheck
<1>3. CASE TokenAccepted(r)
    <2>1. q.offer = "jwt" /\ Answer(r, q, "passed", FALSE, NoCookie, 0)
        BY <1>1, <1>3 DEF TokenAccepted
    <2> QED BY <1>2, <2>1, AnswerIsRight
<1>4. CASE TokenRefused(r)
    <2>1. Refuse(r, q, TRUE)
        BY <1>1, <1>4 DEF TokenRefused
    <2> QED BY <1>2, <2>1, RefuseIsRight
<1>5. CASE TokenUnchecked(r) \/ TokenRaised(r)
    <2>1. PICK status \in {"503", "raised"} : Answer(r, q, status, FALSE, NoCookie, 0)
        BY <1>1, <1>5 DEF TokenUnchecked, TokenRaised
    <2> QED BY <1>2, <2>1, AnswerIsRight
<1> QED BY <1>3, <1>4, <1>5

LEMMA FormIsRight ==
    ASSUME GateInv, NEW r \in Req,
           \/ \E k \in Key : LoginPost(r, k)
           \/ LoginRight(r) \/ LoginWrong(r) \/ LoginBlank(r) \/ LoginAbandoned(r) \/ Delivered(r)
    PROVE  OpensNone /\ \A s \in Req : RightAnswer(s)
PROOF
<1>1. ASSUME NEW k \in Key, LoginPost(r, k), Blocked(k)
      PROVE  OpensNone /\ \A s \in Req : RightAnswer(s)
    <2>1. PICK q : q = Form(k, "none")
        OBVIOUS
    <2>2. q.key = k /\ q.offer = "none" /\ Answer(r, q, "429", FALSE, NoCookie, 0)
        BY <1>1, <2>1 DEF Form, LoginPost
    <2> QED BY <2>2, AnswerIsRight
<1>2. ASSUME NEW k \in Key, LoginPost(r, k), ~Blocked(k)
      PROVE  OpensNone /\ \A s \in Req : RightAnswer(s)
    <2>1. PICK h : h = [at |-> "body", key |-> k]
        OBVIOUS
    <2>2. handler' = [handler EXCEPT ![r] = h] /\ h.at = "body" /\ h.key = k
        BY <1>2, <2>1 DEF LoginPost
    <2> QED BY <1>2, <2>2, OneSlot
<1>3. CASE LoginRight(r)
    <2>1. PICK q : q = Form(handler[r].key, "static")
        OBVIOUS
    <2>2. PICK t : Answer(r, q, "home", FALSE, t, 0)
        BY <1>3, <2>1 DEF LoginRight
    <2>3. handler[r].at = "body" /\ q.key = handler[r].key /\ q.offer = "static"
        BY <1>3, <2>1 DEF LoginRight, Form
    <2> QED BY <2>2, <2>3, AnswerIsRight
<1>4. CASE LoginWrong(r) \/ LoginBlank(r)
    <2>1. PICK offer \in {"wrong", "none"}, status \in {"401", "500"} :
             Answer(r, Form(handler[r].key, offer), status, FALSE, NoCookie,
                    IF status = "401" THEN 1 ELSE 0)
        BY <1>4 DEF LoginWrong, LoginBlank
    <2>2. PICK q : q = Form(handler[r].key, offer)
        OBVIOUS
    <2>3. handler[r].at = "body" /\ q.key = handler[r].key
        BY <1>4, <2>2 DEF LoginWrong, LoginBlank, Form
    <2>4. PICK lines : lines = (IF status = "401" THEN 1 ELSE 0)
        OBVIOUS
    <2> QED BY <2>1, <2>2, <2>3, <2>4, AnswerIsRight
<1>5. CASE LoginAbandoned(r) \/ Delivered(r)
    <2>1. handler' = [handler EXCEPT ![r] = Idle] /\ Idle.at = "idle"
        BY <1>5 DEF LoginAbandoned, Delivered, Idle
    <2>2. PICK h : h = Idle
        OBVIOUS
    <2> QED BY <2>1, <2>2, OneSlot
<1> QED BY <1>1, <1>2, <1>3, <1>4, <1>5

\* Every answer keeps its promises, whatever came between a look and the answer.
LEMMA AnswersAreRight ==
    ASSUME GateInv, [GateNext]_gateVars
    PROVE  OpensNone /\ \A s \in Req : RightAnswer(s)
PROOF
<1>1. ASSUME NEW r \in Req, GateStep(r) PROVE OpensNone /\ \A s \in Req : RightAnswer(s)
    BY <1>1, GateRequestIsRight, TokenIsRight, FormIsRight DEF GateStep
<1>2. CASE Restart
    <2>1. handler' = [r \in Req |-> IF handler[r].at = "answered" THEN handler[r] ELSE Idle]
          /\ Idle.at = "idle"
        BY <1>2 DEF Restart, Idle
    <2> QED BY <2>1 DEF OpensNone, OpenForms, RightAnswer, AnswersNow
<1>3. CASE OidcCounts \/ OidcSignsIn \/ Time \/ UNCHANGED gateVars
    <2>1. handler' = handler
        BY <1>3 DEF OidcCounts, OidcSignsIn, Time, gateVars
    <2> QED BY <2>1 DEF OpensNone, OpenForms, RightAnswer, AnswersNow
<1> QED BY <1>1, <1>2, <1>3 DEF GateNext

\* At the moment of every answer that lets a request pass, its session is live, its
\* credential right or its token accepted; a cookie from before a restart passes nothing.
THEOREM AccessIsProved == GateSpec => AccessNeedsProof
PROOF
<1>1. GateInv /\ [GateNext]_gateVars
        => [\A r \in Req, k \in Key : AnswersNow(r, k) => Proved(r)]_gateVars
    BY AnswersAreRight DEF RightAnswer
<1> QED BY GateInvariant, <1>1, PTL DEF GateSpec, AccessNeedsProof

\* Each refusal by a credential, 401 or redirect, writes one failure line, and no other
\* answer any: not one within a wait, not one about the provider, not the 500 of an
\* overflow but for the line of the refused token before it.
THEOREM RefusalsLogOnce == GateSpec => OneLinePerRefusal
PROOF
<1>1. GateInv /\ [GateNext]_gateVars
        => [\A r \in Req, k \in Key :
              AnswersNow(r, k) => handler'[r].lines = LinesDue(r, k)]_gateVars
    BY AnswersAreRight DEF RightAnswer
<1> QED BY GateInvariant, <1>1, PTL DEF GateSpec, OneLinePerRefusal

\* The static credential is tried within a wait only by forms that were open when the
\* wait began: no form opens and no header is judged, with any requests under way.
THEOREM WaitsHoldGuesses == GateSpec => WaitHoldsGuesses
PROOF
<1>1. GateInv /\ [GateNext]_gateVars
        => [\A k \in Key : Blocked(k) =>
              /\ OpenForms(k)' \subseteq OpenForms(k)
              /\ \A r \in Req : AnswersNow(r, k) /\ Tells(r) => r \in OpenForms(k)]_gateVars
    BY AnswersAreRight DEF RightAnswer, OpensNone
<1> QED BY GateInvariant, <1>1, PTL DEF GateSpec, WaitHoldsGuesses

----------------------------------------------------------------------------
(* What the limiter counts                                                 *)

\* An answer that the limiter must have counted: a judged and refused attempt.
ChargedAnswer(a) ==
    /\ a.lines > 0 \/ a.status = "500"
    /\ a.offer # "none" \/ a.cookie # NoCookie

\* The step counts a failure of k exactly if it answers a charged request of k.
CountsRightly(k) ==
    failures'[k] > failures[k] <=> \E r \in Req : AnswersNow(r, k) /\ ChargedAnswer(handler'[r])

\* A failure counts for its caller alone, a success and a restart for nobody.
LEMMA WhatGrows ==
    ASSUME LimiterInv, NEW k \in Key, failures[k] < CountCap
    PROVE  /\ \A j \in Key : RecordFailure(j) => (failures'[k] > failures[k] <=> j = k)
           /\ \A j \in Key : RecordSuccess(j) => ~(failures'[k] > failures[k])
           /\ LimiterRestart => ~(failures'[k] > failures[k])
           /\ failures' = failures => ~(failures'[k] > failures[k])
PROOF
<1>1. failures \in [Key -> Nat] /\ CountCap \in Nat
    BY LimiterAssumption DEF LimiterInv, LimiterTypeOK, CountCap
<1> QED BY <1>1 DEF RecordFailure, RecordSuccess, LimiterRestart, Counted

\* A step that answers r answers nobody else; one that does not answers nobody.
LEMMA OneAnswer ==
    ASSUME GateInv, NEW r \in Req, handler[r].at # "answered", NEW a,
           handler' = [handler EXCEPT ![r] = a], NEW k \in Key
    PROVE  (\E s \in Req : AnswersNow(s, k) /\ ChargedAnswer(handler'[s]))
             <=> a.at = "answered" /\ a.key = k /\ ChargedAnswer(a)
PROOF
<1>1. handler'[r] = a /\ \A s \in Req \ {r} : handler'[s] = handler[s]
    BY DEF GateInv
<1> QED BY <1>1 DEF AnswersNow

LEMMA NoAnswer ==
    ASSUME NEW k \in Key, \A s \in Req : handler'[s] = handler[s] \/ handler'[s].at # "answered"
    PROVE  ~ \E s \in Req : AnswersNow(s, k) /\ ChargedAnswer(handler'[s])
BY DEF AnswersNow

\* An answer that does not count, with a limiter that no failure reached.
LEMMA AnsweredFree ==
    ASSUME GateInv, NEW r \in Req, handler[r].at # "answered", NEW q, NEW status, NEW expires,
           NEW issued, NEW lines, Answer(r, q, status, expires, issued, lines),
           ~ChargedAnswer(AnswerTo(q, status, expires, issued, lines)),
           NEW k \in Key, ~(failures'[k] > failures[k])
    PROVE  CountsRightly(k)
PROOF
<1>1. PICK a : a = AnswerTo(q, status, expires, issued, lines)
    OBVIOUS
<1>2. handler' = [handler EXCEPT ![r] = a] /\ ~ChargedAnswer(a)
    BY <1>1 DEF Answer
<1>3. ~ \E s \in Req : AnswersNow(s, k) /\ ChargedAnswer(handler'[s])
    BY <1>2, OneAnswer
<1> QED BY <1>3 DEF CountsRightly

\* An answer that counts, after a failure of its caller.
LEMMA AnsweredCharged ==
    ASSUME GateInv, NEW r \in Req, handler[r].at # "answered", NEW q, NEW status, NEW expires,
           NEW issued, NEW lines, Answer(r, q, status, expires, issued, lines),
           ChargedAnswer(AnswerTo(q, status, expires, issued, lines)),
           q.key \in Key, RecordFailure(q.key), NEW k \in Key, failures[k] < CountCap
    PROVE  CountsRightly(k)
PROOF
<1>1. failures'[k] > failures[k] <=> q.key = k
    BY WhatGrows DEF GateInv
<1>2. PICK a : a = AnswerTo(q, status, expires, issued, lines)
    OBVIOUS
<1>3. /\ handler' = [handler EXCEPT ![r] = a] /\ ChargedAnswer(a)
      /\ a.key = q.key /\ a.at = "answered"
    BY <1>2 DEF Answer, AnswerTo
<1>4. (\E s \in Req : AnswersNow(s, k) /\ ChargedAnswer(handler'[s])) <=> a.key = k
    BY <1>3, OneAnswer
<1> QED BY <1>1, <1>3, <1>4 DEF CountsRightly

\* The tail of the gate counts the refusal of a request that offered something.
LEMMA RefuseCounts ==
    ASSUME GateInv, NEW r \in Req, handler[r].at # "answered", NEW q, q.key \in Key,
           NEW refused \in BOOLEAN, Refuse(r, q, refused), NEW k \in Key, failures[k] < CountCap
    PROVE  CountsRightly(k)
PROOF
<1> DEFINE logged == IF refused THEN 1 ELSE 0
           status == IF q.html THEN "login" ELSE "401"
<1>1. logged \in 0..1 /\ logged + LastLine(refused) = 1 /\ status # "500"
    BY DEF LastLine
<1>2. CASE CredentialWasOffered(q)
    <2>1. RecordFailure(q.key)
        BY <1>2 DEF Refuse
    <2>2. CASE Overflows(q.key)
        <3>1. Answer(r, q, "500", FALSE, NoCookie, logged)
            BY <1>2, <2>2 DEF Refuse
        <3>2. ChargedAnswer(AnswerTo(q, "500", FALSE, NoCookie, logged))
            BY <1>2 DEF ChargedAnswer, AnswerTo, CredentialWasOffered
        <3> HIDE DEF logged
        <3> QED BY <2>1, <3>1, <3>2, AnsweredCharged
    <2>3. CASE ~Overflows(q.key)
        <3>1. Answer(r, q, status, q.cookie # NoCookie, NoCookie, 1)
            BY <1>1, <1>2, <2>3 DEF Refuse
        <3>2. ChargedAnswer(AnswerTo(q, status, q.cookie # NoCookie, NoCookie, 1))
            BY <1>2 DEF ChargedAnswer, AnswerTo, CredentialWasOffered
        <3>3. PICK expires : expires = (q.cookie # NoCookie)
            OBVIOUS
        <3> HIDE DEF status
        <3> QED BY <2>1, <3>1, <3>2, <3>3, AnsweredCharged
    <2> QED BY <2>2, <2>3
<1>3. CASE ~CredentialWasOffered(q)
    <2>1. ~(failures'[k] > failures[k])
        BY <1>3, WhatGrows DEF Refuse, GateInv, limiterVars
    <2>2. Answer(r, q, status, q.cookie # NoCookie, NoCookie, 1)
        BY <1>1, <1>3 DEF Refuse
    <2>3. ~ChargedAnswer(AnswerTo(q, status, q.cookie # NoCookie, NoCookie, 1))
        BY <1>3 DEF ChargedAnswer, AnswerTo, CredentialWasOffered
    <2>4. PICK expires : expires = (q.cookie # NoCookie)
        OBVIOUS
    <2> HIDE DEF status
    <2> QED BY <2>1, <2>2, <2>3, <2>4, AnsweredFree
<1> QED BY <1>2, <1>3

\* An answer without a failure line that is no 500 is not charged.
LEMMA SilentIsFree ==
    ASSUME NEW q, NEW status, status # "500", NEW expires, NEW issued
    PROVE  ~ChargedAnswer(AnswerTo(q, status, expires, issued, 0))
BY DEF ChargedAnswer, AnswerTo

LEMMA JudgeCounts ==
    ASSUME GateInv, NEW r \in Req, handler[r].at # "answered", NEW q, q.key \in Key, Judge(r, q),
           NEW k \in Key, failures[k] < CountCap
    PROVE  CountsRightly(k)
PROOF
<1>1. LimiterInv
    BY DEF GateInv
<1>2. CASE HeldBack(q)
    <2>1. ~(failures'[k] > failures[k])
        BY <1>1, <1>2, WhatGrows DEF Judge, limiterVars
    <2>2. PICK status \in {"login", "429"}, expires \in BOOLEAN :
              Answer(r, q, status, expires, NoCookie, 0)
        BY <1>2 DEF Judge
    <2>3. ~ChargedAnswer(AnswerTo(q, status, expires, NoCookie, 0))
        BY SilentIsFree
    <2> QED BY <2>1, <2>2, <2>3, AnsweredFree
<1>3. CASE ~HeldBack(q) /\ q.offer = "static"
    <2>1. RecordSuccess(q.key) /\ Answer(r, q, "passed", FALSE, NoCookie, 0)
        BY <1>3 DEF Judge
    <2>2. ~(failures'[k] > failures[k])
        BY <1>1, <2>1, WhatGrows
    <2>3. ~ChargedAnswer(AnswerTo(q, "passed", FALSE, NoCookie, 0))
        BY SilentIsFree
    <2> QED BY <2>1, <2>2, <2>3, AnsweredFree
<1>4. CASE ~HeldBack(q) /\ q.offer # "static"
    BY <1>4, RefuseCounts DEF Judge
<1> QED BY <1>2, <1>3, <1>4

LEMMA GateRequestCounts ==
    ASSUME GateInv, NEW r \in Req, NEW q \in Request, GateRequest(r, q),
           NEW k \in Key, failures[k] < CountCap
    PROVE  CountsRightly(k)
PROOF
<1>0. LimiterInv /\ handler[r].at # "answered" /\ q.key \in Key
    BY DEF GateInv, GateRequest, Idle, Request
<1>1. CASE PassesBySession(q)
    <2>1. Answer(r, q, "passed", FALSE, NoCookie, 0) /\ ~(failures'[k] > failures[k])
        BY <1>0, <1>1, WhatGrows DEF GateRequest, limiterVars
    <2>2. ~ChargedAnswer(AnswerTo(q, "passed", FALSE, NoCookie, 0))
        BY SilentIsFree
    <2> QED BY <1>0, <2>1, <2>2, AnsweredFree
<1>2. CASE ~PassesBySession(q) /\ GoesToTokenCheck(q)
    <2>1. ~(failures'[k] > failures[k])
        BY <1>0, <1>2, WhatGrows DEF GateRequest, limiterVars
    <2>2. \A s \in Req : handler'[s] = handler[s] \/ handler'[s].at # "answered"
        <3>1. PICK h : h.at = "checking" /\ handler' = [handler EXCEPT ![r] = h]
            BY <1>2 DEF GateRequest
        <3> QED BY <3>1 DEF GateInv
    <2> QED BY <2>1, <2>2, NoAnswer DEF CountsRightly
<1>3. CASE ~PassesBySession(q) /\ ~GoesToTokenCheck(q)
    BY <1>0, <1>3, JudgeCounts DEF GateRequest
<1> QED BY <1>1, <1>2, <1>3

LEMMA TokenCounts ==
    ASSUME GateInv, NEW r \in Req,
           TokenAccepted(r) \/ TokenRefused(r) \/ TokenUnchecked(r) \/ TokenRaised(r),
           NEW k \in Key, failures[k] < CountCap
    PROVE  CountsRightly(k)
PROOF
<1>0. handler[r].at = "checking"
    BY DEF TokenAccepted, TokenRefused, TokenUnchecked, TokenRaised
<1>1. PICK q : q = handler[r]
    OBVIOUS
<1>2. LimiterInv /\ handler[r].at # "answered" /\ q.key \in Key
    BY <1>0, <1>1, AwaitedAsk DEF GateInv, AskOK
<1>3. CASE TokenAccepted(r) \/ TokenUnchecked(r) \/ TokenRaised(r)
    <2>1. ~(failures'[k] > failures[k])
        BY <1>1, <1>2, <1>3, WhatGrows DEF TokenAccepted, TokenUnchecked, TokenRaised
    <2>2. PICK status \in {"passed", "503", "raised"} : Answer(r, q, status, FALSE, NoCookie, 0)
        BY <1>1, <1>3 DEF TokenAccepted, TokenUnchecked, TokenRaised
    <2>3. ~ChargedAnswer(AnswerTo(q, status, FALSE, NoCookie, 0))
        BY SilentIsFree
    <2> QED BY <1>2, <2>1, <2>2, <2>3, AnsweredFree
<1>4. CASE TokenRefused(r)
    <2>1. Refuse(r, q, TRUE)
        BY <1>1, <1>4 DEF TokenRefused
    <2> QED BY <1>2, <2>1, RefuseCounts
<1> QED BY <1>3, <1>4

LEMMA FormCounts ==
    ASSUME GateInv, NEW r \in Req, handler[r].at = "body",
           LoginRight(r) \/ LoginWrong(r) \/ LoginBlank(r),
           NEW k \in Key, failures[k] < CountCap
    PROVE  CountsRightly(k)
PROOF
<1>1. PICK j \in Key : j = handler[r].key
    BY ReadingKey
<1>2. LimiterInv /\ handler[r].at # "answered"
    BY DEF GateInv
<1>3. CASE LoginRight(r)
    <2>1. PICK t \in SessionToken : Answer(r, Form(j, "static"), "home", FALSE, t, 0)
        BY <1>1, <1>3 DEF LoginRight
    <2>2. ~(failures'[k] > failures[k])
        BY <1>1, <1>2, <1>3, WhatGrows DEF LoginRight
    <2>3. ~ChargedAnswer(AnswerTo(Form(j, "static"), "home", FALSE, t, 0))
        BY SilentIsFree
    <2> QED BY <1>2, <2>1, <2>2, <2>3, AnsweredFree
<1>4. CASE LoginWrong(r)
    <2>1. PICK q : q = Form(j, "wrong")
        OBVIOUS
    <2>2. q.key = j /\ q.key \in Key /\ q.offer # "none" /\ RecordFailure(q.key)
        BY <1>1, <1>4, <2>1 DEF Form, LoginWrong
    <2>3. PICK status, lines : /\ Answer(r, q, status, FALSE, NoCookie, lines)
                               /\ \/ status = "500" /\ lines = 0
                                  \/ status = "401" /\ lines = 1
        BY <1>1, <1>4, <2>1 DEF LoginWrong
    <2>4. ChargedAnswer(AnswerTo(q, status, FALSE, NoCookie, lines))
        BY <2>2, <2>3 DEF ChargedAnswer, AnswerTo
    <2> QED BY <1>2, <2>2, <2>3, <2>4, AnsweredCharged
<1>5. CASE LoginBlank(r)
    <2>1. PICK q : q = Form(j, "none")
        OBVIOUS
    <2>2. Answer(r, q, "401", FALSE, NoCookie, 1) /\ ~(failures'[k] > failures[k])
        BY <1>1, <1>2, <1>5, <2>1, WhatGrows DEF LoginBlank
    <2>3. ~ChargedAnswer(AnswerTo(q, "401", FALSE, NoCookie, 1))
        BY <2>1 DEF ChargedAnswer, AnswerTo, Form
    <2> QED BY <1>2, <2>2, <2>3, AnsweredFree
<1> QED BY <1>3, <1>4, <1>5

LEMMA LoginPostCounts ==
    ASSUME GateInv, NEW r \in Req, NEW j \in Key, LoginPost(r, j),
           NEW k \in Key, failures[k] < CountCap
    PROVE  CountsRightly(k)
PROOF
<1>0. handler[r].at # "answered" /\ ~(failures'[k] > failures[k])
    BY WhatGrows DEF LoginPost, Idle, GateInv
<1>1. CASE Blocked(j)
    <2>1. PICK q : q = Form(j, "none")
        OBVIOUS
    <2>2. Answer(r, q, "429", FALSE, NoCookie, 0)
        BY <1>1, <2>1 DEF LoginPost
    <2>3. ~ChargedAnswer(AnswerTo(q, "429", FALSE, NoCookie, 0))
        BY SilentIsFree
    <2> QED BY <1>0, <2>2, <2>3, AnsweredFree
<1>2. CASE ~Blocked(j)
    <2>1. \A s \in Req : handler'[s] = handler[s] \/ handler'[s].at # "answered"
        BY <1>2 DEF LoginPost, GateInv
    <2> QED BY <1>0, <2>1, NoAnswer DEF CountsRightly
<1> QED BY <1>1, <1>2

LEMMA FreedCounts ==
    ASSUME GateInv, \/ \E r \in Req : LoginAbandoned(r) \/ Delivered(r)
                    \/ Restart \/ Time \/ UNCHANGED gateVars,
           NEW k \in Key, failures[k] < CountCap
    PROVE  CountsRightly(k)
PROOF
<1>1. ~(failures'[k] > failures[k])
    BY WhatGrows DEF LoginAbandoned, Delivered, Restart, Time, Elapse, gateVars, GateInv
<1>2. Idle.at # "answered"
    BY DEF Idle
<1>3. ASSUME NEW s \in Req PROVE handler'[s] = handler[s] \/ handler'[s].at # "answered"
    BY <1>2 DEF LoginAbandoned, Delivered, Restart, Time, gateVars, GateInv
<1> QED BY <1>1, <1>3, NoAnswer DEF CountsRightly

\* The gate and the form count exactly the judged and refused attempts, whatever
\* the interleaving of the form, the gate, the token check and the OIDC routes.
THEOREM CountsAreAttempts == GateSpec => AttemptsAreCounted
PROOF
<1>1. GateInv /\ [GateNext]_gateVars
        => \A k \in Key : OwnStep /\ failures[k] < CountCap => CountsRightly(k)
    <2> SUFFICES ASSUME GateInv, [GateNext]_gateVars, NEW k \in Key, OwnStep,
                        failures[k] < CountCap
                 PROVE  CountsRightly(k)
        OBVIOUS
    <2>1. ASSUME NEW r \in Req, GateStep(r) PROVE CountsRightly(k)
        BY <2>1, GateRequestCounts, TokenCounts, LoginPostCounts, FormCounts, FreedCounts
           DEF GateStep, LoginRight, LoginWrong, LoginBlank
    <2>2. CASE Restart \/ Time \/ UNCHANGED gateVars
        BY <2>2, FreedCounts
    <2>3. CASE OidcCounts \/ OidcSignsIn
        BY <2>3 DEF OidcCounts, OidcSignsIn, OwnStep
    <2> QED BY <2>1, <2>2, <2>3 DEF GateNext
<1>2. GateInv /\ [GateNext]_gateVars
        => [\A k \in Key : OwnStep /\ failures[k] < CountCap =>
              (failures'[k] > failures[k] <=>
                 \E r \in Req :
                    /\ AnswersNow(r, k)
                    /\ handler'[r].lines > 0 \/ handler'[r].status = "500"
                    /\ handler'[r].offer # "none" \/ handler'[r].cookie # NoCookie)]_gateVars
    BY <1>1 DEF CountsRightly, ChargedAnswer
<1> QED BY GateInvariant, <1>2, PTL DEF GateSpec, AttemptsAreCounted


----------------------------------------------------------------------------
(* The limiter inside the gate                                             *)

\* Every step of the gate and of the form is a step of the limiter or leaves
\* it alone, also the ones that end an await.
LEMMA GateStepLimits ==
    ASSUME GateInv, [GateNext]_gateVars
    PROVE  [LimiterNext]_limiterVars
PROOF
<1>1. ASSUME NEW r \in Req, handler[r].at \in {"checking", "body"}
      PROVE  handler[r].key \in Key
    BY <1>1, AwaitedAsk, ReadingKey DEF AskOK
<1>2. ASSUME NEW r \in Req, NEW q, q.key \in Key, NEW refused, Refuse(r, q, refused)
      PROVE  [LimiterNext]_limiterVars
    BY <1>2 DEF Refuse, LimiterNext
<1>3. ASSUME NEW r \in Req, NEW q \in Request, GateRequest(r, q)
      PROVE  [LimiterNext]_limiterVars
    BY <1>2, <1>3 DEF GateRequest, Judge, Request, LimiterNext
<1>4. ASSUME NEW r \in Req,
             TokenAccepted(r) \/ TokenRefused(r) \/ TokenUnchecked(r) \/ TokenRaised(r)
      PROVE  [LimiterNext]_limiterVars
    BY <1>1, <1>2, <1>4 DEF TokenAccepted, TokenRefused, TokenUnchecked, TokenRaised,
                           LimiterNext, limiterVars
<1>5. ASSUME NEW r \in Req, \/ \E k \in Key : LoginPost(r, k)
                            \/ LoginRight(r) \/ LoginWrong(r) \/ LoginBlank(r)
                            \/ LoginAbandoned(r) \/ Delivered(r)
      PROVE  [LimiterNext]_limiterVars
    BY <1>1, <1>5 DEF LoginPost, LoginRight, LoginWrong, LoginBlank, LoginAbandoned, Delivered,
                      LimiterNext, limiterVars
<1>6. ASSUME OidcCounts \/ OidcSignsIn \/ Restart \/ Time \/ UNCHANGED gateVars
      PROVE  [LimiterNext]_limiterVars
    BY <1>6 DEF OidcCounts, OidcSignsIn, Restart, Time, gateVars, LimiterNext, limiterVars
<1> QED BY <1>3, <1>4, <1>5, <1>6 DEF GateNext, GateStep

\* The gate and the form use the limiter as RateLimiter says: what is proved
\* of the limiter alone holds of it here, whatever request overtakes another.
THEOREM GateImplementsLimiter == GateSpec => LimiterSpec
PROOF
<1>1. GateInit => LimiterInit
    BY DEF GateInit
<1>2. GateInv /\ [GateNext]_gateVars => [LimiterNext]_limiterVars
    BY GateStepLimits
<1> QED BY <1>1, <1>2, GateInvariant, PTL DEF GateSpec, LimiterSpec

\* No wait at the gate outlasts the delay of the failures that caused it, also
\* when a right and a wrong credential of one caller overtake each other.
THEOREM GateWaitsAreBounded == GateSpec => []WaitWithinDelay
BY GateImplementsLimiter, WaitIsBounded, PTL

\* A form or a token that fails inside its caller's wait does not shorten it.
THEOREM GateWaitsOnlyGrow == GateSpec => FailureNeverShortensWait
BY GateImplementsLimiter, WaitsOnlyGrow, PTL
====
