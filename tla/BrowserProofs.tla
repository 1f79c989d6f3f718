---- MODULE BrowserProofs ----
(***************************************************************************)
(* What the cookie jar of a browser holds and sends, for any number of     *)
(* tabs of both schemes, logins and restarts, and answers in any order.    *)
(*                                                                         *)
(* The inductive invariant follows a token from the answer of its login,   *)
(* where nothing else knows it, through the jar and the requests to the    *)
(* answer that turns it away.                                              *)
(***************************************************************************)
EXTENDS Browser, TLAPS

\* A token that no request has carried yet.
Unseen(k) ==
    /\ jar.token # k
    /\ k \notin gone
    /\ \A t \in Tab, l \in Lane :
        /\ flight[t][l].at = "sent" => flight[t][l].cookie # k
        /\ flight[t][l].at = "answered" => flight[t][l].rejects # k

\* A token that a request of tab t may carry.
MaySend(t, k) == k \in DOMAIN over /\ (Scheme[t] = "http" => over[k] = "http")

RequestFits(t, r) ==
    /\ r.at = "sent" /\ r.cookie # NoCookie => MaySend(t, r.cookie)
    /\ r.at = "answered" =>
        /\ r.expires = r.rejects
        /\ r.rejects # NoCookie =>
            /\ r.sets = NoCookie
            /\ r.rejects \notin sessions
            /\ MaySend(t, r.rejects)
        /\ r.sets # NoCookie => r.sets \in DOMAIN over /\ over[r.sets] = Scheme[t]
        /\ r.kind = "post" => r.sets # NoCookie

RequestsFit == \A t \in Tab, l \in Lane : RequestFits(t, flight[t][l])

\* The answer of a login brings a token that nothing else has seen.
LoginsAreFresh ==
    \A t \in Tab, l \in Lane :
        (flight[t][l].at = "answered" /\ flight[t][l].sets # NoCookie) =>
            /\ Unseen(flight[t][l].sets)
            /\ \A u \in Tab, m \in Lane :
                (flight[u][m].at = "answered" /\ flight[u][m].sets = flight[t][l].sets) =>
                    u = t /\ m = l

JarFits ==
    /\ jar.token = NoCookie => ~jar.secure
    /\ jar.token # NoCookie => jar.token \in DOMAIN over /\ (jar.secure <=> over[jar.token] = "https")
    /\ NoCookie \notin gone
    /\ RejectedCookieIsGone

TokensFit ==
    /\ sessions \subseteq DOMAIN over
    /\ gone \subseteq DOMAIN over
    /\ gone \cap sessions = {}

CookieInv == TokensFit /\ JarFits /\ RequestsFit /\ LoginsAreFresh

BrowserInv == BrowserTypeOK /\ CookieInv

----------------------------------------------------------------------------
(* Types                                                                   *)

LEMMA RequestTypes ==
    ASSUME NEW t \in Tab, NEW kind \in Kind,
           NEW j \in [token : SessionToken \cup {NoCookie}, secure : BOOLEAN]
    PROVE  /\ Presented(t, j) \in SessionToken \cup {NoCookie}
           /\ Request(t, kind, j) \in Sent
BY DEF Presented, Request, Sent

LEMMA AnswerTypes ==
    ASSUME NEW kind \in Kind, NEW k \in SessionToken \cup {NoCookie},
           NEW e \in SessionToken \cup {NoCookie}
    PROVE  Passed(kind, k) \in Answered /\ Rejected(kind, k, e) \in Answered
BY DEF Passed, Rejected, Answered

\* The page of a tab goes: what stays of its requests.
LEMMA OrphanedTypes ==
    ASSUME NEW f \in [Lane -> {Idle, Open} \cup Sent \cup Answered]
    PROVE  /\ Orphaned(f) \in [Lane -> {Idle, Open} \cup Sent \cup Answered]
           /\ Orphaned(f)["nav"] = f["nav"]
           /\ \A l \in {"socket", "fetch"} :
                Orphaned(f)[l] = Idle \/ Orphaned(f)[l].kind = "orphan"
           /\ \A l \in Lane :
                \/ Orphaned(f)[l] = f[l]
                \/ Orphaned(f)[l] = Idle
                \/ /\ f[l] \in Sent \cup Answered
                   /\ Orphaned(f)[l] = [f[l] EXCEPT !.kind = "orphan"]
<1>1. \A l \in Lane : TouchesJar(f[l]) => f[l] \in Sent \cup Answered
    BY DEF TouchesJar, Idle, Open
<1>2. \A r \in Sent : [r EXCEPT !.kind = "orphan"] \in Sent /\ [r EXCEPT !.kind = "orphan"].kind = "orphan"
    BY DEF Sent, Kind
<1>3. \A r \in Answered : [r EXCEPT !.kind = "orphan"] \in Answered /\ [r EXCEPT !.kind = "orphan"].kind = "orphan"
    BY DEF Answered, Kind
<1>4. \A l \in Lane : f[l] \in {Idle, Open} \cup Sent \cup Answered
    OBVIOUS
<1> QED BY <1>1, <1>2, <1>3, <1>4 DEF Orphaned, Lane

\* The variables but for the last conjunct of the type invariant, which ties the requests
\* of a page to the page.
Shapes ==
    /\ sessions \subseteq SessionToken
    /\ over \in Seq({"http", "https"}) /\ Len(over) <= MaxLogins
    /\ jar \in [token : SessionToken \cup {NoCookie}, secure : BOOLEAN]
    /\ tab \in [Tab -> [page : Page, mayProbe : BOOLEAN, mayMove : BOOLEAN]]
    /\ flight \in [Tab -> [Lane -> {Idle, Open} \cup Sent \cup Answered]]
    /\ gone \subseteq SessionToken

\* A page that is gone leaves only answers behind.
PageHolds(t) ==
    \A l \in {"socket", "fetch"} :
        ~HasScript(t) => flight[t][l] = Idle \/ flight[t][l].kind = "orphan"

LEMMA TypeParts == BrowserTypeOK <=> Shapes /\ \A t \in Tab : PageHolds(t)
BY DEF BrowserTypeOK, Shapes, PageHolds

\* One lane of one tab changes, and the page keeps its script or the lane fits it.
LEMMA OneLane ==
    ASSUME BrowserTypeOK, NEW t \in Tab, NEW l \in Lane,
           NEW r \in {Idle, Open} \cup Sent \cup Answered,
           flight' = [flight EXCEPT ![t][l] = r],
           tab' \in [Tab -> [page : Page, mayProbe : BOOLEAN, mayMove : BOOLEAN]],
           \A u \in Tab : HasScript(u)' = HasScript(u),
           HasScript(t) \/ l = "nav" \/ r = Idle \/ r.kind = "orphan",
           sessions' \subseteq SessionToken,
           over' \in Seq({"http", "https"}), Len(over') <= MaxLogins,
           jar' \in [token : SessionToken \cup {NoCookie}, secure : BOOLEAN],
           gone' \subseteq SessionToken
    PROVE  BrowserTypeOK'
<1>1. flight' \in [Tab -> [Lane -> {Idle, Open} \cup Sent \cup Answered]]
    BY DEF BrowserTypeOK
<1>2. ASSUME NEW u \in Tab, NEW m \in {"socket", "fetch"}, ~HasScript(u)'
      PROVE  flight'[u][m] = Idle \/ flight'[u][m].kind = "orphan"
    <2>1. ~HasScript(u) /\ m \in Lane
        BY <1>2 DEF Lane
    <2>2. flight'[u][m] = IF u = t /\ m = l THEN r ELSE flight[u][m]
        BY <2>1 DEF BrowserTypeOK
    <2> QED BY <1>2, <2>1, <2>2 DEF BrowserTypeOK
<1> QED BY <1>1, <1>2 DEF BrowserTypeOK

LEMMA JarTypes ==
    ASSUME Shapes, NEW t \in Tab, NEW a \in Answered
    PROVE  JarAfter(t, a) \in [token : SessionToken \cup {NoCookie}, secure : BOOLEAN]
BY BrowserAssumption DEF JarAfter, Stored, SecureFlag, NoCookies, Answered, Shapes

LEMMA ArrivalTypes ==
    ASSUME Shapes, NEW t \in Tab, NEW a \in Answered, CookieArrives(t, a)
    PROVE  /\ jar' \in [token : SessionToken \cup {NoCookie}, secure : BOOLEAN]
           /\ gone' \subseteq SessionToken
           /\ sessions' = sessions /\ over' = over
<1>1. a.rejects \in SessionToken \cup {NoCookie}
    BY DEF Answered
<1> QED BY <1>1, JarTypes DEF CookieArrives, Shapes

\* A tab that leaves has its script until it is gone.
LEMMA TabTypes ==
    ASSUME Shapes, NEW t \in Tab
    PROVE  /\ Leave(t) \in [Tab -> [page : Page, mayProbe : BOOLEAN, mayMove : BOOLEAN]]
           /\ \A u \in Tab : Leave(t)[u].page # "login" <=> HasScript(u)
           /\ \A p \in Page :
                /\ Loaded(t, p) \in [Tab -> [page : Page, mayProbe : BOOLEAN, mayMove : BOOLEAN]]
                /\ \A u \in Tab \ {t} : Loaded(t, p)[u] = tab[u]
BY DEF Shapes, Leave, Loaded, HasScript, Page

\* A request or an answer is told from the rest by its stage.
LEMMA Stages ==
    ASSUME Shapes, NEW t \in Tab, NEW l \in Lane
    PROVE  /\ flight[t][l].at = "sent" => flight[t][l] \in Sent
           /\ flight[t][l].at = "answered" => flight[t][l] \in Answered
           /\ flight[t][l].at \in {"sent", "answered"} =>
                flight[t][l].kind \in Kind /\ flight[t][l] # Idle
           /\ flight[t][l] \in {Idle, Open} => flight[t][l].at \in {"idle", "open"}
<1>1. flight[t][l] \in {Idle, Open} \cup Sent \cup Answered
    BY DEF Shapes
<1> QED BY <1>1 DEF Idle, Open, Sent, Answered

\* In a script's lane of a page without script only what the page left behind is under way.
LEMMA ScriptLanes ==
    ASSUME BrowserTypeOK, NEW t \in Tab, NEW l \in Lane, flight[t][l].at \in {"sent", "answered"}
    PROVE  HasScript(t) \/ l = "nav" \/ flight[t][l].kind = "orphan"
<1>1. flight[t][l] # Idle
    BY Stages, TypeParts
<1> QED BY <1>1 DEF BrowserTypeOK, Lane

LEMMA SendTypes ==
    ASSUME BrowserTypeOK, NEW t \in Tab, OpenSocket(t) \/ Fetch(t) \/ Visit(t)
    PROVE  BrowserTypeOK'
<1>1. PICK l \in Lane, kind \in Kind :
        /\ flight' = [flight EXCEPT ![t][l] = Request(t, kind, jar)]
        /\ HasScript(t) \/ l = "nav"
    BY DEF OpenSocket, Fetch, Visit, Lane, Kind
<1>2. UNCHANGED <<sessions, over, jar, tab, gone>>
    BY DEF OpenSocket, Fetch, Visit
<1>3. Request(t, kind, jar) \in {Idle, Open} \cup Sent \cup Answered
    BY RequestTypes DEF BrowserTypeOK
<1>4. \A u \in Tab : HasScript(u)' = HasScript(u)
    BY <1>2 DEF HasScript
<1> QED BY <1>1, <1>2, <1>3, <1>4, OneLane DEF BrowserTypeOK

LEMMA ServeTypes ==
    ASSUME BrowserTypeOK, NEW t \in Tab, NEW lane \in Lane, Serve(t, lane)
    PROVE  BrowserTypeOK'
<1> DEFINE r == flight[t][lane]
<1>1. r \in Sent /\ r.at = "sent"
    BY Stages, TypeParts DEF Serve
<1>2. PICK a \in Answered : flight' = [flight EXCEPT ![t][lane] = a] /\ a.kind = r.kind
    <2>1. r.kind \in Kind /\ r.cookie \in SessionToken \cup {NoCookie}
        BY <1>1 DEF Sent
    <2>2. PICK blocked \in BOOLEAN : flight' = [flight EXCEPT ![t][lane] =
                IF Passes(r.cookie, blocked) THEN Passed(r.kind, NoCookie)
                ELSE Rejected(r.kind, r.cookie, Expired(r.cookie, blocked))]
        BY DEF Serve
    <2>3. Passed(r.kind, NoCookie) \in Answered
          /\ Rejected(r.kind, r.cookie, Expired(r.cookie, blocked)) \in Answered
        BY <2>1 DEF Expired, Passed, Rejected, Answered
    <2> QED BY <2>2, <2>3 DEF Passed, Rejected
<1>3. UNCHANGED <<sessions, over, jar, tab, gone>>
    BY DEF Serve
<1>4. \A u \in Tab : HasScript(u)' = HasScript(u)
    BY <1>3 DEF HasScript
<1>5. HasScript(t) \/ lane = "nav" \/ a.kind = "orphan"
    BY <1>1, <1>2, ScriptLanes
<1> QED BY <1>2, <1>3, <1>4, <1>5, OneLane DEF BrowserTypeOK

LEMMA LoginTypes ==
    ASSUME BrowserTypeOK, NEW t \in Tab, ServeLogin(t) \/ ServeWrongLogin(t)
    PROVE  BrowserTypeOK'
<1>1. UNCHANGED <<jar, tab, gone>>
    BY DEF ServeLogin, ServeWrongLogin
<1>2. \A u \in Tab : HasScript(u)' = HasScript(u)
    BY <1>1 DEF HasScript
<1>3. "nav" \in Lane
    BY DEF Lane
<1>4. CASE ServeLogin(t)
    <2>1. Len(over) + 1 \in SessionToken /\ over \in Seq({"http", "https"})
          /\ over' = Append(over, Scheme[t]) /\ Scheme[t] \in {"http", "https"}
        BY <1>4, BrowserAssumption DEF ServeLogin, BrowserTypeOK
    <2>2. over' \in Seq({"http", "https"}) /\ Len(over') <= MaxLogins
        BY <2>1, BrowserAssumption DEF SessionToken
    <2>3. sessions' \subseteq SessionToken
        BY <1>4, <2>1 DEF ServeLogin, BrowserTypeOK
    <2>4. Passed("post", Len(over) + 1) \in Answered
        BY <2>1, AnswerTypes DEF Kind
    <2> QED BY <1>1, <1>2, <1>3, <1>4, <2>2, <2>3, <2>4, OneLane DEF ServeLogin, BrowserTypeOK
<1>5. CASE ServeWrongLogin(t)
    BY <1>1, <1>2, <1>3, <1>5, OneLane DEF ServeWrongLogin, BrowserTypeOK
<1> QED BY <1>4, <1>5

LEMMA RestartTypes ==
    ASSUME BrowserTypeOK, Restart PROVE BrowserTypeOK'
<1>1. flight' \in [Tab -> [Lane -> {Idle, Open} \cup Sent \cup Answered]]
      /\ \A t \in Tab, l \in Lane : flight'[t][l] \in {Idle, flight[t][l]}
    BY DEF Restart, BrowserTypeOK
<1> QED BY <1>1 DEF Restart, BrowserTypeOK, HasScript, Lane

LEMMA IntervalTypes ==
    ASSUME BrowserTypeOK, NEW t \in Tab, ProbeIntervalEnds(t) \/ MoveIntervalEnds(t)
    PROVE  BrowserTypeOK'
<1>1. \A u \in Tab : HasScript(u)' = HasScript(u)
    <2>1. \A u \in Tab : tab'[u].page = tab[u].page
        BY DEF BrowserTypeOK, ProbeIntervalEnds, MoveIntervalEnds
    <2> QED BY <2>1 DEF HasScript
<1>2. tab' \in [Tab -> [page : Page, mayProbe : BOOLEAN, mayMove : BOOLEAN]]
    BY DEF BrowserTypeOK, ProbeIntervalEnds, MoveIntervalEnds
<1> QED BY <1>1, <1>2 DEF ProbeIntervalEnds, MoveIntervalEnds, BrowserTypeOK

\* A page loads in tab t and the requests of the old one are left behind.
LEMMA LoadedTypes ==
    ASSUME BrowserTypeOK, NEW t \in Tab, NEW p \in Page, tab' = Loaded(t, p),
           NEW g, g = Orphaned(flight[t]) \/ g = [Orphaned(flight[t]) EXCEPT !["nav"] = Idle],
           flight' = [flight EXCEPT ![t] = g],
           sessions' = sessions, over' = over, gone' \subseteq SessionToken,
           jar' \in [token : SessionToken \cup {NoCookie}, secure : BOOLEAN]
    PROVE  BrowserTypeOK'
<1>1. flight[t] \in [Lane -> {Idle, Open} \cup Sent \cup Answered]
    BY DEF BrowserTypeOK
<1>2. g \in [Lane -> {Idle, Open} \cup Sent \cup Answered]
      /\ \A l \in {"socket", "fetch"} : g[l] = Idle \/ g[l].kind = "orphan"
    <2>1. PICK o \in [Lane -> {Idle, Open} \cup Sent \cup Answered] :
            /\ g = o \/ g = [o EXCEPT !["nav"] = Idle]
            /\ \A l \in {"socket", "fetch"} : o[l] = Idle \/ o[l].kind = "orphan"
        BY <1>1, OrphanedTypes
    <2> QED BY <2>1 DEF Lane
<1>3. flight' \in [Tab -> [Lane -> {Idle, Open} \cup Sent \cup Answered]]
    BY <1>2 DEF BrowserTypeOK
<1>4. tab' \in [Tab -> [page : Page, mayProbe : BOOLEAN, mayMove : BOOLEAN]]
      /\ \A u \in Tab \ {t} : tab'[u] = tab[u]
    BY TabTypes, TypeParts
<1>5. \A u \in Tab, l \in {"socket", "fetch"} :
        ~HasScript(u)' => flight'[u][l] = Idle \/ flight'[u][l].kind = "orphan"
    <2> SUFFICES ASSUME NEW u \in Tab, NEW l \in {"socket", "fetch"}, ~HasScript(u)'
                 PROVE  flight'[u][l] = Idle \/ flight'[u][l].kind = "orphan"
        OBVIOUS
    <2>1. CASE u = t
        BY <2>1, <1>2, <1>3 DEF BrowserTypeOK
    <2>2. CASE u # t
        <3>1. flight'[u] = flight[u] /\ ~HasScript(u)
            BY <2>2, <1>4 DEF BrowserTypeOK, HasScript
        <3> QED BY <3>1 DEF BrowserTypeOK
    <2> QED BY <2>1, <2>2
<1> QED BY <1>3, <1>4, <1>5 DEF BrowserTypeOK

LEMMA TabStays ==
    ASSUME Shapes, NEW t \in Tab, tab' \in {tab, Leave(t), [tab EXCEPT ![t].mayProbe = FALSE]}
    PROVE  /\ tab' \in [Tab -> [page : Page, mayProbe : BOOLEAN, mayMove : BOOLEAN]]
           /\ \A u \in Tab : HasScript(u)' = HasScript(u)
<1>1. CASE tab' = tab
    BY <1>1 DEF Shapes, HasScript
<1>2. CASE tab' = Leave(t)
    <2>1. \A u \in Tab : tab'[u].page # "login" <=> tab[u].page # "login"
        BY <1>2, TabTypes DEF HasScript
    <2> QED BY <1>2, <2>1, TabTypes DEF HasScript
<1>3. CASE tab' = [tab EXCEPT ![t].mayProbe = FALSE]
    <2>1. \A u \in Tab : tab'[u].page = tab[u].page
        BY <1>3 DEF Shapes
    <2> QED BY <1>3, <2>1 DEF HasScript, Shapes
<1> QED BY <1>1, <1>2, <1>3

\* An answer arrives in a lane, which it frees or uses for the next request.
LEMMA AnswerLaneTypes ==
    ASSUME BrowserTypeOK, NEW t \in Tab, NEW l \in Lane, flight[t][l].at = "answered",
           CookieArrives(t, flight[t][l]),
           NEW r \in {Idle, Open} \cup Sent, flight' = [flight EXCEPT ![t][l] = r],
           flight[t][l].kind # "orphan" \/ l = "nav" \/ r = Idle,
           tab' \in {tab, Leave(t), [tab EXCEPT ![t].mayProbe = FALSE]}
    PROVE  BrowserTypeOK'
<1>1. flight[t][l] \in Answered
    BY Stages, TypeParts
<1>2. /\ jar' \in [token : SessionToken \cup {NoCookie}, secure : BOOLEAN]
      /\ gone' \subseteq SessionToken /\ sessions' = sessions /\ over' = over
    BY <1>1, ArrivalTypes, TypeParts
<1>3. tab' \in [Tab -> [page : Page, mayProbe : BOOLEAN, mayMove : BOOLEAN]]
      /\ \A u \in Tab : HasScript(u)' = HasScript(u)
    BY TabStays, TypeParts
<1>4. HasScript(t) \/ l = "nav" \/ r = Idle \/ r.kind = "orphan"
    BY ScriptLanes
<1>5. over' \in Seq({"http", "https"}) /\ Len(over') <= MaxLogins /\ sessions' \subseteq SessionToken
    BY <1>2 DEF BrowserTypeOK
<1>6. r \in {Idle, Open} \cup Sent \cup Answered
    OBVIOUS
<1> QED BY <1>2, <1>3, <1>4, <1>5, <1>6, OneLane

LEMMA DeliverTypes ==
    ASSUME BrowserTypeOK, NEW t \in Tab, Deliver(t)
    PROVE  BrowserTypeOK'
<1> DEFINE Answering(l) == flight[t][l].at = "answered" /\ CookieArrives(t, flight[t][l])
<1>1. \A l \in Lane : Answering(l) =>
        /\ flight[t][l] \in Answered
        /\ jar' \in [token : SessionToken \cup {NoCookie}, secure : BOOLEAN]
        /\ gone' \subseteq SessionToken /\ sessions' = sessions /\ over' = over
    BY Stages, ArrivalTypes, TypeParts
<1>2. {"socket", "nav"} \subseteq Lane /\ {"probe", "page"} \subseteq Kind
    BY DEF Lane, Kind
<1>3. CASE SocketAnswer(t)
    <2>1. Answering("socket") /\ flight[t]["socket"].kind # "orphan"
        BY <1>3 DEF SocketAnswer
    <2>2. AfterHandshake(t, jar') \in {Idle, Open} \cup Sent
        BY <1>1, <1>2, <2>1, RequestTypes DEF AfterHandshake
    <2>3. PICK r \in {Idle, Open} \cup Sent : flight' = [flight EXCEPT ![t]["socket"] = r]
        BY <1>3, <2>2 DEF SocketAnswer
    <2>4. tab' \in {tab, Leave(t), [tab EXCEPT ![t].mayProbe = FALSE]}
        BY <1>3 DEF SocketAnswer
    <2> QED BY <1>2, <2>1, <2>3, <2>4, AnswerLaneTypes
<1>4. ASSUME NEW l \in Lane, ScriptAnswer(t, l) \/ OrphanAnswer(t, l) PROVE BrowserTypeOK'
    <2>1. Answering(l) /\ flight' = [flight EXCEPT ![t][l] = Idle] /\ tab' \in {tab, Leave(t)}
        BY <1>4 DEF ScriptAnswer, OrphanAnswer
    <2> QED BY <2>1, AnswerLaneTypes
<1>5. CASE PageAnswer(t)
    <2>1. Answering("nav") /\ flight' = [flight EXCEPT ![t] = [Orphaned(flight[t]) EXCEPT !["nav"] = Idle]]
        BY <1>5 DEF PageAnswer, BrowserTypeOK
    <2>2. PICK p \in Page : tab' = Loaded(t, p)
        BY <1>5 DEF PageAnswer, Page
    <2> QED BY <1>1, <1>2, <2>1, <2>2, LoadedTypes
<1>6. CASE LoginAnswer(t)
    <2>1. Answering("nav") /\ tab' = tab /\ flight' = [flight EXCEPT ![t]["nav"] = Request(t, "page", jar')]
        BY <1>6 DEF LoginAnswer
    <2>2. Request(t, "page", jar') \in {Idle, Open} \cup Sent
        BY <1>1, <1>2, <2>1, RequestTypes
    <2> QED BY <1>2, <2>1, <2>2, AnswerLaneTypes
<1> QED BY <1>3, <1>4, <1>5, <1>6 DEF Deliver

LEMMA LoseTypes ==
    ASSUME BrowserTypeOK, NEW t \in Tab, NEW lane \in Lane, Lose(t, lane)
    PROVE  BrowserTypeOK'
<1>1. UNCHANGED <<sessions, over, jar, gone>> /\ flight[t][lane].at = "answered"
    BY DEF Lose
<1>2. tab' \in [Tab -> [page : Page, mayProbe : BOOLEAN, mayMove : BOOLEAN]]
    BY DEF Lose, BrowserTypeOK
<1>3. \A u \in Tab : HasScript(u)' = HasScript(u)
    <2>1. \A u \in Tab : tab'[u].page = tab[u].page
        BY DEF BrowserTypeOK, Lose
    <2> QED BY <2>1 DEF HasScript
<1>4. AfterHandshake(t, jar) \in {Idle, Open} \cup Sent
    <2>1. "probe" \in Kind
        BY DEF Kind
    <2> QED BY <2>1, RequestTypes DEF AfterHandshake, BrowserTypeOK
<1>5. CASE flight[t][lane].kind = "ws"
    <2>1. flight' = [flight EXCEPT ![t][lane] = AfterHandshake(t, jar)]
        BY <1>5 DEF Lose
    <2>2. HasScript(t) \/ lane = "nav"
        BY <1>1, <1>5, ScriptLanes
    <2> QED BY <1>1, <1>2, <1>3, <1>4, <2>1, <2>2, OneLane DEF BrowserTypeOK
<1>6. CASE flight[t][lane].kind # "ws"
    <2>1. flight' = [flight EXCEPT ![t][lane] = Idle]
        BY <1>6 DEF Lose
    <2> QED BY <1>1, <1>2, <1>3, <2>1, OneLane DEF BrowserTypeOK
<1> QED BY <1>5, <1>6

LEMMA TypesStay ==
    ASSUME BrowserTypeOK, [BrowserNext]_browserVars PROVE BrowserTypeOK'
<1>1. CASE Restart
    BY <1>1, RestartTypes
<1>2. ASSUME NEW t \in Tab, Arrive(t) PROVE BrowserTypeOK'
    <2>1. flight' = [flight EXCEPT ![t] = Orphaned(flight[t])] /\ "login" \in Page
        BY <1>2 DEF Arrive, BrowserTypeOK, Page
    <2> QED BY <1>2, <2>1, LoadedTypes DEF Arrive, BrowserTypeOK
<1>3. ASSUME NEW t \in Tab, TabStep(t) PROVE BrowserTypeOK'
    BY <1>2, <1>3, SendTypes, ServeTypes, LoginTypes, IntervalTypes, DeliverTypes, LoseTypes DEF TabStep
<1>4. CASE UNCHANGED browserVars
    BY <1>4 DEF browserVars, BrowserTypeOK, HasScript
<1> QED BY <1>1, <1>3, <1>4 DEF BrowserNext

----------------------------------------------------------------------------
(* Cookies                                                                 *)

\* A lane is free, or sends the cookie that the jar holds after the step, or goes on
\* with what it had, perhaps without its page.
Tame(t, l) ==
    \/ flight'[t][l] \in {Idle, Open}
    \/ \E kind \in Kind : flight'[t][l] = Request(t, kind, jar')
    \/ flight'[t][l] = flight[t][l]
    \/ /\ flight[t][l] \in Sent \cup Answered
       /\ flight'[t][l] = [flight[t][l] EXCEPT !.kind = "orphan"]

LEMMA Tamed ==
    ASSUME Shapes, NEW t \in Tab, NEW l \in Lane, Tame(t, l)
    PROVE  /\ flight'[t][l].at = "sent" =>
                \/ flight'[t][l].cookie = Presented(t, jar')
                \/ flight[t][l].at = "sent" /\ flight'[t][l].cookie = flight[t][l].cookie
           /\ flight'[t][l].at = "answered" =>
                /\ flight[t][l].at = "answered"
                /\ flight'[t][l].rejects = flight[t][l].rejects
                /\ flight'[t][l].expires = flight[t][l].expires
                /\ flight'[t][l].sets = flight[t][l].sets
                /\ flight'[t][l].kind = "post" => flight[t][l].kind = "post"
<1>1. CASE flight'[t][l] \in {Idle, Open}
    BY <1>1 DEF Idle, Open
<1>2. ASSUME NEW kind \in Kind, flight'[t][l] = Request(t, kind, jar')
      PROVE  flight'[t][l].at = "sent" /\ flight'[t][l].cookie = Presented(t, jar')
    BY <1>2 DEF Request
<1>3. CASE flight'[t][l] = flight[t][l]
    BY <1>3
<1>4. CASE flight[t][l] \in Sent /\ flight'[t][l] = [flight[t][l] EXCEPT !.kind = "orphan"]
    BY <1>4 DEF Sent
<1>5. CASE flight[t][l] \in Answered /\ flight'[t][l] = [flight[t][l] EXCEPT !.kind = "orphan"]
    BY <1>5 DEF Answered
<1> QED BY <1>1, <1>2, <1>3, <1>4, <1>5 DEF Tame

\* The jar after an answer, and what the browser was told.
LEMMA JarFacts ==
    ASSUME Shapes, CookieInv, NEW t \in Tab, NEW l \in Lane,
           flight[t][l].at = "answered", CookieArrives(t, flight[t][l])
    PROVE  /\ jar'.token \in {jar.token, NoCookie, flight[t][l].sets}
           /\ gone' \subseteq gone \cup {flight[t][l].rejects}
           /\ (JarFits /\ TokensFit)'
<1> DEFINE a == flight[t][l]
<1>1. a \in Answered
    BY Stages
<1>2. /\ a.expires = a.rejects
      /\ a.rejects # NoCookie => a.sets = NoCookie /\ a.rejects \notin sessions /\ MaySend(t, a.rejects)
      /\ a.sets # NoCookie => a.sets \in DOMAIN over /\ over[a.sets] = Scheme[t] /\ a.sets \notin gone
    BY DEF CookieInv, RequestsFit, RequestFits, LoginsAreFresh, Unseen
<1>3. gone' = (gone \cup {a.rejects}) \ {NoCookie} /\ sessions' = sessions /\ over' = over
      /\ jar' = JarAfter(t, a)
    BY DEF CookieArrives
<1>4. Scheme[t] \in {"http", "https"} /\ over \in Seq({"http", "https"})
      /\ jar \in [token : SessionToken \cup {NoCookie}, secure : BOOLEAN]
    BY BrowserAssumption DEF Shapes
<1>5. TokensFit'
    BY <1>2, <1>3 DEF CookieInv, TokensFit, MaySend
<1>6. CASE a.sets # NoCookie
    <2>1. jar' = Stored(t, a.sets, jar) /\ gone' = gone
        BY <1>2, <1>3, <1>6 DEF JarAfter, CookieInv, JarFits
    <2>2. CASE jar' = jar
        BY <1>3, <1>5, <2>1, <2>2 DEF CookieInv, JarFits, RejectedCookieIsGone
    <2>3. CASE jar' # jar
        <3>1. jar' = [token |-> a.sets, secure |-> (Scheme[t] = "https")]
            BY <2>1, <2>3, <1>6 DEF Stored, SecureFlag
        <3>2. jar'.token = a.sets /\ jar'.secure = (Scheme[t] = "https")
            BY <3>1
        <3> QED BY <1>2, <1>3, <1>5, <1>6, <2>1, <3>2 DEF CookieInv, JarFits, RejectedCookieIsGone
    <2> QED BY <2>2, <2>3
<1>7. CASE a.sets = NoCookie /\ a.expires # NoCookie
    <2>1. jar' = Stored(t, NoCookie, jar)
        BY <1>3, <1>7 DEF JarAfter
    <2>2. CASE Scheme[t] = "http" /\ jar.secure
        <3>1. jar' = jar
            BY <2>1, <2>2 DEF Stored
        <3>2. over[a.rejects] = "http" /\ jar.token # NoCookie /\ over[jar.token] = "https"
            BY <1>2, <1>7, <2>2 DEF MaySend, CookieInv, JarFits
        <3> QED BY <1>3, <1>5, <3>1, <3>2 DEF CookieInv, JarFits, RejectedCookieIsGone
    <2>3. CASE ~(Scheme[t] = "http" /\ jar.secure)
        <3>1. jar' = NoCookies
            BY <2>1, <2>3 DEF Stored, SecureFlag
        <3>2. jar'.token = NoCookie /\ ~jar'.secure
            BY <3>1 DEF NoCookies
        <3> QED BY <1>3, <1>5, <3>2 DEF JarFits, RejectedCookieIsGone
    <2> QED BY <2>2, <2>3
<1>8. CASE a.sets = NoCookie /\ a.expires = NoCookie
    <2>1. jar' = jar /\ gone' = gone
        BY <1>2, <1>3, <1>8 DEF JarAfter, CookieInv, JarFits
    <2> QED BY <1>3, <1>5, <2>1 DEF CookieInv, JarFits, RejectedCookieIsGone
<1> QED BY <1>6, <1>7, <1>8

\* Tokens stay where they may be in every step that serves nothing.
LEMMA TameSteps ==
    ASSUME Shapes, CookieInv, over' = over, sessions' \subseteq sessions,
           (JarFits /\ TokensFit)',
           \A t \in Tab, l \in Lane : Tame(t, l),
           \/ jar' = jar /\ gone' = gone
           \/ \E t \in Tab, l \in Lane :
                /\ flight[t][l].at = "answered" /\ flight'[t][l].at # "answered"
                /\ jar'.token \in {jar.token, NoCookie, flight[t][l].sets}
                /\ gone' \subseteq gone \cup {flight[t][l].rejects}
    PROVE  CookieInv'
<1>1. \A t \in Tab : Presented(t, jar') # NoCookie =>
            Presented(t, jar') = jar'.token /\ MaySend(t, jar'.token)
    <2>1. /\ jar'.token # NoCookie => jar'.token \in DOMAIN over
          /\ jar'.token # NoCookie => (jar'.secure <=> over[jar'.token] = "https")
        BY DEF JarFits
    <2>2. over \in Seq({"http", "https"})
        BY DEF Shapes
    <2> QED BY <2>1, <2>2 DEF Presented, MaySend
<1>2. RequestsFit'
    <2> SUFFICES ASSUME NEW t \in Tab, NEW l \in Lane PROVE RequestFits(t, flight[t][l])'
        BY DEF RequestsFit
    <2> DEFINE r == flight[t][l]
               s == flight'[t][l]
    <2>1. RequestFits(t, r)
        BY DEF CookieInv, RequestsFit
    <2>2. Tame(t, l)
        OBVIOUS
    <2>3. s.at = "sent" /\ s.cookie # NoCookie => MaySend(t, s.cookie)
        BY <1>1, <2>1, <2>2, Tamed DEF RequestFits
    <2>4. s.at = "answered" => RequestFits(t, s)
        <3> SUFFICES ASSUME s.at = "answered" PROVE RequestFits(t, s)
            OBVIOUS
        <3>1. /\ r.at = "answered" /\ s.rejects = r.rejects /\ s.expires = r.expires
              /\ s.sets = r.sets /\ (s.kind = "post" => r.kind = "post")
            BY <2>2, Tamed
        <3> QED BY <2>1, <3>1 DEF RequestFits
    <2>5. RequestFits(t, s)
        BY <2>3, <2>4 DEF RequestFits
    <2> HIDE DEF r
    <2> QED BY <2>5 DEF RequestFits, MaySend
<1>3. LoginsAreFresh'
    <2> SUFFICES ASSUME NEW t \in Tab, NEW l \in Lane,
                        flight'[t][l].at = "answered", flight'[t][l].sets # NoCookie
                 PROVE  /\ Unseen(flight[t][l].sets)'
                        /\ \A u \in Tab, m \in Lane :
                            (flight'[u][m].at = "answered" /\ flight'[u][m].sets = flight'[t][l].sets) =>
                                u = t /\ m = l
        BY DEF LoginsAreFresh
    <2> DEFINE k == flight[t][l].sets
    <2>1. flight[t][l].at = "answered" /\ flight'[t][l].sets = k /\ k # NoCookie
        BY Tamed
    <2>2. Unseen(k) /\ \A u \in Tab, m \in Lane :
            (flight[u][m].at = "answered" /\ flight[u][m].sets = k) => u = t /\ m = l
        BY <2>1 DEF CookieInv, LoginsAreFresh
    <2>3. jar'.token # k /\ k \notin gone'
        BY <2>1, <2>2 DEF Unseen
    <2>4. ASSUME NEW u \in Tab, NEW m \in Lane
          PROVE  /\ flight'[u][m].at = "sent" => flight'[u][m].cookie # k
                 /\ flight'[u][m].at = "answered" => flight'[u][m].rejects # k
        BY <1>1, <2>1, <2>2, <2>3, Tamed DEF Unseen
    <2>5. Unseen(flight[t][l].sets)'
        BY <2>1, <2>3, <2>4 DEF Unseen
    <2> QED BY <2>1, <2>2, <2>5, Tamed
<1> QED BY <1>2, <1>3 DEF CookieInv


LEMMA QuietSteps ==
    ASSUME Shapes, CookieInv, over' = over, sessions' \subseteq sessions, jar' = jar, gone' = gone,
           \A t \in Tab, l \in Lane : Tame(t, l)
    PROVE  CookieInv'
<1>1. (JarFits /\ TokensFit)'
    BY DEF CookieInv, JarFits, TokensFit, RejectedCookieIsGone
<1> QED BY <1>1, TameSteps

LEMMA TameLane ==
    ASSUME Shapes, NEW t \in Tab, NEW l \in Lane, NEW r, flight' = [flight EXCEPT ![t][l] = r],
           r \in {Idle, Open} \/ \E kind \in Kind : r = Request(t, kind, jar')
    PROVE  /\ flight'[t][l] = r
           /\ \A u \in Tab, m \in Lane : Tame(u, m)
<1>1. flight'[t][l] = r
    BY DEF Shapes
<1>2. Tame(t, l)
    BY <1>1 DEF Tame
<1>3. ASSUME NEW u \in Tab, NEW m \in Lane, u # t \/ m # l PROVE Tame(u, m)
    <2>1. flight'[u][m] = flight[u][m]
        BY <1>3 DEF Shapes
    <2> QED BY <2>1 DEF Tame
<1> QED BY <1>1, <1>2, <1>3

LEMMA TamePage ==
    ASSUME Shapes, NEW t \in Tab, NEW g, flight' = [flight EXCEPT ![t] = g],
           g \in {Orphaned(flight[t]), [Orphaned(flight[t]) EXCEPT !["nav"] = Idle]}
    PROVE  /\ flight'[t] = g
           /\ \A u \in Tab, m \in Lane : Tame(u, m)
<1>1. flight'[t] = g /\ flight[t] \in [Lane -> {Idle, Open} \cup Sent \cup Answered]
    BY DEF Shapes
<1>2. ASSUME NEW m \in Lane PROVE Tame(t, m)
    <2>1. \/ g[m] = flight[t][m]
          \/ g[m] = Idle
          \/ /\ flight[t][m] \in Sent \cup Answered
             /\ g[m] = [flight[t][m] EXCEPT !.kind = "orphan"]
        <3>1. g[m] = Orphaned(flight[t])[m] \/ g[m] = Idle
            BY <1>1, OrphanedTypes
        <3> QED BY <1>1, <3>1, OrphanedTypes
    <2> QED BY <1>1, <2>1 DEF Tame
<1>3. ASSUME NEW u \in Tab, NEW m \in Lane, u # t PROVE Tame(u, m)
    <2>1. flight'[u][m] = flight[u][m]
        BY <1>3 DEF Shapes
    <2> QED BY <2>1 DEF Tame
<1> QED BY <1>1, <1>2, <1>3

\* The steps in which the jar rests.
LEMMA RestingJar ==
    ASSUME BrowserTypeOK, CookieInv, NEW t \in Tab,
           \/ OpenSocket(t) \/ Fetch(t) \/ Visit(t) \/ ServeWrongLogin(t) \/ Arrive(t)
           \/ ProbeIntervalEnds(t) \/ MoveIntervalEnds(t)
           \/ \E lane \in Lane : Lose(t, lane)
    PROVE  CookieInv'
<1>1. UNCHANGED <<sessions, over, jar, gone>> /\ Shapes
    BY TypeParts DEF OpenSocket, Fetch, Visit, ServeWrongLogin, Arrive, ProbeIntervalEnds,
        MoveIntervalEnds, Lose
<1>2. {"socket", "fetch", "nav"} \subseteq Lane /\ {"ws", "probe", "fetch", "page", "post"} \subseteq Kind
    BY DEF Lane, Kind
<1>3. \A u \in Tab, m \in Lane : Tame(u, m)
    <2>1. CASE OpenSocket(t) \/ Fetch(t) \/ Visit(t)
        <3>1. PICK l \in Lane, kind \in Kind : flight' = [flight EXCEPT ![t][l] = Request(t, kind, jar)]
            BY <1>2, <2>1 DEF OpenSocket, Fetch, Visit
        <3> QED BY <1>1, <3>1, TameLane
    <2>2. CASE ServeWrongLogin(t)
        BY <1>1, <1>2, <2>2, TameLane DEF ServeWrongLogin
    <2>3. CASE Arrive(t)
        <3>1. flight' = [flight EXCEPT ![t] = Orphaned(flight[t])]
            BY <2>3 DEF Arrive, BrowserTypeOK
        <3> QED BY <1>1, <3>1, TamePage
    <2>4. CASE ProbeIntervalEnds(t) \/ MoveIntervalEnds(t)
        BY <2>4 DEF ProbeIntervalEnds, MoveIntervalEnds, Tame
    <2>5. ASSUME NEW l \in Lane, Lose(t, l) PROVE \A u \in Tab, m \in Lane : Tame(u, m)
        <3>1. PICK r : /\ flight' = [flight EXCEPT ![t][l] = r]
                       /\ r \in {Idle, Open} \/ r = Request(t, "probe", jar)
            BY <2>5 DEF Lose, AfterHandshake
        <3>2. r \in {Idle, Open} \/ \E kind \in Kind : r = Request(t, kind, jar')
            BY <1>1, <1>2, <3>1
        <3> QED BY <1>1, <3>1, <3>2, TameLane
    <2> QED BY <2>1, <2>2, <2>3, <2>4, <2>5
<1> QED BY <1>1, <1>3, QuietSteps

LEMMA RestartCookies ==
    ASSUME BrowserTypeOK, CookieInv, Restart PROVE CookieInv'
<1>1. \A t \in Tab, l \in Lane : flight'[t][l] \in {Idle, flight[t][l]}
    BY DEF Restart
<1>2. \A t \in Tab, l \in Lane : Tame(t, l)
    BY <1>1 DEF Tame
<1> QED BY <1>2, QuietSteps, TypeParts DEF Restart


\* An answer leaves its lane and acts on the jar.
LEMMA ArrivalCookies ==
    ASSUME Shapes, CookieInv, NEW t \in Tab, NEW l \in Lane, flight[t][l].at = "answered",
           CookieArrives(t, flight[t][l]), flight'[t][l].at # "answered",
           \A u \in Tab, m \in Lane : Tame(u, m)
    PROVE  CookieInv'
<1>1. /\ jar'.token \in {jar.token, NoCookie, flight[t][l].sets}
      /\ gone' \subseteq gone \cup {flight[t][l].rejects}
      /\ (JarFits /\ TokensFit)'
    BY JarFacts
<1>2. over' = over /\ sessions' = sessions
    BY DEF CookieArrives
<1> QED BY <1>1, <1>2, TameSteps

LEMMA DeliverCookies ==
    ASSUME BrowserTypeOK, CookieInv, NEW t \in Tab, Deliver(t)
    PROVE  CookieInv'
<1>1. Shapes /\ {"socket", "nav"} \subseteq Lane /\ {"probe", "page"} \subseteq Kind
    BY TypeParts DEF Lane, Kind
<1>2. ASSUME NEW l \in Lane, NEW r, flight[t][l].at = "answered", CookieArrives(t, flight[t][l]),
             flight' = [flight EXCEPT ![t][l] = r],
             r \in {Idle, Open} \/ \E kind \in Kind : r = Request(t, kind, jar')
      PROVE  CookieInv'
    <2>1. r.at # "answered"
        BY <1>2 DEF Idle, Open, Request
    <2>2. flight'[t][l] = r /\ \A u \in Tab, m \in Lane : Tame(u, m)
        BY <1>1, <1>2, TameLane
    <2> QED BY <1>1, <1>2, <2>1, <2>2, ArrivalCookies
<1>3. CASE SocketAnswer(t)
    <2>1. PICK r : /\ flight' = [flight EXCEPT ![t]["socket"] = r]
                   /\ r \in {Idle, Open} \/ r = Request(t, "probe", jar')
        BY <1>3 DEF SocketAnswer, AfterHandshake
    <2>2. flight[t]["socket"].at = "answered" /\ CookieArrives(t, flight[t]["socket"])
        BY <1>3 DEF SocketAnswer
    <2> QED BY <1>1, <1>2, <2>1, <2>2
<1>4. ASSUME NEW l \in Lane, ScriptAnswer(t, l) \/ OrphanAnswer(t, l) PROVE CookieInv'
    <2>1. /\ flight[t][l].at = "answered" /\ CookieArrives(t, flight[t][l])
          /\ flight' = [flight EXCEPT ![t][l] = Idle]
        BY <1>4 DEF ScriptAnswer, OrphanAnswer
    <2> QED BY <1>2, <2>1
<1>5. CASE PageAnswer(t)
    <2> DEFINE g == [Orphaned(flight[t]) EXCEPT !["nav"] = Idle]
    <2>1. /\ flight[t]["nav"].at = "answered" /\ CookieArrives(t, flight[t]["nav"])
          /\ flight' = [flight EXCEPT ![t] = g]
        BY <1>5 DEF PageAnswer, BrowserTypeOK
    <2>2. flight'[t] = g /\ \A u \in Tab, m \in Lane : Tame(u, m)
        BY <1>1, <2>1, TamePage
    <2>3. g["nav"] = Idle
        <3>1. flight[t] \in [Lane -> {Idle, Open} \cup Sent \cup Answered]
            BY DEF BrowserTypeOK
        <3>2. Orphaned(flight[t]) \in [Lane -> {Idle, Open} \cup Sent \cup Answered]
            BY <3>1, OrphanedTypes
        <3> QED BY <1>1, <3>2
    <2>4. flight'[t]["nav"].at # "answered"
        BY <2>2, <2>3 DEF Idle
    <2> QED BY <1>1, <2>1, <2>2, <2>4, ArrivalCookies
<1>6. CASE LoginAnswer(t)
    <2>1. /\ flight[t]["nav"].at = "answered" /\ CookieArrives(t, flight[t]["nav"])
          /\ flight' = [flight EXCEPT ![t]["nav"] = Request(t, "page", jar')]
        BY <1>6 DEF LoginAnswer
    <2> QED BY <1>1, <1>2, <2>1
<1> QED BY <1>3, <1>4, <1>5, <1>6 DEF Deliver

\* The answer that the gate gives knows no token but the one of its request.
LEMMA ServeCookies ==
    ASSUME BrowserTypeOK, CookieInv, NEW t \in Tab, NEW l \in Lane, Serve(t, l)
    PROVE  CookieInv'
<1> DEFINE r == flight[t][l]
           s == flight'[t][l]
<1>1. /\ UNCHANGED <<sessions, over, jar, gone>> /\ Shapes /\ r \in Sent
      /\ r.at = "sent" /\ r.kind # "post" /\ RequestFits(t, r)
    BY Stages, TypeParts DEF Serve, CookieInv, RequestsFit
<1>2. /\ s.at = "answered" /\ s.kind = r.kind /\ s.sets = NoCookie /\ s.expires = s.rejects
      /\ s.rejects \in {NoCookie, r.cookie}
      /\ s.rejects # NoCookie => r.cookie \notin sessions
    <2>1. PICK blocked \in BOOLEAN : flight' = [flight EXCEPT ![t][l] =
                IF Passes(r.cookie, blocked) THEN Passed(r.kind, NoCookie)
                ELSE Rejected(r.kind, r.cookie, Expired(r.cookie, blocked))]
        BY DEF Serve
    <2>2. s = IF Passes(r.cookie, blocked) THEN Passed(r.kind, NoCookie)
              ELSE Rejected(r.kind, r.cookie, Expired(r.cookie, blocked))
        BY <1>1, <2>1 DEF Shapes
    <2> QED BY <2>2 DEF Passes, Passed, Rejected, Expired
<1>3. \A u \in Tab, m \in Lane : (u = t /\ m = l) \/ flight'[u][m] = flight[u][m]
    BY <1>1 DEF Serve, Shapes
<1>4. (TokensFit /\ JarFits)'
    BY <1>1 DEF CookieInv, JarFits, TokensFit, RejectedCookieIsGone
<1>5. RequestsFit'
    <2>1. RequestFits(t, s)
        BY <1>1, <1>2 DEF RequestFits
    <2>2. ASSUME NEW u \in Tab, NEW m \in Lane PROVE RequestFits(u, flight'[u][m])
        BY <1>3, <2>1 DEF CookieInv, RequestsFit
    <2>3. ASSUME NEW u \in Tab, NEW m \in Lane PROVE RequestFits(u, flight[u][m])'
        <3> HIDE DEF r, s
        <3> QED BY <1>1, <2>2 DEF RequestFits, MaySend
    <2> QED BY <2>3 DEF RequestsFit
<1>6. LoginsAreFresh'
    <2> SUFFICES ASSUME NEW u \in Tab, NEW m \in Lane,
                        flight'[u][m].at = "answered", flight'[u][m].sets # NoCookie
                 PROVE  /\ Unseen(flight[u][m].sets)'
                        /\ \A v \in Tab, n \in Lane :
                            (flight'[v][n].at = "answered" /\ flight'[v][n].sets = flight'[u][m].sets) =>
                                v = u /\ n = m
        BY DEF LoginsAreFresh
    <2> DEFINE k == flight[u][m].sets
    <2>1. flight'[u][m] = flight[u][m] /\ k # NoCookie
        BY <1>2, <1>3
    <2>2. Unseen(k) /\ \A v \in Tab, n \in Lane :
            (flight[v][n].at = "answered" /\ flight[v][n].sets = k) => v = u /\ n = m
        BY <2>1 DEF CookieInv, LoginsAreFresh
    <2>3. ASSUME NEW v \in Tab, NEW n \in Lane
          PROVE  /\ flight'[v][n].at = "sent" => flight'[v][n].cookie # k
                 /\ flight'[v][n].at = "answered" => flight'[v][n].rejects # k
                 /\ flight'[v][n].at = "answered" /\ flight'[v][n].sets = k => v = u /\ n = m
        BY <1>1, <1>2, <1>3, <2>1, <2>2 DEF Unseen
    <2>4. Unseen(flight[u][m].sets)'
        BY <1>1, <2>1, <2>2, <2>3 DEF Unseen
    <2> QED BY <2>1, <2>3, <2>4
<1> QED BY <1>4, <1>5, <1>6 DEF CookieInv


\* The next token of the store is one that nothing knows yet.
LEMMA NextIsUnseen ==
    ASSUME BrowserTypeOK, CookieInv
    PROVE  /\ Len(over) + 1 \notin DOMAIN over /\ Len(over) + 1 # NoCookie
           /\ Unseen(Len(over) + 1)
           /\ \A t \in Tab, l \in Lane : flight[t][l].at = "answered" => flight[t][l].sets # Len(over) + 1
<1>1. over \in Seq({"http", "https"}) /\ Len(over) \in Nat /\ DOMAIN over = 1..Len(over)
    BY DEF BrowserTypeOK
<1>2. Len(over) + 1 \notin DOMAIN over /\ Len(over) + 1 # NoCookie
    BY <1>1 DEF NoCookie
<1>3. jar.token # Len(over) + 1 /\ Len(over) + 1 \notin gone
    BY <1>2 DEF CookieInv, JarFits, TokensFit
<1>4. ASSUME NEW t \in Tab, NEW l \in Lane
      PROVE  /\ flight[t][l].at = "sent" => flight[t][l].cookie # Len(over) + 1
             /\ flight[t][l].at = "answered" =>
                    flight[t][l].rejects # Len(over) + 1 /\ flight[t][l].sets # Len(over) + 1
    <2>1. RequestFits(t, flight[t][l])
        BY DEF CookieInv, RequestsFit
    <2> QED BY <1>2, <2>1 DEF RequestFits, MaySend
<1> QED BY <1>2, <1>3, <1>4 DEF Unseen

LEMMA LoginCookies ==
    ASSUME BrowserTypeOK, CookieInv, NEW t \in Tab, ServeLogin(t)
    PROVE  CookieInv'
<1> DEFINE k == Len(over) + 1
           s == Passed("post", k)
<1>1. /\ UNCHANGED <<jar, gone>> /\ over' = Append(over, Scheme[t]) /\ sessions' = sessions \cup {k}
      /\ flight' = [flight EXCEPT ![t]["nav"] = s]
    BY DEF ServeLogin
<1>2. /\ k \notin DOMAIN over /\ k # NoCookie /\ Unseen(k)
      /\ \A u \in Tab, m \in Lane : flight[u][m].at = "answered" => flight[u][m].sets # k
    BY NextIsUnseen
<1>3. /\ DOMAIN over' = DOMAIN over \cup {k} /\ over'[k] = Scheme[t]
      /\ \A i \in DOMAIN over : over'[i] = over[i]
    <2>1. over \in Seq({"http", "https"}) /\ Scheme[t] \in {"http", "https"}
        BY BrowserAssumption DEF BrowserTypeOK
    <2> QED BY <1>1, <2>1
<1>4. "nav" \in Lane /\ flight'[t]["nav"] = s
      /\ \A u \in Tab, m \in Lane : (u = t /\ m = "nav") \/ flight'[u][m] = flight[u][m]
    BY <1>1 DEF BrowserTypeOK, Lane
<1>5. s.at = "answered" /\ s.kind = "post" /\ s.rejects = NoCookie /\ s.expires = NoCookie /\ s.sets = k
    BY DEF Passed
<1> HIDE DEF s, k
<1>6. TokensFit'
    BY <1>1, <1>2, <1>3 DEF CookieInv, TokensFit, Unseen
<1>7. JarFits'
    BY <1>1, <1>2, <1>3 DEF CookieInv, JarFits, RejectedCookieIsGone
<1>8. RequestsFit'
    <2> SUFFICES ASSUME NEW u \in Tab, NEW m \in Lane PROVE RequestFits(u, flight[u][m])'
        BY DEF RequestsFit
    <2>1. CASE u = t /\ m = "nav"
        <3>1. flight'[u][m] = s
            BY <1>4, <2>1
        <3> QED BY <1>2, <1>3, <1>5, <2>1, <3>1 DEF RequestFits
    <2>2. CASE ~(u = t /\ m = "nav")
        <3>1. flight'[u][m] = flight[u][m] /\ RequestFits(u, flight[u][m])
            BY <1>4, <2>2 DEF CookieInv, RequestsFit
        <3>2. flight[u][m].at = "answered" => flight[u][m].rejects # k
            BY <1>2 DEF Unseen
        <3> QED BY <1>1, <1>3, <3>1, <3>2 DEF RequestFits, MaySend
    <2> QED BY <2>1, <2>2
<1>9. LoginsAreFresh'
    <2> SUFFICES ASSUME NEW u \in Tab, NEW m \in Lane,
                        flight'[u][m].at = "answered", flight'[u][m].sets # NoCookie
                 PROVE  /\ Unseen(flight[u][m].sets)'
                        /\ \A v \in Tab, n \in Lane :
                            (flight'[v][n].at = "answered" /\ flight'[v][n].sets = flight'[u][m].sets) =>
                                v = u /\ n = m
        BY DEF LoginsAreFresh
    <2>1. CASE u = t /\ m = "nav"
        <3>1. flight'[u][m].sets = k
            BY <1>4, <1>5, <2>1
        <3>2. \A v \in Tab, n \in Lane :
                /\ flight'[v][n].at = "sent" => flight'[v][n].cookie # k
                /\ flight'[v][n].at = "answered" => flight'[v][n].rejects # k
                /\ flight'[v][n].at = "answered" /\ flight'[v][n].sets = k => v = t /\ n = "nav"
            BY <1>2, <1>4, <1>5 DEF Unseen
        <3>3. Unseen(flight[u][m].sets)'
            BY <1>1, <1>2, <3>1, <3>2 DEF Unseen
        <3> QED BY <2>1, <3>1, <3>2, <3>3
    <2>2. CASE ~(u = t /\ m = "nav")
        <3>1. flight'[u][m] = flight[u][m]
            BY <1>4, <2>2
        <3>2. Unseen(flight[u][m].sets) /\ \A v \in Tab, n \in Lane :
                (flight[v][n].at = "answered" /\ flight[v][n].sets = flight[u][m].sets) => v = u /\ n = m
            BY <3>1 DEF CookieInv, LoginsAreFresh
        <3>3. flight[u][m].sets # k
            BY <1>2, <3>1
        <3>4. \A v \in Tab, n \in Lane :
                /\ flight'[v][n].at = "sent" => flight'[v][n].cookie # flight[u][m].sets
                /\ flight'[v][n].at = "answered" => flight'[v][n].rejects # flight[u][m].sets
                /\ flight'[v][n].at = "answered" /\ flight'[v][n].sets = flight[u][m].sets => v = u /\ n = m
            BY <1>4, <1>5, <3>1, <3>2, <3>3 DEF Unseen
        <3>5. Unseen(flight[u][m].sets)'
            BY <1>1, <3>1, <3>2, <3>4 DEF Unseen
        <3> QED BY <3>1, <3>4, <3>5
    <2> QED BY <2>1, <2>2
<1> QED BY <1>6, <1>7, <1>8, <1>9 DEF CookieInv


----------------------------------------------------------------------------

LEMMA InitCookies == BrowserInit => BrowserInv
<1> SUFFICES ASSUME BrowserInit PROVE BrowserInv
    OBVIOUS
<1>1. Len(over) = 0 /\ over \in Seq({"http", "https"}) /\ DOMAIN over = {}
    BY DEF BrowserInit
<1>2. \A t \in Tab, l \in Lane : flight[t][l] = Idle
    BY DEF BrowserInit
<1>3. BrowserTypeOK
    <2>1. \A t \in Tab, l \in {"socket", "fetch"} : flight[t][l] = Idle
        BY <1>2 DEF Lane
    <2> QED BY <1>1, <2>1, BrowserAssumption DEF BrowserInit, BrowserTypeOK, NoCookies, Page
<1>4. TokensFit /\ JarFits
    BY <1>1 DEF BrowserInit, TokensFit, JarFits, NoCookies, RejectedCookieIsGone
<1>5. RequestsFit /\ LoginsAreFresh
    BY <1>2 DEF RequestsFit, RequestFits, LoginsAreFresh, Idle
<1> QED BY <1>3, <1>4, <1>5 DEF BrowserInv, CookieInv

LEMMA CookiesStay ==
    ASSUME BrowserInv, [BrowserNext]_browserVars PROVE BrowserInv'
<1>1. BrowserTypeOK /\ CookieInv /\ Shapes
    BY TypeParts DEF BrowserInv
<1>2. BrowserTypeOK'
    BY <1>1, TypesStay
<1>3. CASE Restart
    BY <1>1, <1>2, <1>3, RestartCookies DEF BrowserInv
<1>4. ASSUME NEW t \in Tab, TabStep(t) PROVE CookieInv'
    BY <1>1, <1>4, RestingJar, ServeCookies, LoginCookies, DeliverCookies DEF TabStep
<1>5. CASE UNCHANGED browserVars
    <2>1. \A t \in Tab, l \in Lane : Tame(t, l)
        BY <1>5 DEF browserVars, Tame
    <2> QED BY <1>1, <1>2, <1>5, <2>1, QuietSteps DEF browserVars, BrowserInv
<1> QED BY <1>2, <1>3, <1>4, <1>5 DEF BrowserNext, BrowserInv

\* The invariant holds in every state, whatever arrives, is lost or restarts.
LEMMA BrowserInvariant == BrowserSpec => []BrowserInv
BY InitCookies, CookiesStay, PTL DEF BrowserSpec

\* A jar that changes took the cookies of an answer, which left its lane.
LEMMA JarChanges ==
    ASSUME BrowserInv, [BrowserNext]_browserVars, jar' # jar
    PROVE  \E t \in Tab, l \in Lane :
            /\ flight[t][l].at = "answered"
            /\ flight'[t][l] # flight[t][l]
            /\ jar' = JarAfter(t, flight[t][l])
<1>1. PICK t \in Tab : Deliver(t)
    BY DEF BrowserNext, browserVars, Restart, TabStep, OpenSocket, Fetch, Visit, Arrive,
        ProbeIntervalEnds, MoveIntervalEnds, ServeLogin, ServeWrongLogin, Serve, Lose
<1>2. /\ {"socket", "nav"} \subseteq Lane
      /\ flight \in [Tab -> [Lane -> {Idle, Open} \cup Sent \cup Answered]]
    BY DEF Lane, BrowserInv, BrowserTypeOK
<1>3. CASE SocketAnswer(t)
    <2>1. flight'[t]["socket"] = IF flight[t]["socket"].ok THEN Open ELSE AfterHandshake(t, jar')
        BY <1>2, <1>3 DEF SocketAnswer
    <2>2. flight'[t]["socket"].at # "answered"
        BY <2>1 DEF AfterHandshake, Request, Idle, Open
    <2> QED BY <1>2, <1>3, <2>2 DEF SocketAnswer, CookieArrives
<1>4. ASSUME NEW l \in Lane, ScriptAnswer(t, l) \/ OrphanAnswer(t, l)
      PROVE  /\ flight[t][l].at = "answered" /\ flight'[t][l] # flight[t][l]
             /\ jar' = JarAfter(t, flight[t][l])
    <2>1. flight[t][l].at = "answered" /\ flight'[t][l] = Idle /\ jar' = JarAfter(t, flight[t][l])
        BY <1>2, <1>4 DEF ScriptAnswer, OrphanAnswer, CookieArrives
    <2>2. flight'[t][l].at # "answered"
        BY <2>1 DEF Idle
    <2> QED BY <2>1, <2>2
<1>5. CASE PageAnswer(t)
    <2>1. /\ flight' = [flight EXCEPT ![t] = [Orphaned(flight[t]) EXCEPT !["nav"] = Idle]]
          /\ flight[t]["nav"].at = "answered" /\ jar' = JarAfter(t, flight[t]["nav"])
        BY <1>2, <1>5 DEF PageAnswer, CookieArrives
    <2>2. Orphaned(flight[t]) \in [Lane -> {Idle, Open} \cup Sent \cup Answered]
        BY <1>2, OrphanedTypes
    <2>3. flight'[t]["nav"] = Idle
        BY <1>2, <2>1, <2>2
    <2>4. flight'[t]["nav"].at # "answered"
        BY <2>3 DEF Idle
    <2> QED BY <1>2, <2>1, <2>4
<1>6. CASE LoginAnswer(t)
    <2>1. flight'[t]["nav"] = Request(t, "page", jar')
        BY <1>2, <1>6 DEF LoginAnswer
    <2>2. flight'[t]["nav"].at # "answered"
        BY <2>1 DEF Request
    <2> QED BY <1>2, <1>6, <2>2 DEF LoginAnswer, CookieArrives
<1> QED BY <1>1, <1>3, <1>4, <1>5, <1>6 DEF Deliver

\* The answer of a login leaves its lane by arriving, and in no other step.
LEMMA LoginsArrive ==
    ASSUME BrowserInv, [BrowserNext]_browserVars, NEW t \in Tab,
           flight[t]["nav"].at = "answered", flight[t]["nav"].kind = "post",
           flight'[t]["nav"] # flight[t]["nav"]
    PROVE  jar' = JarAfter(t, flight[t]["nav"])
<1> DEFINE a == flight[t]["nav"]
<1>1. /\ "nav" \in Lane
      /\ flight \in [Tab -> [Lane -> {Idle, Open} \cup Sent \cup Answered]]
    BY DEF Lane, BrowserInv, BrowserTypeOK
<1>2. ~Restart
    <2>1. Restart => flight'[t]["nav"] = IF Opens(a) THEN Idle ELSE a
        BY <1>1 DEF Restart
    <2>2. ~Opens(a)
        BY DEF Opens
    <2> QED BY <2>1, <2>2
<1>3. PICK u \in Tab : TabStep(u)
    BY <1>2 DEF BrowserNext, browserVars
<1>4. u = t
    <2> SUFFICES ASSUME u # t PROVE flight'[t] = flight[t]
        OBVIOUS
    <2>1. CASE OpenSocket(u) \/ Fetch(u) \/ Visit(u) \/ Arrive(u) \/ ProbeIntervalEnds(u) \/ MoveIntervalEnds(u)
        BY <1>1, <2>1 DEF OpenSocket, Fetch, Visit, Arrive, ProbeIntervalEnds, MoveIntervalEnds
    <2>2. CASE ServeLogin(u) \/ ServeWrongLogin(u) \/ \E l \in Lane : Serve(u, l) \/ Lose(u, l)
        BY <1>1, <2>2 DEF ServeLogin, ServeWrongLogin, Serve, Lose
    <2>3. CASE Deliver(u)
        BY <1>1, <2>3 DEF Deliver, SocketAnswer, PageAnswer, LoginAnswer, ScriptAnswer, OrphanAnswer
    <2> QED BY <1>3, <2>1, <2>2, <2>3 DEF TabStep
<1>5. Orphaned(flight[t])["nav"] = a
    BY <1>1, OrphanedTypes
<1>6. ~(OpenSocket(t) \/ Fetch(t) \/ Visit(t) \/ Arrive(t) \/ ProbeIntervalEnds(t) \/ MoveIntervalEnds(t))
    <2>1. a # Idle
        BY DEF Idle
    <2> QED BY <1>1, <1>5, <2>1 DEF OpenSocket, Fetch, Visit, Arrive, ProbeIntervalEnds, MoveIntervalEnds
<1>7. ~(ServeLogin(t) \/ ServeWrongLogin(t) \/ \E l \in Lane : Serve(t, l) \/ Lose(t, l))
    BY <1>1 DEF ServeLogin, ServeWrongLogin, Serve, Lose
<1>8. ASSUME Deliver(t) PROVE LoginAnswer(t)
    <2>1. ~PageAnswer(t)
        BY DEF PageAnswer
    <2>2. ~SocketAnswer(t)
        BY <1>1 DEF SocketAnswer
    <2>3. ASSUME NEW l \in Lane PROVE ~(ScriptAnswer(t, l) \/ OrphanAnswer(t, l))
        BY <1>1 DEF ScriptAnswer, OrphanAnswer
    <2> QED BY <1>8, <2>1, <2>2, <2>3 DEF Deliver
<1> QED BY <1>3, <1>4, <1>6, <1>7, <1>8 DEF TabStep, LoginAnswer, CookieArrives


\* Every variable has its type, and what a page leaves behind is only the answers that
\* still touch the jar (session_loss.js dies with its page).
THEOREM BrowserTypesHold == BrowserSpec => []BrowserTypeOK
<1>1. BrowserInv => BrowserTypeOK
    BY DEF BrowserInv
<1> QED BY <1>1, BrowserInvariant, PTL

\* gate.py:335-350: a cookie that an answer expired is not in the jar again, whatever
\* answers were under way.
THEOREM RejectedCookiesAreGone == BrowserSpec => []RejectedCookieIsGone
<1>1. BrowserInv => RejectedCookieIsGone
    BY DEF BrowserInv, CookieInv, JarFits
<1> QED BY <1>1, BrowserInvariant, PTL

\* ADR-006: no request over http carries a cookie of a login over https.
THEOREM HttpsCookiesStay == BrowserSpec => []HttpsCookieStaysOnHttps
<1>1. BrowserInv => HttpsCookieStaysOnHttps
    BY DEF BrowserInv, CookieInv, RequestsFit, RequestFits, MaySend, HttpsCookieStaysOnHttps
<1> QED BY <1>1, BrowserInvariant, PTL

\* gate.py:352-354: the cookie of a live session makes room only for the cookie of a login,
\* or for the late rejection of another cookie.
THEOREM LiveCookiesAreKept == BrowserSpec => LiveCookieIsKept
<1>1. BrowserInv /\ [BrowserNext]_browserVars => [LiveCookieStays]_browserVars
    <2> SUFFICES ASSUME BrowserInv, [BrowserNext]_browserVars,
                        jar.token \in sessions, jar'.token # jar.token
                 PROVE  \E t \in Tab, l \in Lane :
                            /\ flight[t][l].at = "answered"
                            /\ flight'[t][l] # flight[t][l]
                            /\ \/ flight[t][l].sets = jar'.token /\ jar'.token # NoCookie
                               \/ flight[t][l].expires \notin {NoCookie, jar.token}
        BY DEF LiveCookieStays
    <2>1. PICK t \in Tab, l \in Lane :
            /\ flight[t][l].at = "answered"
            /\ flight'[t][l] # flight[t][l]
            /\ jar' = JarAfter(t, flight[t][l])
        BY JarChanges
    <2> DEFINE a == flight[t][l]
    <2>2. RequestFits(t, a)
        BY DEF BrowserInv, CookieInv, RequestsFit
    <2>3. CASE a.sets # NoCookie
        <3>1. jar' = Stored(t, a.sets, jar)
            BY <2>1, <2>3 DEF JarAfter
        <3>2. jar'.token = a.sets
            BY <2>3, <3>1 DEF Stored
        <3> QED BY <2>1, <2>3, <3>2
    <2>4. CASE a.sets = NoCookie
        <3>1. a.expires # NoCookie
            BY <2>1, <2>4 DEF JarAfter
        <3>2. a.expires \notin sessions
            BY <2>1, <2>2, <3>1 DEF RequestFits
        <3> QED BY <2>1, <3>1, <3>2
    <2> QED BY <2>3, <2>4
<1> QED BY <1>1, BrowserInvariant, PTL DEF BrowserSpec, LiveCookieIsKept

\* ADR-006: the cookie of a login is in the jar when its answer has arrived, unless http
\* finds a Secure cookie of the same host there.
THEOREM LoginCookiesAreStored == BrowserSpec => LoginsAreStored
<1>1. BrowserInv /\ [BrowserNext]_browserVars => [LoginIsStored]_browserVars
    <2> SUFFICES ASSUME BrowserInv, [BrowserNext]_browserVars, NEW t \in Tab,
                        flight[t]["nav"].at = "answered", flight[t]["nav"].kind = "post",
                        flight'[t]["nav"] # flight[t]["nav"]
                 PROVE  jar'.token = flight[t]["nav"].sets \/ (Scheme[t] = "http" /\ jar.secure)
        BY DEF LoginIsStored
    <2> DEFINE k == flight[t]["nav"].sets
    <2>1. jar' = JarAfter(t, flight[t]["nav"])
        BY LoginsArrive
    <2>2. k # NoCookie
        <3>1. RequestFits(t, flight[t]["nav"])
            BY DEF BrowserInv, CookieInv, RequestsFit, Lane
        <3> QED BY <3>1 DEF RequestFits
    <2>3. jar' = Stored(t, k, jar)
        BY <2>1, <2>2 DEF JarAfter
    <2>4. CASE Scheme[t] = "http" /\ jar.secure
        BY <2>4
    <2>5. CASE ~(Scheme[t] = "http" /\ jar.secure)
        <3>1. jar' = [token |-> k, secure |-> SecureFlag(t)]
            BY <2>2, <2>3, <2>5 DEF Stored, SecureFlag
        <3> QED BY <3>1
    <2> QED BY <2>4, <2>5
<1> QED BY <1>1, BrowserInvariant, PTL DEF BrowserSpec, LoginsAreStored
====
