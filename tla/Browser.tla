---- MODULE Browser ----
(***************************************************************************)
(* The tabs of one browser, its cookie jar and the gate: what             *)
(* web/session_loss.js and the Set-Cookie headers of gate.py do together   *)
(* when ComfyUI restarts, answers are late or lost, and a person logs in   *)
(* in one tab while others are still being rejected.                       *)
(*                                                                         *)
(* A tab has lanes, each with one request at a time.  The gate decides     *)
(* when it serves a request; the answer acts on the jar when it arrives,   *)
(* whatever the jar holds by then, and on the page only if the page that   *)
(* sent the request is still there.  The clock of the two throttles is     *)
(* left open: an interval lapses some time later, also a clock set back.   *)
(***************************************************************************)
EXTENDS Naturals, Sequences

CONSTANTS
    Tab,
    Scheme,        \* Scheme[t]: how tab t reaches the gate, "http" or "https"
    Lanes,         \* Lanes[t]: what tab t can have under way at a time
    MaxLogins      \* bounds the logins

\* /ws and the probe; fetch; navigation and the form.
Lane == {"socket", "fetch", "nav"}

ASSUME BrowserAssumption ==
    /\ Scheme \in [Tab -> {"http", "https"}]
    /\ Lanes \in [Tab -> SUBSET Lane]
    /\ MaxLogins \in Nat

VARIABLES
    sessions,   \* SessionStore._tokens
    over,       \* over[k]: the scheme of the login that gave token k
    jar,        \* the curu_auth cookie of the host and its Secure attribute
    tab,        \* tab[t]: its page, and whether the two throttles let it act
    flight,     \* flight[t][lane]: the request of a lane
    gone        \* history: the tokens that the browser was told to be worth nothing

browserVars == <<sessions, over, jar, tab, flight, gone>>

----------------------------------------------------------------------------

\* SessionStore.issue never gives a token twice: the k-th login gives token k.
SessionToken == 1..MaxLogins
NoCookie == 0

\* ComfyUI with the script; the same after leave(); the login page.
Page == {"app", "leaving", "login"}

\* A request whose page is gone is "orphan".
Kind == {"ws", "probe", "fetch", "page", "post", "orphan"}

Idle == [at |-> "idle"]
Open == [at |-> "open"]

Sent     == [at : {"sent"}, kind : Kind, cookie : SessionToken \cup {NoCookie}]
\* An answer: whether the request passed, the cookie that it turned away, and the
\* cookies that it expires and sets.
Answered == [at : {"answered"}, kind : Kind, ok : BOOLEAN,
             rejects : SessionToken \cup {NoCookie},
             expires : SessionToken \cup {NoCookie}, sets : SessionToken \cup {NoCookie}]

Passed(kind, token) ==
    [at |-> "answered", kind |-> kind, ok |-> TRUE, rejects |-> NoCookie,
     expires |-> NoCookie, sets |-> token]

Rejected(kind, cookie, expires) ==
    [at |-> "answered", kind |-> kind, ok |-> FALSE, rejects |-> cookie,
     expires |-> expires, sets |-> NoCookie]

NoCookies == [token |-> NoCookie, secure |-> FALSE]

\* The browser sends a Secure cookie over https only.
Presented(t, j) == IF j.secure /\ Scheme[t] = "http" THEN NoCookie ELSE j.token

Request(t, kind, j) == [at |-> "sent", kind |-> kind, cookie |-> Presented(t, j)]

HasScript(t) == tab[t].page # "login"

\* The tab's requests are let in as things are now.
Knows(t) == Presented(t, jar) \in sessions

----------------------------------------------------------------------------
(* The cookie                                                              *)

\* Mutant: Secure on every cookie, as before ADR-006.
AlwaysSecure(t) == TRUE

\* Mutant: Secure on none (ADR-006, alternative A).
NeverSecure(t) == FALSE

\* set_session_cookie: Secure exactly when browser_used_https.
SecureFlag(t) == Scheme[t] = "https"

\* An answer over http neither sets a Secure cookie nor touches one.
Stored(t, token, j) ==
    IF Scheme[t] = "http" /\ (SecureFlag(t) \/ j.secure) THEN j
    ELSE IF token = NoCookie THEN NoCookies
    ELSE [token |-> token, secure |-> SecureFlag(t)]

\* The jar after answer a arrived in tab t.
JarAfter(t, a) ==
    IF a.sets # NoCookie THEN Stored(t, a.sets, jar)
    ELSE IF a.expires # NoCookie THEN Stored(t, NoCookie, jar) ELSE jar

----------------------------------------------------------------------------
(* The gate                                                                *)

\* Mutant: the wait is looked at before the session.
WaitComesFirst(cookie, blocked) == ~blocked /\ cookie \in sessions

\* A live session passes, also in a wait.
Passes(cookie, blocked) == cookie \in sessions

\* Mutant: a 429 leaves the cookie alone.
ExpiredOn401(cookie, blocked) == IF blocked THEN NoCookie ELSE cookie

\* A rejection expires the cookie of its request: the 401, the 429 and the redirects.
Expired(cookie, blocked) == cookie

\* The gate serves a request, in its caller's wait or out of it.
Serve(t, lane) ==
    LET r == flight[t][lane]
    IN  /\ r.at = "sent"
        /\ r.kind # "post"
        /\ \E blocked \in BOOLEAN :
            flight' = [flight EXCEPT ![t][lane] =
                IF Passes(r.cookie, blocked) THEN Passed(r.kind, NoCookie)
                ELSE Rejected(r.kind, r.cookie, Expired(r.cookie, blocked))]
        /\ UNCHANGED <<sessions, over, jar, tab, gone>>

\* login_post, or the callback of the OIDC login: a new session.
ServeLogin(t) ==
    LET token == Len(over) + 1
    IN  /\ flight[t]["nav"].at = "sent"
        /\ flight[t]["nav"].kind = "post"
        /\ token \in SessionToken
        /\ over' = Append(over, Scheme[t])
        /\ sessions' = sessions \cup {token}
        /\ flight' = [flight EXCEPT ![t]["nav"] = Passed("post", token)]
        /\ UNCHANGED <<jar, tab, gone>>

\* A wrong credential or a wait: the login page again, with no Set-Cookie and no script,
\* so it does not matter when it arrives.
ServeWrongLogin(t) ==
    /\ flight[t]["nav"].at = "sent"
    /\ flight[t]["nav"].kind = "post"
    /\ flight' = [flight EXCEPT ![t]["nav"] = Idle]
    /\ UNCHANGED <<sessions, over, jar, tab, gone>>

Opens(r) == r.at = "open" \/ (r.at = "answered" /\ r.kind = "ws" /\ r.ok)

\* ComfyUI restarts: the sessions are gone, and the sockets that are open or about to be
\* close.
Restart ==
    /\ sessions # {}
    /\ sessions' = {}
    /\ flight' = [t \in Tab |-> [l \in Lane |->
            IF Opens(flight[t][l]) THEN Idle ELSE flight[t][l]]]
    /\ UNCHANGED <<over, jar, tab, gone>>

----------------------------------------------------------------------------
(* The tabs                                                                *)

\* Requests of the old page go on without it as long as their answer may still touch
\* the jar; its socket closes.
TouchesJar(r) ==
    \/ r.at = "sent" /\ r.cookie # NoCookie
    \/ r.at = "answered" /\ r.expires # NoCookie

\* Mutant: what a script does with an answer outlives its page.
Surviving(f) == f

Orphaned(f) ==
    [l \in Lane |->
        IF l = "nav" THEN f[l]
        ELSE IF TouchesJar(f[l]) THEN [f[l] EXCEPT !.kind = "orphan"] ELSE Idle]

\* The module loads with the page: leaving is FALSE, lastProbe is -Infinity, and the
\* time of the last move stays in the tab's sessionStorage.
Loaded(t, page) == [tab EXCEPT ![t] = [page |-> page, mayProbe |-> TRUE, mayMove |-> @.mayMove]]

\* leave(): one move for each page load, and none in the interval after a move.
Leave(t) ==
    IF tab[t].page = "app" /\ tab[t].mayMove
    THEN [tab EXCEPT ![t].page = "leaving", ![t].mayMove = FALSE]
    ELSE tab

\* Mutant: only window.fetch is replaced, not WebSocket.
NoProbe(t, j) == Idle

\* The lane of the socket after a handshake that failed: a probe, if one is due.
AfterHandshake(t, j) == IF tab[t].mayProbe THEN Request(t, "probe", j) ELSE Idle

\* The frontend opens /ws, again and again; a page may also fetch at any time.
OpenSocket(t) ==
    /\ "socket" \in Lanes[t]
    /\ HasScript(t)
    /\ flight[t]["socket"] = Idle
    /\ flight' = [flight EXCEPT ![t]["socket"] = Request(t, "ws", jar)]
    /\ UNCHANGED <<sessions, over, jar, tab, gone>>

Fetch(t) ==
    /\ "fetch" \in Lanes[t]
    /\ HasScript(t)
    /\ flight[t]["fetch"] = Idle
    /\ flight' = [flight EXCEPT ![t]["fetch"] = Request(t, "fetch", jar)]
    /\ UNCHANGED <<sessions, over, jar, tab, gone>>

\* The person opens or reloads ComfyUI, or sends the form of the login page.
Visit(t) ==
    /\ flight[t]["nav"] = Idle
    /\ \/ flight' = [flight EXCEPT ![t]["nav"] = Request(t, "page", jar)]
       \/ /\ tab[t].page = "login"
          /\ flight' = [flight EXCEPT ![t]["nav"] = Request(t, "post", jar)]
    /\ UNCHANGED <<sessions, over, jar, tab, gone>>

\* The move of leave() reaches the login page, which the gate lets everybody see.  A
\* person may stop it: then the page stays, and leaving stays TRUE.
Arrive(t) ==
    /\ tab[t].page = "leaving"
    /\ tab' = Loaded(t, "login")
    /\ flight' = [flight EXCEPT ![t] = Orphaned(@)]
    /\ UNCHANGED <<sessions, over, jar, gone>>

\* An interval is over: PROBE_INTERVAL_MS or MOVE_INTERVAL_MS.
ProbeIntervalEnds(t) ==
    /\ ~tab[t].mayProbe
    /\ tab' = [tab EXCEPT ![t].mayProbe = TRUE]
    /\ UNCHANGED <<sessions, over, jar, flight, gone>>

MoveIntervalEnds(t) ==
    /\ ~tab[t].mayMove
    /\ tab' = [tab EXCEPT ![t].mayMove = TRUE]
    /\ UNCHANGED <<sessions, over, jar, flight, gone>>

----------------------------------------------------------------------------
(* Answers arrive                                                          *)

\* What every answer does first: the browser reads its Set-Cookie.
CookieArrives(t, a) ==
    /\ jar' = JarAfter(t, a)
    /\ gone' = (gone \cup {a.rejects}) \ {NoCookie}
    /\ UNCHANGED <<sessions, over>>

\* "open", or "close" without "open" before it.
SocketAnswer(t) ==
    LET a == flight[t]["socket"]
    IN  /\ a.at = "answered"
        /\ a.kind = "ws"
        /\ CookieArrives(t, a)
        /\ flight' = [flight EXCEPT ![t]["socket"] =
                IF a.ok THEN Open ELSE AfterHandshake(t, jar')]
        /\ tab' = IF a.ok THEN tab ELSE [tab EXCEPT ![t].mayProbe = FALSE]

\* The answer of a probe or a fetch: isGateRejection moves the tab.
ScriptAnswer(t, lane) ==
    LET a == flight[t][lane]
    IN  /\ a.at = "answered"
        /\ a.kind \in {"probe", "fetch"}
        /\ CookieArrives(t, a)
        /\ flight' = [flight EXCEPT ![t][lane] = Idle]
        /\ tab' = IF a.ok THEN tab ELSE Leave(t)

\* The answer of a request whose page is gone.
OrphanAnswer(t, lane) ==
    LET a == flight[t][lane]
    IN  /\ a.at = "answered"
        /\ a.kind = "orphan"
        /\ CookieArrives(t, a)
        /\ flight' = [flight EXCEPT ![t][lane] = Idle]
        /\ UNCHANGED tab

\* ComfyUI, or the redirect to the login page.
PageAnswer(t) ==
    LET a == flight[t]["nav"]
    IN  /\ a.at = "answered"
        /\ a.kind = "page"
        /\ CookieArrives(t, a)
        /\ flight' = [flight EXCEPT ![t] = [Orphaned(@) EXCEPT !["nav"] = Idle]]
        /\ tab' = Loaded(t, IF a.ok THEN "app" ELSE "login")

\* The redirect to "/", with the new cookie.
LoginAnswer(t) ==
    LET a == flight[t]["nav"]
    IN  /\ a.at = "answered"
        /\ a.kind = "post"
        /\ CookieArrives(t, a)
        /\ flight' = [flight EXCEPT ![t]["nav"] = Request(t, "page", jar')]
        /\ UNCHANGED tab

\* The answer is lost, or the request that nobody saw: a network error, which moves no
\* tab.  A socket closes without having opened.  A person repeats a navigation until it
\* ends.
Lose(t, lane) ==
    /\ lane # "nav"
    /\ flight[t][lane].at = "answered"
    /\ IF flight[t][lane].kind = "ws"
       THEN /\ flight' = [flight EXCEPT ![t][lane] = AfterHandshake(t, jar)]
            /\ tab' = [tab EXCEPT ![t].mayProbe = FALSE]
       ELSE /\ flight' = [flight EXCEPT ![t][lane] = Idle]
            /\ UNCHANGED tab
    /\ UNCHANGED <<sessions, over, jar, gone>>

----------------------------------------------------------------------------

BrowserInit ==
    /\ sessions = {}
    /\ over = <<>>
    /\ jar = NoCookies
    /\ tab = [t \in Tab |-> [page |-> "login", mayProbe |-> TRUE, mayMove |-> TRUE]]
    /\ flight = [t \in Tab |-> [l \in Lane |-> Idle]]
    /\ gone = {}

Deliver(t) ==
    \/ SocketAnswer(t) \/ PageAnswer(t) \/ LoginAnswer(t)
    \/ \E lane \in Lane : ScriptAnswer(t, lane) \/ OrphanAnswer(t, lane)

TabStep(t) ==
    \/ OpenSocket(t) \/ Fetch(t) \/ Visit(t) \/ Arrive(t)
    \/ ProbeIntervalEnds(t) \/ MoveIntervalEnds(t)
    \/ ServeLogin(t) \/ ServeWrongLogin(t)
    \/ \E lane \in Lane : Serve(t, lane) \/ Lose(t, lane)
    \/ Deliver(t)

BrowserNext == Restart \/ \E t \in Tab : TabStep(t)

\* The page keeps opening /ws, intervals end, requests are served, and of the answers to
\* probe after probe one arrives.  Nobody has to fetch, visit or log in, a move need not
\* end, and nothing has to restart.
BrowserSpec ==
    /\ BrowserInit
    /\ [][BrowserNext]_browserVars
    /\ \A t \in Tab :
        /\ WF_browserVars(OpenSocket(t))
        /\ WF_browserVars(ProbeIntervalEnds(t))
        /\ WF_browserVars(MoveIntervalEnds(t))
        /\ WF_browserVars(Serve(t, "socket"))
        /\ WF_browserVars(SocketAnswer(t))
        /\ WF_browserVars(OrphanAnswer(t, "socket"))
        /\ SF_browserVars(ScriptAnswer(t, "socket"))

----------------------------------------------------------------------------
(* Properties                                                              *)

\* Every variable has its type, and nothing but the answers it left behind outlives a page.
BrowserTypeOK ==
    /\ sessions \subseteq SessionToken
    /\ over \in Seq({"http", "https"}) /\ Len(over) <= MaxLogins
    /\ jar \in [token : SessionToken \cup {NoCookie}, secure : BOOLEAN]
    /\ tab \in [Tab -> [page : Page, mayProbe : BOOLEAN, mayMove : BOOLEAN]]
    /\ flight \in [Tab -> [Lane -> {Idle, Open} \cup Sent \cup Answered]]
    /\ \A t \in Tab, l \in {"socket", "fetch"} :
        ~HasScript(t) => flight[t][l] = Idle \/ flight[t][l].kind = "orphan"
    /\ gone \subseteq SessionToken

\* gate.py:335-350: once an answer expired a cookie, no request brings that cookie again,
\* so a dead session is charged for the requests under way then and for no others.
RejectedCookieIsGone == jar.token \notin gone

\* ADR-006: a cookie issued over https is never sent over http.
HttpsCookieStaysOnHttps ==
    \A t \in Tab, l \in Lane :
        /\ Scheme[t] = "http"
        /\ flight[t][l].at = "sent"
        /\ flight[t][l].cookie # NoCookie
        => over[flight[t][l].cookie] = "http"

\* gate.py:352-354: a live session's cookie leaves the jar only for the cookie of a newer
\* login, or by the answer to a request that was sent before it came, with another cookie.
LiveCookieStays ==
    (jar.token \in sessions /\ jar'.token # jar.token) =>
        \E t \in Tab, l \in Lane :
            /\ flight[t][l].at = "answered"
            /\ flight'[t][l] # flight[t][l]
            /\ \/ flight[t][l].sets = jar'.token /\ jar'.token # NoCookie
               \/ flight[t][l].expires \notin {NoCookie, jar.token}

LiveCookieIsKept == [][LiveCookieStays]_browserVars

\* ADR-006: after a login the browser holds its cookie, over http as well as over https,
\* unless it keeps a Secure cookie of the same host that http may not replace.
LoginIsStored ==
    \A t \in Tab :
        (/\ flight[t]["nav"].at = "answered"
         /\ flight[t]["nav"].kind = "post"
         /\ flight'[t]["nav"] # flight[t]["nav"]) =>
            \/ jar'.token = flight[t]["nav"].sets
            \/ Scheme[t] = "http" /\ jar.secure

LoginsAreStored == [][LoginIsStored]_browserVars

\* README:58: an open tab without a session goes to the login page by itself: a tab that
\* shows ComfyUI, holds no open socket and is not let in starts its move, unless a login
\* lets it in again.
Stranded(t) == tab[t].page = "app" /\ flight[t]["socket"] # Open /\ ~Knows(t)

LostTabLeaves == \A t \in Tab : "socket" \in Lanes[t] => (Stranded(t) ~> ~Stranded(t))
====
