# A verification of the ComfyUI gate

TLA+ models of `comfyui_curu_auth`, the node that puts a login in front of
ComfyUI: what its handlers do when requests, restarts, timeouts and an identity
provider interleave. TLC checks the models on small instances, TLAPS proves the
most important properties for instances of any size. Line numbers are those of
the repository's files.

## 1. The system

One process, one thread: aiohttp runs every handler on one event loop, so what a
handler does between two `await`s is atomic and everything else interleaves. All
state but the credential lives in memory and is lost at a restart; browsers keep
their cookies and their half-finished logins.

| Part | State | Operations | What makes it correct |
|---|---|---|---|
| Rate limiter (`gate.py:592`) | failures and blocked-until of each client key | `record_failure`, `record_success`, `seconds_until_retry` | a wait belongs to the failures on record, never exceeds `max_delay`, and grows with each failure |
| Gate middleware (`gate.py:250`) | none of its own | one request: session cookie, token check (await), wait, static credential, count, log, answer | nothing passes without proof; only real attempts count; one log line for each refusal by a credential; only dead cookies are expired |
| Login form (`gate.py:880`) | none of its own | GET page, POST: wait, body (await), credential | the same, at the form |
| Session store (`gate.py:551`) | issued tokens | `issue`, `is_valid` | a session comes from a login and dies at the restart |
| Issuer keys (`oidc.py:775`) | keys, `jwks_uri`, times of the last try and load, an `asyncio.Lock` | `key_for` (two awaits under the lock) | reads are throttled, keys are not trusted for ever, new keys are learned, every call ends |
| OIDC login (`oidc.py:1077`) | logins in flight (`AuthorizationRequestStore`, at most `max_size`) | start (one await), callback (three awaits) | a login gives one session, to the allowed person who signed in for it |
| Token rules, allowlist (`oidc.py:611`, `114`, `873`, `971`) | none | verify access and ID tokens, `permits` | no rule can be skipped by the shape of a token |
| Configuration (`oidc.py:236-335`, `736-772`) | none | read the settings | an error in a setting is one that `__init__.py` catches |
| Persistent credential (`gate.py:67-137`) | one file | resolve: environment, file, generate; write back | stable across restarts |
| Wiring (`__init__.py:77-195`) | the instances | build everything once, at import, and print the credential and the settings on the way | one limiter and one session store for all paths; no step before the gate raises |
| Session loss script (`web/session_loss.js`) | per tab: `leaving`, last probe, time of the last move | wrap `fetch` and `WebSocket`, probe, leave | a lost session ends at the login page, once |

How they interact: `__init__.py` gives one limiter to the gate, the form and the
OIDC routes, so a failure on one path delays the caller on all of them; it gives
one session store to the gate, which reads it, and to the form and the callback,
which fill it. The gate calls the token check, which calls `IssuerKeys`, which
calls the provider. The start route leaves a login in the store that a callback
takes out, in another request that a browser sends with any state and any code.

What is hard here: state that is read before an await and used after it (the
wait in the form, the session in the gate); three awaits in a callback while its
state could be replayed; a lock held across two HTTP reads; a limiter that four
paths update under different counting rules; a provider that is down, moves, or
answers another shape; restarts that empty the server and not the browsers.
PROJECT.json lists these hazards at their lines, with the properties that cover
each one.

## 2. Modules

| Module | Models | Its state and actions |
|---|---|---|
| `RateLimiter` | `gate.RateLimiter` | `failures` and `wait` stand for the two dictionaries; an instant is kept as the time left, and `Elapse` takes one unit off. `RecordFailure` includes the `OverflowError` of line 645, which leaves the count stored and the wait not. |
| `Gate` | gate and login form, extends `RateLimiter` | `handler[r]` is a request slot: idle, awaiting the token check, awaiting the body of the form, or answered. `GateRequest` is the whole handler up to its await or its answer, `TokenAccepted`, `TokenRefused`, `TokenUnchecked` and `TokenRaised` what follows the await (the last is the `ValueError` that `IssuerKeys` can let out and that the gate does not catch); `LoginPost` and `LoginRight`, `LoginWrong`, `LoginBlank` are the form before and after its body. `Refuse` and `Judge` are the common tail. |
| `ReadThrottle` | what `IssuerKeys` promises the provider | abstract specification: at most one read at a time, starts at least `Refresh` apart |
| `IssuerKeys` | `oidc.IssuerKeys` | `keys`, `uri`, `readAge`, `loadAge` are its fields (times as ages, capped where they no longer matter), `holder` and `queue` the fair lock of asyncio, `check[t]` a call of `key_for`. `Rotate`, `Move` and the failures are the provider. |
| `OneTimeLogin` | what the OIDC routes promise of a login | abstract specification: `phase` of each login, from unused over open (at most `MaxSize` at a time) and taken to granted or closed; `given`, the session and person it ended in; `live`, the valid sessions. `Begin`, `Take`, `Close` and `SignIn` move one login on, `Stop` ends all that are under way. |
| `OidcLogin` | start, callback, `AuthorizationRequestStore`, extends `RateLimiter` | `store` and `born` are the insertion-ordered dictionary, `uri` the redirect URI an entry keeps, `handler[r]` a start or a callback at one of its awaits. `grant` and `spent` are the provider: who signed in for a login, which codes were exchanged. `Phase` maps a login to its phase in `OneTimeLogin`. |
| `Settings` | the readers of `oidc.py:156-335` and `736-772` | operators: from an environment to nothing, a logged error, another exception or a configuration (`LoginOutcome`, `TokenOutcome`, `LoginConfig`, `TokenConfig`, `Allowlist`) |
| `Startup` | `__init__.py` and `resolve_persistent_credential`, extends `Settings` | `at` is the step that the import reached, `file` the credential file, `pinned` and `env` the variables of this start. `Open` truncates, `Write` writes, `ShowCredential`, `Install` and `AddRoutes` are the three places that print, `Stop` is a crash between any two steps, `Escape` an exception that leaves the import. `console` holds the texts for which `print` raises in this start, and `ConsoleGoes` ends its reader. |
| `TokenRules` | `check_token_algorithm`, `select_signing_key`, `verify_access_token`, `verify_id_token`, `permits`, extends `Settings` | operators over a record of what the verifiers read of a token. Times are relative to the moment the token came. |
| `Admission` | composes `Startup` with `TokenRules` | `check` is one token under way: `Present` does the checks before the keys, `Judge` the rest, `waited` later. |
| `Browser` | one browser with tabs, `session_loss.js`, the cookies of `gate.py:199-247`, and the gate's answers | `jar` is the `curu_auth` cookie with its `Secure` attribute, `tab[t]` the page and its two throttles, `flight[t][lane]` the request of a lane: a socket or its probe, a fetch, a navigation. `Serve` decides; `SocketAnswer`, `ScriptAnswer`, `PageAnswer`, `LoginAnswer` and `OrphanAnswer` deliver, in any order; `Lose` loses. |
| `MC*` | instances for TLC | small sets and their symmetry |
| `RateLimiterProofs`, `GateProofs`, `IssuerKeysProofs`, `OidcLoginProofs`, `OneTimeProofs`, `AdmissionProofs`, `BrowserProofs` | proofs | see section 5 |

Abstractions. A client key, a session token, a login (its state, nonce and
verifier, which `create` draws together), a signing key and a person are model
values. `secrets.token_urlsafe` never gives a value twice. Credentials, headers and
forms are the cases that the code tells apart (`Offer`). Time is counted in whole
units. The text of answers and logs is left out; how many "authentication failure"
lines a request writes is kept, because fail2ban counts them.
The gate, the form and the OIDC routes share one limiter and one session store (`__init__.py:110`), so each of
`Gate` and `OidcLogin` has the other's use of them as steps of its environment: in `Gate`, `OidcCounts` and
`OidcSignsIn` at any moment and for any caller; in `OidcLogin`, `GateUsesLimiter`. The `sessions` of
`OidcLogin` are those that the routes gave.
In `Gate` the verdict of the token check is a free choice among those that
`build_token_check` can return; `IssuerKeys` shows which of them the keys lead to, and
`Admission` which tokens they accept. In `OidcLogin` a person is allowed or not; `Admission`
shows what the settings and the claims make of that. In `Admission` the keys of the issuer
are any of `KeySets` and their read takes any time up to `ReadTime`.
A name that is compared without its capital letters is a name and a form (`Written`), so `Lower` is
what `str.lower` does to a comparison. A URL is one of the cases that `is_safe_url` and
`_origin_key` tell apart; `broken` makes `urlsplit` raise.
What the import prints is a setting or the credential, or else only words of its own, which are ASCII and
fail on a console without a reader alone (`"plain"`). `{uri!r}` of a bad redirect URI escapes bytes that are not UTF-8, so only
its letters outside ASCII (`foreign`) can be refused. What the console does is external, and each start may have another.
In `Browser` the gate is reduced to what a browser can see of it: a request passes with a live
session, and otherwise the answer expires the cookie of the request, in a wait and out of
one (`gate.py:352`). That answer acts on whatever the jar holds when it arrives. A page that is left takes its
script with it, but not the answers under way. How a browser treats `Secure` (it neither sends
such a cookie over http nor lets an answer over http replace it) is external and follows ADR-006.
The clocks of the two throttles are left open: an interval ends some time later, also when
a person sets the clock back. A socket that is open closes at a restart; the answer to a failed handshake is
taken to bring its `Set-Cookie` like any other.
Definitions whose comment begins with "Mutant:" are deliberately wrong variants: each
property is shown to fail when one of them takes the place of the definition below it.

## 3. Runs

| Run | Instance | Shows |
|---|---|---|
| `gate` | 2 keys, 2 requests at a time, 2 logins, token mode on | `AccessNeedsProof`, `ExpiredCookieIsDead`, `OneLinePerRefusal`, `AttemptsAreCounted`, `WaitHoldsGuesses` |
| `keys_answered` | 3 checks, 1 key, an issuer that answers at one URL, at times with a document of another shape; fair | `LockServesReaders`, `RemovedKeyStops`, `NewKeyIsLearned`, `EveryCallEnds` |
| `keys_faults` | 2 checks, 2 keys, outages, malformed documents, a JWKS that moves, a JWKS without a key | `ReadsAreThrottled` (refinement of `ReadThrottle`), `OldKeysOnlyAfterATry`, `RemovedKeyNeedsFailedRead`, `UnknownKeyNeedsFailedRead` |
| `login_faults` | 2 keys, 2 requests, 2 logins and a store of 1, 2 persons of whom 1 is allowed, all faults | `OneSessionPerLogin`, `SessionsAreAllowed`, `StartsAndRefusalsCount`, `LoginsAreOneTime` (refinement of `OneTimeLogin`) |
| `login_good` | 3 logins and a store of 2, 2 redirect URIs, a provider that works and is strict, delays 1 and 2 | `NoGoodLoginIsRefused`, `StoreKeepsTheNewest`, and of the limiter `WaitWithinDelay` and `FailureNeverShortensWait` |
| `admission` | good settings and each that differs in one variable, 6 credentials, 3 generated ones, 3 consoles and one that goes away, tokens that differ from a good one in one field and every mix of the claims the allowlist reads | `OnlyUnusableValuesOpen`, `CredentialKept`, `OnlyTheNamedGetIn`, `NamedGetIn`, `AccessIsForUs`, `IdTokenIsNoAccessToken` |
| `browser` | a tab over https with its socket, a tab over http with its fetches, 2 logins, any number of restarts and lost answers; fair | `RejectedCookieIsGone`, `HttpsCookieStaysOnHttps`, `LiveCookieIsKept`, `LoginsAreStored`, `LostTabLeaves` |
| `limiter_overflow`, `gate_login_wait`, `keys_moved`, `login_malformed`, `startup_escapes` | | the disagreements of section 4 |

Each of `gate`, `keys_answered`, `login_faults`, `admission` and `browser` also checks the type invariant of its module.

Bounds, and why they are enough.

- `FloatExponents` is 1024 in CPython. The models use 2 or 5, so that a
  delay that reaches the cap and one that overflows both occur (in the code at 7 and 1025 failures).
  Counts above it behave alike, so `CountCap` stops them there.
- Two keys, one to fail and one to be left alone; the code never relates two keys.
  `login_good` uses one key: its properties do not depend on whose wait it is, and
  `login_faults` mixes two.
- Two requests at a time give every interleaving of one await with one other
  request, which itself can be any number of requests one after another. The lock
  needs a third, in `keys_answered`: a holder and two in the queue. `keys_faults` asks what a call may answer
  after reads that failed, for which a reader and one in the queue are enough, and spends its states on
  the second key and the second URL.
- Two session tokens, one before and one after a restart or one for each of two logins; one in `login_good`, where
  a callback is judged before it gets its session.
- `Refresh` 2 and `MaxAge` 4 (3 in `keys_answered`) keep the order of the code's constants (`KEY_REFRESH_SECONDS` 60 s,
  `KEY_MAX_AGE_SECONDS` 3600 s)
  and of the timeouts, `ReadTime` 1 (2 x 10 s), below `Refresh`.
- A store of 2 with 3 logins evicts once with a hole and once without; the store of 1 in `login_faults` evicts
  a login whose callback may still come.
- `admission`: every start draws its environment anew, so a credential of one start meets the
  variables of the next. Three generated credentials are one in the file, the one of the last
  start and a new one. The consoles are UTF-8 with `surrogateescape`, which writes every text, strict UTF-8,
  which refuses a variable whose bytes are not UTF-8, and ASCII, which refuses every other letter too; the credentials
  and settings have one value of each kind. `startup_escapes` has a console that writes all. `Leeway` 1, `MaxLife` 4 and `ReadTime` 1 stand for 60 s, 3600 s and the timeouts; the
  times of the tokens lie on both sides of each limit, before and after the wait. Fields that are judged
  together (the kinds of a token, the claims of the allowlist, audience and `azp`) are mixed in full.
- `browser`: one host, so one cookie. Two tabs are the least in which the answer of one meets a login of the
  other, and with one of each scheme the cookie of either is in the way of the other. Two logins are a dead
  cookie and a live one. The https tab has the script's socket lane, the http tab its fetch lane; with
  all lanes in both the run does not end in reasonable time, and the theorems of section 5 cover them.

No run turns the deadlock check off.

Fairness. `keys_answered` and `browser` assume some. `keys_answered`: weak fairness of `Resume(t)`, because
the event loop runs a task whose lock was handed over, and of `Reading(t)`,
because `aiohttp.ClientTimeout(total=...)` ends each read one way or another.
`browser`: the frontend opens `/ws` again 300 ms after a close (`session_loss.js:79`), so `OpenSocket` is
weakly fair; the gate answers what it gets (`Serve` of the socket lane), the answer of a
handshake and of an orphan arrives or is lost, and the two intervals end. Of the answers to probe after
probe one arrives: `ScriptAnswer` of the socket lane is strongly fair, since a lost probe moves no tab (`README.md:256`)
and only another one can. That a page which leaves arrives, and that the fetch and navigation
lanes go on, is not assumed.
Nothing assumes that requests come, that the provider acts or works, or that
anybody logs in.

## 4. Where code and text disagree

Each is a run that is expected to find a counterexample to a sentence of the
repository. The second is a text that claims more than the code does, the others are defects.

1. `limiter_overflow`. The 1025th failure in a row makes `2 ** (failures - 1)` too
   large for a float (`gate.py:645`): `OverflowError`, a 500 without its log line, and
   no wait from then on (`README.md:214`).
2. `gate_login_wait`. `gate.py:289-292` says that the form refuses the right
   credential within a wait. It does so only if the wait began before the request:
   after the body arrived it is not looked at again.
3. `keys_moved`. `oidc.py:721-722` says that a removed key stops working within
   `KEY_MAX_AGE_SECONDS`. `_jwks_uri` is read once, so after the provider moved its
   JWKS every read fails and the old keys stay in use. What the code does keep to in every case is
   `RemovedKeyNeedsFailedRead`, a theorem: such a key needs a failed read less than `KEY_REFRESH_SECONDS` ago.
4. `login_malformed`. `README.md:136` says that a refused callback is a 401 and a
   failed attempt. JSON of another shape from the token endpoint (`oidc.py:1214`) or an
   endpoint that `urlsplit` refuses (`oidc.py:427`) makes it a 500 that is neither.
5. `startup_escapes`. `README.md:260` says that an error in the OIDC settings never stops the
   node. `is_safe_url` (`oidc.py:417`) calls `urlsplit` outside a `try`: an issuer like `https://[idp` raises
   `ValueError`, which `__init__.py` does not catch (it catches `OIDCConfigError`), so the import fails and
   ComfyUI serves without the gate. `_origin_key` (`oidc.py:225`) catches the same exception for a
   redirect URI. `OnlyUnusableValuesOpen` names the other ways to get there: a credential that latin-1
   cannot encode (`gate.py:389`), a credential file that is not UTF-8 (`gate.py:82`), and the prints of
   `__init__.py` before the gate is installed. Those raise for a credential (line 107), an audience (line 156) or
   a bad redirect URI in the error message (line 138) that the console cannot encode, as an `AUDIENCE` variable with bytes that
   are not UTF-8 is on a strict UTF-8 console, and for any text once nobody reads the console. The audience and the
   redirect URI are OIDC settings, so they break the sentence of `README.md:260` as well. The same print
   after the gate (line 186) leaves the OIDC routes out and the gate on.

Smaller ones have no run.

- `contrib/README.md:3` says that every rejected request writes one "authentication failure" line, `README.md:226`
  that the gate writes one for each refused request, and `gate.py:608-611` with ADR-004 (line 103) that a request
  without a credential emits it on every single one. A request that its caller's wait holds back writes none, whether
  it gets the 429 or the redirect to the login page (`gate.py:463-475` answers before the log, `gate.py:929` in the form), and with it
  a flood without credentials goes silent for the rest of a wait that somebody's guesses began. The 500 of item 1 writes none either,
  but for a refused token. `OneLinePerRefusal` states what the code does: a line for each refusal by a credential.
- A token that the token check refuses is judged, counted and logged within a wait as well, without limit: no disagreement,
  since `README.md:191` and ADR-008 say so. `WaitHoldsGuesses` is about the static credential alone.
- `oidc.py:778` says that a known `kid` never waits for a read, and `Settled` shows that it does when the keys are old.
- A credential in the variable with spaces around it is used and written as it is, and stripped by the next
  start that reads it from the file (`Trim` in `CredentialKept`); one of spaces alone is replaced by a generated one.
- A login over http stores nothing while the browser keeps a `Secure` cookie of the same host: the
  second case of `LoginsAreStored`.
- The rejection of an old cookie that arrives after a login expires the cookie of that login, since an expiry names
  no value: the second case of `LiveCookieIsKept`. What the rule of `gate.py:352-354` does promise is
  checked: no answer expires the live cookie that its own request carried.
- A tab whose probe was rejected leaves although another tab logged in meanwhile.

## 5. Proofs

All theorems are of the form `Spec => []P`, `Spec => [][A]_vars` or `Spec => AbstractSpec`, for every
value of the constants under the named assumptions of the component's module:
`LimiterAssumption` (delays are positive and ordered), `PowersOfTwo` (the
arithmetic of `^`, which the provers do not know, for the exponents in use),
`GateAssumption`, `KeysAssumption` and `LoginAssumption` (the values that stand for "none" are no
members of their sets; timeouts below `Refresh`; `max_size` at least 1), `SettingsAssumption`,
`StartupAssumption` (stripping a generated credential changes nothing, and a header can
hold it), `RulesAssumption`, `AdmissionAssumption` and `BrowserAssumption` (types of the constants).

- `RateLimiterProofs`. `LimiterInv` is the type and `WaitWithinDelay` together:
  neither is inductive alone, because the bound of the wait after a failure comes from
  the bound of the delay, and `FailureNeverShortensWait` needs that the old wait was within
  the old delay and that delays grow (`DelayFacts`). One lemma for each operation;
  the other proofs use these. `GateImplementsLimiter` and `LoginImplementsLimiter` then show that every step of
  the gate, the form and the OIDC routes is one operation of `RateLimiter` or none, so the two
  properties of the limiter hold where it is used, with any requests under way.
  `RoutesDoAsTheGateExpects` closes the circle: what `Gate` lets its environment do to the limiter and the sessions is
  all that the routes of `OidcLogin` do to them, so the theorems about the gate hold with the routes running beside it.
- `GateProofs`. The invariant adds to the types what a slot knows of its cookie: one that awaits the token
  check was in no store when it was looked up and is in none now, and one that an answer expires is dead. `ExpiredCookieIsDead` needs that a token is issued once
  (`SessionToken \ minted`): a dead cookie never becomes a live one while its answer
  travels. The action properties compare an answer with the state it was made in, so they say what an await
  or a restart in between may not change. `AnswersAreRight` proves three of them at once: `OneSlot` reduces a step to the
  slot it touches, `AnswerIsRight` says what an answer needs, and each action is shown to give it
  (`AccessIsProved`, `RefusalsLogOnce`, `WaitsHoldGuesses`). `CountsAreAttempts` pairs each
  failure that the limiter records with the one answer of its step, also for the 500 of the overflow.
- `IssuerKeysProofs`. `LockServesReaders` is inductive with the types once the queue is
  without repetition; the work is in `Head` and `Tail` of the queue when the lock passes on. From it follow,
  for any faults, the refinement `KeysImplementThrottle` (only the holder reads, and it looks at the
  time of the last try after it got the lock, so the two ages of the abstract specification agree) and
  `OldKeysWereTried` (each way to answer "found" has just seen one of the two ages within its limit, or made
  the try itself).
  What the age of the keys says about the provider is `DifferLate`: a key of which memory and the provider
  differ changed no earlier than the load. It holds for any faults, since a failed read leaves the keys
  alone. From it follow `RemovedKeysNeedFailedReads` and `UnknownKeysNeedFailedReads`, with one fact at the
  end of a call (`EndsOnKeys`): a call that gives up without a read of its own has seen the last try within `Refresh`.
  `RemovedKeysStop` and `NewKeysAreLearned` are what is left of them when reads cannot fail: they assume that
  there is no outage and no move, malformed documents allowed. They need `UriKnown` (a read has the
  URL it reads) and `Answered`: the URL in memory is the one of the provider, and with the lock free and the last
  try recent, that try was the load. Without `DifferLate` a key could have left before a load that still brought it.
- `OidcLoginProofs`. The invariant says where a login can be: in the store, with
  one callback, in one session, or gone, and never at two of these places
  (`CallbacksApart`, `StoreApart`). `OneSessionPerLogin` alone is not inductive, since a
  second callback with the same login would break it one step later. `SessionsAreAllowed` rests on the nonce
  alone, and `OneSessionPerLogin` on the store alone: the proofs hold with `"lax"` in `Faults`, where
  the provider exchanges any code that it gave, again and again. For the cap, `StoreInv` adds that the
  starts are numbered without repetition, so the entries that remain after an eviction are
  `max_size` younger ones. `CountsAreStartsAndRefusals` holds for any faults; `GoodLoginsSucceed` assumes
  `Faults = {}` and needs `SpentApart`: a spent code belongs to a login that is out of the store
  and whose callback is past the exchange, so no other callback can spend the code of a login first.
- `OneTimeProofs`. `LoginsImplementOneTime` is the refinement, for every cap, any number of requests and logins and all
  faults. `PhasesApart` is why it works: by the invariant of `OidcLoginProofs` the four places of a login exclude each
  other, so `Phase` is a function of the place and a step that touches one place moves one login
  (`OneMoves`; `SlotHeld` says what a slot does to a place). The start needs `StoreInv` as well: `RoomIsMade` shows that
  a full store gives up another login than the one that it just took in.
- `AdmissionProofs`. `AdmissionInv` is `StartupInv` and `CheckFits`. `CredentialFits` ties the credential of a
  start, the file and the last credential to the step the start is at: between the choice and the end of the write
  the file may hold something else, after it only if `trouble` says so. `SettingsFit` says that the two
  configurations are those of this start's environment, `CheckFits` that a verdict is what the rules make of its token
  with the configuration that is still in use. `OnlyUnusableOpens` needs `ShownIsShowable`: what a print before
  the gate can fail on is a setting, the first bad redirect URI among them, or every text. The four theorems about tokens then compare the rules with
  properties written in the operator's words: `OneKeyIsEnough` and `PermitsTheNamed` are the lemmas for the direction
  that a named person gets in.
- `BrowserProofs`. `CookieInv` follows a token from its login on. `LoginsAreFresh`: while the answer of the login
  travels, no request, no rejection and no jar knows its token. `JarFits`: the token of the jar was never
  rejected, and is `Secure` exactly if its login was over https. `RequestsFit`: what is sent or rejected over http came from a
  login over http, and what is rejected is dead. `RejectedCookieIsGone` alone is not inductive: the answer of
  a login could bring back a rejected token. All steps but the gate's own are `Tame`: a
  lane becomes free, sends the cookie of the jar or keeps what it has, and `TameSteps` does the work for
  them all at once.

Only model-checked: `EveryCallEnds` and `LostTabLeaves`, because liveness under fairness is out of the reach of the
prover. (`EveryCallEnds` is run with malformed documents, which leave the lock by an exception; an outage or a move
takes the way of a read that succeeds, by the same two fair actions.) Every other property of the passing runs is also a theorem.

## 6. What is not modelled

- `client_key`, `request_origin` and `browser_used_https` (`gate.py:140-196`, `851`) as readers of headers: a
  caller is a key, a tab has a scheme. They keep no state and fail in no order; what depends on their
  answers is modelled.
- A provider that writes `exp`, `iat` or `nbf` as NaN, or a `sub` of another type: `complete` stands for claims of the right types.
- The import of `session_loss.js` itself being rejected after its page was loaded.
- A library whose import fails: `__init__.py:74` catches `ImportError` for a start outside ComfyUI, and does the same
  when a module of the node or `aiohttp` is missing, so ComfyUI then serves without the gate. There is no
  value or order of steps to check; `oidc.py` imports `joserfc` late for this reason.
- In `Browser` a socket and the probe that follows its failure share one lane. In `session_loss.js` the frontend may open
  `/ws` again with the probe still under way, so one request more may be in flight than in the model; no property
  relates the two.
- `chmod` of the credential file and a start without a directory for it (`state_path` is `None`).
- Signatures, hashing and randomness: taken as what they promise.
- Growth without a bound that the code does not limit: the limiter's dictionaries, the
  session set, the age of a login in flight. There is nothing in the code to check.
- The healthcheck (one request and an exit status), the container images, the login page's markup, CI and tests.

## 7. Plan

Done: every component that keeps a state, with its theorems. Two extensions would add something:

1. `BearerPath`: composes `Gate` with `IssuerKeys`, so that the verdict of the token check is no
   longer free: a rotation at the provider never counts against the caller of a good token
   beyond `Refresh`, a provider that is down never does.
2. `Browser` with a clock for the two throttles: how many probes and moves a dead session can cost
   at most, and how that count meets `max_delay` of the limiter.
