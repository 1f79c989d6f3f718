---- MODULE IssuerKeys ----
(***************************************************************************)
(* oidc.IssuerKeys: the signing keys of the identity provider, kept in     *)
(* memory and read again for an unknown kid or when they are old.          *)
(*                                                                         *)
(* Each token check calls key_for, which may wait for the asyncio.Lock and *)
(* for two HTTP reads, the discovery document (once) and the JWKS.  Around *)
(* it the provider publishes and removes keys, moves its JWKS and fails.   *)
(* What key_for does between two awaits is one step.                       *)
(***************************************************************************)
EXTENDS Naturals, Sequences, FiniteSets

CONSTANTS
    Task,       \* slots for the token checks that run at a time
    NoTask,
    Kid,        \* the kids of the keys that the provider ever publishes
    NoKid,      \* a header without a kid
    Absent,     \* Python's None
    Refresh,    \* refresh_seconds: the shortest time between two reads
    MaxAge,     \* max_age_seconds: the longest time the keys are trusted
    ReadTime,   \* what the timeouts leave a read: 2 * timeout
    Places,     \* the URLs where the provider can have its JWKS
    Faults      \* what the environment may do: "outage", "malformed", "move"

ASSUME KeysAssumption ==
    /\ Refresh \in Nat \ {0}
    /\ MaxAge \in Nat
    /\ ReadTime \in Nat
    /\ ReadTime < Refresh
    /\ Refresh <= MaxAge
    /\ NoTask \notin Task
    /\ NoKid \notin Kid
    /\ \A ks \in SUBSET Kid : Absent # ks
    /\ Absent \notin Places
    /\ Places # {}

VARIABLES
    keys,       \* _key_set: the kids of its signing keys, or Absent
    uri,        \* _jwks_uri
    readAge,    \* time since _read_at, up to Refresh; None is Refresh
    loadAge,    \* time since _loaded_at, up to MaxAge; None is 0
    holder,     \* who holds _lock
    queue,      \* who waits for _lock, in the order of arrival
    check,      \* check[t]: the call of key_for in slot t
    published,  \* the kids that the provider signs with now
    place,      \* where the provider has its JWKS now
    since       \* since[k]: time since k was last published or removed, up to MaxAge

cacheVars == <<keys, uri, readAge, loadAge>>
providerVars == <<published, place, since>>
keysVars == <<cacheVars, holder, queue, check, providerVars>>

----------------------------------------------------------------------------
(* A call of key_for                                                       *)

\* The kid of the header, and whether its alg is the algorithm of that key.
Header == [kid : Kid \cup {NoKid}, fits : BOOLEAN]

Result == {"found", "refused", "unknown", "unavailable", "raised"}

\* Where a call is: not made, at the lock, at one of the two reads, or answered.
Stage == {"idle", "lock", "discovery", "jwks"} \cup Result

Idle == [at |-> "idle", header |-> [kid |-> NoKid, fits |-> TRUE]]

Reads(t) == check[t].at \in {"discovery", "jwks"}

\* select_signing_key finds one candidate: the key with the kid, or the only key.
Matches(h, ks) == IF h.kid = NoKid THEN Cardinality(ks) = 1 ELSE h.kid \in ks

\* _select: "unknown" is its None, "refused" any reason but "unknown key".
Select(h, ks) ==
    CASE ks = Absent \/ ~Matches(h, ks) -> "unknown"
      [] ks # Absent /\ Matches(h, ks)  -> IF h.fits THEN "found" ELSE "refused"

\* Mutant: the keys are trusted for ever.
StaleNever == FALSE

Stale == keys # Absent /\ loadAge = MaxAge

\* Mutant: a known key is enough, however old.
SettledIfKnown(h) == Select(h, keys) # "unknown"

\* key_for is done without a read: it raises a reason, or the key is fresh.
Settled(h) == Select(h, keys) = "refused" \/ (Select(h, keys) = "found" /\ ~Stale)

\* The end of key_for, on the keys that are there after a read or without one.
Verdict(h, ks) == IF ks = Absent THEN "unavailable" ELSE Select(h, ks)

At(t, stage, h) == check' = [check EXCEPT ![t] = [at |-> stage, header |-> h]]

\* Mutant: every unknown kid causes a read.
MayAlwaysRead == TRUE

\* Mutant: the keys are read until they are there, and then kept.
MayReadWithoutKeys == keys = Absent

MayRead == readAge = Refresh

\* `async with self._lock`: the call has the lock and runs to its read or its end.
Locked(t, h) ==
    \/ /\ Settled(h)
       /\ At(t, Select(h, keys), h)
       /\ holder' = NoTask
       /\ UNCHANGED cacheVars
    \/ /\ ~Settled(h)
       /\ MayRead
       /\ readAge' = 0
       /\ At(t, IF uri = Absent THEN "discovery" ELSE "jwks", h)
       /\ holder' = t
       /\ UNCHANGED <<keys, uri, loadAge>>
    \/ /\ ~Settled(h)
       /\ ~MayRead
       /\ At(t, Verdict(h, keys), h)
       /\ holder' = NoTask
       /\ UNCHANGED cacheVars

\* A token check calls key_for.  A free lock is taken without waiting.
Call(t, h) ==
    /\ check[t] = Idle
    /\ UNCHANGED providerVars
    /\ \/ /\ Settled(h)
          /\ At(t, Select(h, keys), h)
          /\ UNCHANGED <<cacheVars, holder, queue>>
       \/ /\ ~Settled(h)
          /\ holder = NoTask /\ queue = <<>>
          /\ Locked(t, h)
          /\ UNCHANGED queue
       \/ /\ ~Settled(h)
          /\ holder # NoTask \/ queue # <<>>
          /\ At(t, "lock", h)
          /\ queue' = Append(queue, t)
          /\ UNCHANGED <<cacheVars, holder>>

\* The first in the queue gets the lock that was released.
Resume(t) ==
    /\ holder = NoTask
    /\ queue # <<>>
    /\ t = Head(queue)
    /\ queue' = Tail(queue)
    /\ Locked(t, check[t].header)
    /\ UNCHANGED providerVars

\* Mutant: the lock is not released.
FinishLocked(t, result) ==
    /\ At(t, result, check[t].header)
    /\ UNCHANGED <<holder, queue, providerVars>>

\* _read is over, key_for releases the lock and answers, without another await.
Finish(t, result) ==
    /\ At(t, result, check[t].header)
    /\ holder' = NoTask
    /\ UNCHANGED <<queue, providerVars>>

\* The provider answers the discovery document.
DiscoveryRead(t) ==
    /\ check[t].at = "discovery"
    /\ uri' = place
    /\ At(t, "jwks", check[t].header)
    /\ UNCHANGED <<keys, readAge, loadAge, holder, queue, providerVars>>

\* Mutant: the keys count as loaded one unit late.
JwksReadLate(t) ==
    /\ check[t].at = "jwks"
    /\ uri = place
    /\ keys' = published
    /\ loadAge' = readAge - 1
    /\ Finish(t, Verdict(check[t].header, published))
    /\ UNCHANGED <<uri, readAge>>

\* It answers the JWKS, which counts as loaded when the read began.
JwksRead(t) ==
    /\ check[t].at = "jwks"
    /\ uri = place
    /\ keys' = published
    /\ loadAge' = readAge
    /\ Finish(t, Verdict(check[t].header, published))
    /\ UNCHANGED <<uri, readAge>>

\* The provider is down, or the JWKS is no longer at the URL that is kept.
\* The old keys stay.
ReadFailed(t) ==
    /\ Reads(t)
    /\ \/ "outage" \in Faults
       \/ check[t].at = "jwks" /\ uri # place
    /\ Finish(t, Verdict(check[t].header, keys))
    /\ UNCHANGED cacheVars

\* An endpoint in the document makes urlsplit raise ValueError, which is none
\* of the exceptions that _read and key_for handle.
DiscoveryRaised(t) ==
    /\ check[t].at = "discovery"
    /\ "malformed" \in Faults
    /\ Finish(t, "raised")
    /\ UNCHANGED cacheVars

\* The token check goes on with the result.
Return(t) ==
    /\ check[t].at \in Result
    /\ check' = [check EXCEPT ![t] = Idle]
    /\ UNCHANGED <<cacheVars, holder, queue, providerVars>>

----------------------------------------------------------------------------
(* The provider and time                                                   *)

\* The provider publishes or removes one key, also its last one: a JWKS without
\* a key for signatures is read like any other.
Rotate(k) ==
    /\ published' = IF k \in published THEN published \ {k} ELSE published \cup {k}
    /\ since' = [since EXCEPT ![k] = 0]
    /\ UNCHANGED <<cacheVars, holder, queue, check, place>>

Move ==
    /\ "move" \in Faults
    /\ \E p \in Places \ {place} : place' = p
    /\ UNCHANGED <<cacheVars, holder, queue, check, published, since>>

UpTo(bound, n) == IF n < bound THEN n + 1 ELSE bound

\* A unit of time passes; not past the timeouts of a read that runs.
Elapse ==
    /\ (\E t \in Task : Reads(t)) => readAge < ReadTime
    /\ readAge' = UpTo(Refresh, readAge)
    /\ loadAge' = IF keys = Absent THEN 0 ELSE UpTo(MaxAge, loadAge)
    /\ since' = [k \in Kid |-> UpTo(MaxAge, since[k])]
    /\ UNCHANGED <<keys, uri, holder, queue, check, published, place>>

KeysInit ==
    /\ keys = Absent
    /\ uri = Absent
    /\ readAge = Refresh
    /\ loadAge = 0
    /\ holder = NoTask
    /\ queue = <<>>
    /\ check = [t \in Task |-> Idle]
    /\ published \in SUBSET Kid
    /\ place \in Places
    /\ since = [k \in Kid |-> MaxAge]

Reading(t) == DiscoveryRead(t) \/ JwksRead(t) \/ ReadFailed(t) \/ DiscoveryRaised(t)

KeysNext ==
    \/ \E t \in Task :
          \/ \E h \in Header : Call(t, h)
          \/ Resume(t) \/ Reading(t) \/ Return(t)
    \/ \E k \in Kid : Rotate(k)
    \/ Move
    \/ Elapse

KeysSpec == KeysInit /\ [][KeysNext]_keysVars

\* The event loop runs every task that is ready, and the timeout of aiohttp
\* ends every read.  Nothing forces a token check to come, or the provider to act.
KeysFairness == \A t \in Task : WF_keysVars(Resume(t)) /\ WF_keysVars(Reading(t))

FairKeysSpec == KeysSpec /\ KeysFairness

----------------------------------------------------------------------------
(* Properties                                                              *)

KeysTypeOK ==
    /\ keys \in {Absent} \cup SUBSET Kid
    /\ uri \in Places \cup {Absent}
    /\ readAge \in 0..Refresh
    /\ loadAge \in 0..MaxAge
    /\ holder \in Task \cup {NoTask}
    /\ queue \in Seq(Task)
    /\ check \in [Task -> [at : Stage, header : Header]]
    /\ published \in SUBSET Kid
    /\ place \in Places
    /\ since \in [Kid -> 0..MaxAge]

\* The lock serves its readers: only its holder reads, and the waiting calls
\* are the ones in the queue, each once.
LockServesReaders ==
    /\ \A t \in Task : Reads(t) <=> holder = t
    /\ \A t \in Task : check[t].at = "lock" <=> \E i \in 1..Len(queue) : queue[i] = t
    /\ \A i, j \in 1..Len(queue) : queue[i] = queue[j] => i = j

\* The reads of the keys as the provider sees them.
Throttle == INSTANCE ReadThrottle
    WITH reading <- \E t \in Task : Reads(t), age <- readAge

ReadsAreThrottled == Throttle!ThrottleSpec

\* The step that gives call t the result.
Gives(t, result) == check[t].at # result /\ check'[t].at = result

\* KEY_MAX_AGE_SECONDS: "A key that the identity provider removed stops working
\* within this time."  Holds while the issuer answers at one URL.
RemovedKeyStops ==
    [][\A t \in Task : Gives(t, "found") =>
         LET k == check'[t].header.kid
         IN  k = NoKid \/ k \in published \/ since[k] < MaxAge]_keysVars

\* A new key works as soon as one read may follow its publication: "unknown
\* key" (a 401 that counts against the caller) comes only for a key younger
\* than refresh_seconds.  Holds while the issuer answers at one URL.
NewKeyIsLearned ==
    [][\A t \in Task : Gives(t, "unknown") =>
         LET k == check'[t].header.kid
         IN  k \notin published \/ since[k] < Refresh]_keysVars

\* Keys older than max_age are used only when a read was tried less than
\* refresh_seconds ago: the gate never falls asleep on old keys, also when
\* many calls wait for the lock while the provider is down.
OldKeysOnlyAfterATry ==
    [][\A t \in Task : Gives(t, "found") /\ loadAge' = MaxAge => readAge' < Refresh]_keysVars

\* ADR-008, also while reads fail: a key that was removed max_age ago is used
\* only with keys that old, and after a read that failed less than
\* refresh_seconds ago, so the first read that succeeds ends its use.
RemovedKeyNeedsFailedRead ==
    [][\A t \in Task : Gives(t, "found") =>
         LET k == check'[t].header.kid
         IN  \/ k = NoKid \/ k \in published \/ since[k] < MaxAge
             \/ loadAge' = MaxAge /\ readAge' < Refresh]_keysVars

\* Also while reads fail: "unknown key" for a key published refresh_seconds ago
\* or longer comes only when the last try to read came later than the keys.
UnknownKeyNeedsFailedRead ==
    [][\A t \in Task : Gives(t, "unknown") =>
         LET k == check'[t].header.kid
         IN  \/ k \notin published \/ since[k] < Refresh
             \/ readAge' < Refresh /\ since[k] <= loadAge']_keysVars

\* Every call of key_for ends, in its turn at the lock, whatever the provider does.
EveryCallEnds == \A t \in Task : check[t].at = "lock" \/ Reads(t) ~> check[t].at \in Result
====
