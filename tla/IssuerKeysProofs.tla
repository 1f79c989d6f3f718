---- MODULE IssuerKeysProofs ----
(***************************************************************************)
(* What IssuerKeys guarantees for any number of token checks and keys, and *)
(* for any times with ReadTime < Refresh <= MaxAge.                        *)
(***************************************************************************)
EXTENDS IssuerKeys, SequenceTheorems, TLAPS

\* A read ends within its timeouts, long before the next one may start.
ReadsInTime == (\E t \in Task : Reads(t)) => readAge <= ReadTime

KeysInv == KeysTypeOK /\ LockServesReaders /\ ReadsInTime

----------------------------------------------------------------------------
(* The types                                                               *)

LEMMA SelectType ==
    ASSUME NEW h \in Header, NEW ks
    PROVE  Select(h, ks) \in {"found", "refused", "unknown"}
           /\ (Select(h, ks) # "unknown" => ks # Absent)
PROOF
<1>1. CASE ks = Absent \/ ~Matches(h, ks)
    BY <1>1 DEF Select
<1>2. CASE ks # Absent /\ Matches(h, ks)
    BY <1>2 DEF Select
<1> QED BY <1>1, <1>2

LEMMA VerdictType ==
    ASSUME NEW h \in Header, NEW ks
    PROVE  Verdict(h, ks) \in Result
BY SelectType DEF Verdict, Result

LEMMA KeysInitInv == KeysInit => KeysInv
PROOF
<1> SUFFICES ASSUME KeysInit PROVE KeysInv
    OBVIOUS
<1>1. Idle \in [at : Stage, header : Header] /\ Idle.at = "idle"
    BY DEF Idle, Stage, Header
<1>2. KeysTypeOK
    BY <1>1, KeysAssumption DEF KeysInit, KeysTypeOK
<1>3. \A t \in Task : check[t].at = "idle"
    BY <1>1 DEF KeysInit
<1>4. LockServesReaders
    BY <1>3, KeysAssumption DEF KeysInit, LockServesReaders, Reads
<1>5. ReadsInTime
    BY <1>3 DEF ReadsInTime, Reads
<1> QED BY <1>2, <1>4, <1>5 DEF KeysInv

----------------------------------------------------------------------------
(* The lock                                                                *)

Reader == {"discovery", "jwks"}

InQueue(q, t) == \E i \in 1..Len(q) : q[i] = t

NoTwice(q) == \A i, j \in 1..Len(q) : q[i] = q[j] => i = j

\* A new waiter goes to the end of the queue.
LEMMA QueueGrows ==
    ASSUME NEW q \in Seq(Task), NEW t \in Task, ~InQueue(q, t), NoTwice(q)
    PROVE  /\ Append(q, t) \in Seq(Task)
           /\ NoTwice(Append(q, t))
           /\ \A s \in Task : InQueue(Append(q, t), s) <=> (s = t \/ InQueue(q, s))
BY AppendProperties DEF InQueue, NoTwice

\* The first waiter leaves the queue, and the others stay.
LEMMA QueueShrinks ==
    ASSUME NEW q \in Seq(Task), q # <<>>, NoTwice(q)
    PROVE  /\ Head(q) \in Task
           /\ Tail(q) \in Seq(Task)
           /\ NoTwice(Tail(q))
           /\ \A s \in Task : InQueue(Tail(q), s) <=> (s # Head(q) /\ InQueue(q, s))
PROOF
<1>1. /\ Head(q) = q[1] /\ Head(q) \in Task /\ Tail(q) \in Seq(Task)
      /\ Len(q) \in Nat \ {0} /\ Len(Tail(q)) = Len(q) - 1
      /\ \A i \in 1..Len(Tail(q)) : Tail(q)[i] = q[i + 1]
    BY EmptySeq, HeadTailProperties
<1>2. NoTwice(Tail(q))
    BY <1>1 DEF NoTwice
<1>3. ASSUME NEW s \in Task, InQueue(Tail(q), s) PROVE s # Head(q) /\ InQueue(q, s)
    BY <1>1, <1>3 DEF InQueue, NoTwice
<1>4. ASSUME NEW s \in Task, s # Head(q), InQueue(q, s) PROVE InQueue(Tail(q), s)
    <2>1. PICK i \in 1..Len(q) : q[i] = s
        BY <1>4 DEF InQueue
    <2>2. i # 1 /\ i - 1 \in 1..Len(Tail(q)) /\ (i - 1) + 1 = i
        BY <1>1, <1>4, <2>1
    <2> QED BY <1>1, <2>1, <2>2 DEF InQueue
<1> QED BY <1>1, <1>2, <1>3, <1>4

\* A call that has the lock either starts a read and keeps it, or ends.
LEMMA LockedFacts ==
    ASSUME KeysTypeOK, NEW t \in Task, NEW h \in Header, Locked(t, h)
    PROVE  \E stage \in Result \cup Reader :
              /\ At(t, stage, h)
              /\ holder' = IF stage \in Reader THEN t ELSE NoTask
              /\ stage \in Reader => MayRead /\ readAge' = 0
              /\ stage \notin Reader => readAge' = readAge
              /\ UNCHANGED <<keys, uri, loadAge>>
PROOF
<1>1. Select(h, keys) \in {"found", "refused", "unknown"} /\ Verdict(h, keys) \in Result
    BY SelectType, VerdictType
<1>2. Result \cap Reader = {} /\ {"found", "refused", "unknown"} \subseteq Result
    BY DEF Result, Reader
<1>3. (IF uri = Absent THEN "discovery" ELSE "jwks") \in Reader
    BY DEF Reader
<1>4. CASE Settled(h) /\ At(t, Select(h, keys), h) /\ holder' = NoTask /\ UNCHANGED cacheVars
    BY <1>1, <1>2, <1>4 DEF cacheVars
<1>5. CASE ~Settled(h) /\ MayRead /\ readAge' = 0 /\ holder' = t
           /\ At(t, IF uri = Absent THEN "discovery" ELSE "jwks", h)
           /\ UNCHANGED <<keys, uri, loadAge>>
    BY <1>3, <1>5
<1>6. CASE ~Settled(h) /\ ~MayRead /\ At(t, Verdict(h, keys), h) /\ holder' = NoTask
           /\ UNCHANGED cacheVars
    BY <1>1, <1>2, <1>6 DEF cacheVars
<1> QED BY <1>4, <1>5, <1>6 DEF Locked

\* One call moves to another stage, and the lock and the queue follow.
LEMMA LockFollows ==
    ASSUME KeysTypeOK, LockServesReaders, NEW t \in Task, NEW stage \in Stage, NEW h,
           At(t, stage, h),
           \A s \in Task \ {t} : holder' = s <=> holder = s,
           holder' = t <=> stage \in Reader,
           NoTwice(queue'),
           \A s \in Task \ {t} : InQueue(queue', s) <=> InQueue(queue, s),
           InQueue(queue', t) <=> stage = "lock"
    PROVE  LockServesReaders'
PROOF
<1>1. /\ check' = [check EXCEPT ![t] = [at |-> stage, header |-> h]]
      /\ check \in [Task -> [at : Stage, header : Header]]
    BY DEF At, KeysTypeOK
<1>2. check'[t].at = stage /\ \A s \in Task \ {t} : check'[s] = check[s]
    BY <1>1
<1>3. ASSUME NEW s \in Task PROVE check'[s].at \in Reader <=> holder' = s
    BY <1>2 DEF LockServesReaders, Reads, Reader
<1>4. ASSUME NEW s \in Task PROVE check'[s].at = "lock" <=> InQueue(queue', s)
    BY <1>2 DEF LockServesReaders, InQueue
<1> QED BY <1>3, <1>4 DEF LockServesReaders, Reads, Reader, InQueue, NoTwice

----------------------------------------------------------------------------
(* The invariant, action by action                                         *)

\* A call that has just got the lock, from the head of the queue or at once.
LEMMA LockedInv ==
    ASSUME KeysInv, NEW t \in Task, NEW h \in Header, Locked(t, h), holder = NoTask,
           UNCHANGED providerVars, queue' \in Seq(Task), NoTwice(queue'),
           \A s \in Task : InQueue(queue', s) <=> (s # t /\ InQueue(queue, s))
    PROVE  KeysInv'
PROOF
<1>1. KeysTypeOK /\ LockServesReaders
    BY DEF KeysInv
<1>2. PICK stage \in Result \cup Reader :
              /\ At(t, stage, h)
              /\ holder' = IF stage \in Reader THEN t ELSE NoTask
              /\ stage \in Reader => MayRead /\ readAge' = 0
              /\ stage \notin Reader => readAge' = readAge
              /\ UNCHANGED <<keys, uri, loadAge>>
    BY <1>1, LockedFacts
<1>3. stage \in Stage /\ stage # "lock"
    BY DEF Stage, Result, Reader
<1>4. readAge' \in 0..Refresh /\ Refresh \in Nat /\ ReadTime \in Nat
    BY <1>1, <1>2, KeysAssumption DEF KeysTypeOK
<1>5. check' \in [Task -> [at : Stage, header : Header]]
    BY <1>1, <1>2, <1>3 DEF At, KeysTypeOK
<1>6. KeysTypeOK'
    BY <1>1, <1>2, <1>4, <1>5 DEF KeysTypeOK, providerVars
<1>7. LockServesReaders'
    <2>1. \A s \in Task \ {t} : holder' = s <=> holder = s
        BY <1>2, KeysAssumption
    <2>2. holder' = t <=> stage \in Reader
        BY <1>2, KeysAssumption
    <2> QED BY <1>1, <1>2, <1>3, <2>1, <2>2, LockFollows
<1>8. ReadsInTime'
    <2>1. CASE stage \in Reader
        BY <1>2, <1>4, <2>1 DEF ReadsInTime
    <2>2. CASE stage \notin Reader
        <3>1. \A s \in Task : ~Reads(s)'
            BY <1>2, <1>7, <2>2, KeysAssumption DEF LockServesReaders
        <3> QED BY <3>1 DEF ReadsInTime
    <2> QED BY <2>1, <2>2
<1> QED BY <1>6, <1>7, <1>8 DEF KeysInv

LEMMA CallInv ==
    ASSUME KeysInv, NEW t \in Task, NEW h \in Header, Call(t, h)
    PROVE  KeysInv'
PROOF
<1>1. KeysTypeOK /\ LockServesReaders /\ ReadsInTime
    BY DEF KeysInv
<1>2. /\ check[t].at = "idle" /\ UNCHANGED providerVars
      /\ queue \in Seq(Task) /\ NoTwice(queue) /\ ~InQueue(queue, t) /\ holder # t
    BY <1>1 DEF Call, Idle, LockServesReaders, InQueue, NoTwice, Reads, KeysTypeOK
<1>3. CASE Settled(h) /\ At(t, Select(h, keys), h) /\ UNCHANGED <<cacheVars, holder, queue>>
    <2>1. Select(h, keys) \in Stage /\ Select(h, keys) \notin Reader /\ Select(h, keys) # "lock"
        BY SelectType DEF Stage, Result, Reader
    <2>2. KeysTypeOK'
        <3>1. check' \in [Task -> [at : Stage, header : Header]]
            BY <1>1, <1>3, <2>1 DEF At, KeysTypeOK
        <3> QED BY <1>1, <1>2, <1>3, <3>1 DEF KeysTypeOK, providerVars, cacheVars
    <2>3. LockServesReaders'
        BY <1>1, <1>2, <1>3, <2>1, LockFollows
    <2>4. ReadsInTime'
        BY <1>1, <1>3, <2>3 DEF ReadsInTime, LockServesReaders, cacheVars
    <2> QED BY <2>2, <2>3, <2>4 DEF KeysInv
<1>4. CASE holder = NoTask /\ queue = <<>> /\ Locked(t, h) /\ UNCHANGED queue
    <2>1. \A s \in Task : InQueue(queue', s) <=> (s # t /\ InQueue(queue, s))
        BY <1>2, <1>4
    <2> QED BY <1>2, <1>4, <2>1, LockedInv
<1>5. CASE At(t, "lock", h) /\ queue' = Append(queue, t) /\ UNCHANGED <<cacheVars, holder>>
    <2>1. /\ queue' \in Seq(Task) /\ NoTwice(queue')
          /\ \A s \in Task : InQueue(queue', s) <=> (s = t \/ InQueue(queue, s))
        BY <1>2, <1>5, QueueGrows
    <2>2. "lock" \in Stage /\ "lock" \notin Reader
        BY DEF Stage, Reader
    <2>3. KeysTypeOK'
        <3>1. check' \in [Task -> [at : Stage, header : Header]]
            BY <1>1, <1>5, <2>2 DEF At, KeysTypeOK
        <3> QED BY <1>1, <1>2, <1>5, <2>1, <3>1 DEF KeysTypeOK, providerVars, cacheVars
    <2>4. LockServesReaders'
        BY <1>1, <1>2, <1>5, <2>1, <2>2, LockFollows
    <2>5. ReadsInTime'
        BY <1>1, <1>5, <2>4 DEF ReadsInTime, LockServesReaders, cacheVars
    <2> QED BY <2>3, <2>4, <2>5 DEF KeysInv
<1> QED BY <1>3, <1>4, <1>5 DEF Call

LEMMA ResumeInv ==
    ASSUME KeysInv, NEW t \in Task, Resume(t)
    PROVE  KeysInv'
PROOF
<1>1. KeysTypeOK /\ LockServesReaders
    BY DEF KeysInv
<1>2. queue \in Seq(Task) /\ NoTwice(queue) /\ check[t].header \in Header
    BY <1>1 DEF KeysTypeOK, LockServesReaders, NoTwice
<1>3. /\ queue' \in Seq(Task) /\ NoTwice(queue')
      /\ \A s \in Task : InQueue(queue', s) <=> (s # t /\ InQueue(queue, s))
    BY <1>2, QueueShrinks DEF Resume
<1>4. PICK h \in Header : h = check[t].header
    BY <1>2
<1> QED BY <1>3, <1>4, LockedInv DEF Resume

\* A read that is over releases the lock, whatever it brought.
LEMMA FinishInv ==
    ASSUME KeysInv, NEW t \in Task, NEW result \in Result, Reads(t), Finish(t, result),
           keys' \in {Absent} \cup SUBSET Kid, loadAge' \in 0..MaxAge, UNCHANGED <<uri, readAge>>
    PROVE  KeysInv'
PROOF
<1>1. KeysTypeOK /\ LockServesReaders
    BY DEF KeysInv
<1>2. PICK h \in Header : h = check[t].header
    BY <1>1 DEF KeysTypeOK
<1>3. At(t, result, h) /\ holder' = NoTask /\ UNCHANGED <<queue, providerVars>>
    BY <1>2 DEF Finish
<1>4. result \in Stage /\ result \notin Reader /\ result # "lock"
    BY DEF Stage, Result, Reader
<1>5. holder = t /\ check[t].at # "lock"
    BY <1>1 DEF LockServesReaders, Reads
<1>6. KeysTypeOK'
    <2>1. check' \in [Task -> [at : Stage, header : Header]]
        BY <1>1, <1>3, <1>4 DEF At, KeysTypeOK
    <2> QED BY <1>1, <1>3, <2>1 DEF KeysTypeOK, providerVars
<1>7. LockServesReaders'
    <2>1. \A s \in Task \ {t} : holder' = s <=> holder = s
        BY <1>3, <1>5, KeysAssumption
    <2>2. holder' = t <=> result \in Reader
        BY <1>3, <1>4, KeysAssumption
    <2>3. NoTwice(queue') /\ \A s \in Task : InQueue(queue', s) <=> InQueue(queue, s)
        BY <1>1, <1>3 DEF LockServesReaders, NoTwice
    <2>4. InQueue(queue', t) <=> result = "lock"
        BY <1>1, <1>4, <1>5, <2>3 DEF LockServesReaders, InQueue
    <2> QED BY <1>1, <1>3, <1>4, <2>1, <2>2, <2>3, <2>4, LockFollows
<1>8. \A s \in Task : ~Reads(s)'
    BY <1>3, <1>7, KeysAssumption DEF LockServesReaders
<1> QED BY <1>6, <1>7, <1>8 DEF KeysInv, ReadsInTime

\* A step that leaves the lock, the queue and the stages of the calls alone.
LEMMA SameStages ==
    ASSUME LockServesReaders, UNCHANGED <<holder, queue, check>>
    PROVE  LockServesReaders' /\ \A t \in Task : Reads(t)' <=> Reads(t)
BY DEF LockServesReaders, Reads

LEMMA DiscoveryReadInv ==
    ASSUME KeysInv, NEW t \in Task, DiscoveryRead(t)
    PROVE  KeysInv'
PROOF
<1>1. KeysTypeOK /\ LockServesReaders /\ ReadsInTime /\ Reads(t)
    BY DEF KeysInv, DiscoveryRead, Reads
<1>2. /\ At(t, "jwks", check[t].header) /\ check[t].header \in Header /\ uri' = place
      /\ UNCHANGED <<keys, readAge, loadAge, holder, queue, providerVars>>
    BY <1>1 DEF DiscoveryRead, KeysTypeOK
<1>3. KeysTypeOK'
    <2>1. check' \in [Task -> [at : Stage, header : Header]]
        BY <1>1, <1>2 DEF At, KeysTypeOK, Stage
    <2> QED BY <1>1, <1>2, <2>1 DEF KeysTypeOK, providerVars
<1>4. /\ \A s \in Task \ {t} : check'[s] = check[s]
      /\ check'[t].at = "jwks" /\ check[t].at = "discovery"
    BY <1>1, <1>2 DEF At, KeysTypeOK, DiscoveryRead
<1>5. LockServesReaders'
    BY <1>1, <1>2, <1>4 DEF LockServesReaders, Reads
<1>6. ReadsInTime'
    BY <1>1, <1>2 DEF ReadsInTime
<1> QED BY <1>3, <1>5, <1>6 DEF KeysInv

LEMMA ReadingInv ==
    ASSUME KeysInv, NEW t \in Task, Reading(t)
    PROVE  KeysInv'
PROOF
<1>1. KeysTypeOK /\ LockServesReaders /\ ReadsInTime
    BY DEF KeysInv
<1>2. CASE DiscoveryRead(t)
    BY <1>2, DiscoveryReadInv
<1>3. CASE JwksRead(t)
    <2>1. Reads(t) /\ check[t].header \in Header
        BY <1>1, <1>3 DEF JwksRead, Reads, KeysTypeOK
    <2>2. readAge \in 0..MaxAge
        BY <1>1, KeysAssumption DEF KeysTypeOK
    <2>3. Verdict(check[t].header, published) \in Result
        BY <2>1, VerdictType
    <2> QED BY <1>1, <1>3, <2>1, <2>2, <2>3, FinishInv DEF JwksRead, KeysTypeOK
<1>4. CASE ReadFailed(t)
    <2>1. Verdict(check[t].header, keys) \in Result
        BY <1>1, VerdictType DEF KeysTypeOK
    <2> QED BY <1>1, <1>4, <2>1, FinishInv DEF ReadFailed, KeysTypeOK, cacheVars
<1>5. CASE DiscoveryRaised(t)
    BY <1>1, <1>5, FinishInv DEF DiscoveryRaised, Reads, Result, KeysTypeOK, cacheVars
<1> QED BY <1>2, <1>3, <1>4, <1>5 DEF Reading

LEMMA ReturnInv ==
    ASSUME KeysInv, NEW t \in Task, Return(t)
    PROVE  KeysInv'
PROOF
<1>1. /\ KeysTypeOK /\ LockServesReaders /\ ReadsInTime
      /\ check[t].at \in Result /\ check' = [check EXCEPT ![t] = Idle]
      /\ UNCHANGED <<cacheVars, holder, queue, providerVars>>
    BY DEF KeysInv, Return
<1>2. Idle \in [at : Stage, header : Header] /\ Idle.at = "idle"
    BY DEF Idle, Stage, Header
<1>3. KeysTypeOK'
    BY <1>1, <1>2 DEF KeysTypeOK, cacheVars, providerVars
<1>4. /\ check'[t].at = "idle" /\ check[t].at \notin Reader \cup {"lock"}
      /\ \A s \in Task \ {t} : check'[s] = check[s]
    BY <1>1, <1>2 DEF KeysTypeOK, Result, Reader
<1>5. LockServesReaders'
    BY <1>1, <1>4 DEF LockServesReaders, Reads, Reader
<1>6. ReadsInTime'
    BY <1>1, <1>5 DEF ReadsInTime, LockServesReaders, cacheVars
<1> QED BY <1>3, <1>5, <1>6 DEF KeysInv

LEMMA EnvironmentInv ==
    ASSUME KeysInv, (\E k \in Kid : Rotate(k)) \/ Move \/ UNCHANGED keysVars
    PROVE  KeysInv'
PROOF
<1>1. /\ KeysTypeOK /\ LockServesReaders /\ ReadsInTime
      /\ UNCHANGED <<cacheVars, holder, queue, check>>
    BY DEF KeysInv, Rotate, Move, keysVars
<1>2. published' \in SUBSET Kid /\ place' \in Places /\ since' \in [Kid -> 0..MaxAge]
    BY <1>1, KeysAssumption DEF Rotate, Move, keysVars, providerVars, KeysTypeOK
<1>3. KeysTypeOK'
    BY <1>1, <1>2 DEF KeysTypeOK, cacheVars
<1> QED BY <1>1, <1>3, SameStages DEF KeysInv, ReadsInTime, cacheVars

LEMMA UpToFacts ==
    ASSUME NEW bound \in Nat, NEW n \in 0..bound
    PROVE  /\ UpTo(bound, n) \in 0..bound
           /\ UpTo(bound, n) >= n
           /\ UpTo(bound, n) <= n + 1
           /\ n < bound => UpTo(bound, n) = n + 1
           /\ n = bound => UpTo(bound, n) = bound
BY DEF UpTo

LEMMA ElapseInv ==
    ASSUME KeysInv, Elapse
    PROVE  KeysInv'
PROOF
<1>1. /\ KeysTypeOK /\ LockServesReaders /\ Refresh \in Nat /\ MaxAge \in Nat /\ ReadTime \in Nat
      /\ UNCHANGED <<keys, uri, holder, queue, check, published, place>>
    BY KeysAssumption DEF KeysInv, Elapse
<1>2. readAge \in 0..Refresh /\ loadAge \in 0..MaxAge /\ since \in [Kid -> 0..MaxAge]
    BY <1>1 DEF KeysTypeOK
<1>3. /\ readAge' = UpTo(Refresh, readAge) /\ readAge' \in 0..Refresh /\ readAge' <= readAge + 1
      /\ loadAge' \in 0..MaxAge
    BY <1>1, <1>2, UpToFacts DEF Elapse
<1>4. since' \in [Kid -> 0..MaxAge]
    BY <1>1, <1>2, UpToFacts DEF Elapse
<1>5. KeysTypeOK'
    BY <1>1, <1>3, <1>4 DEF KeysTypeOK
<1>6. ReadsInTime'
    <2>1. (\E t \in Task : Reads(t)') => readAge < ReadTime
        BY <1>1, SameStages DEF Elapse
    <2> QED BY <1>1, <1>2, <1>3, <2>1 DEF ReadsInTime
<1> QED BY <1>1, <1>5, <1>6, SameStages DEF KeysInv

LEMMA KeysStepInv == KeysInv /\ [KeysNext]_keysVars => KeysInv'
PROOF
<1> SUFFICES ASSUME KeysInv, [KeysNext]_keysVars PROVE KeysInv'
    OBVIOUS
<1>1. ASSUME NEW t \in Task, NEW h \in Header, Call(t, h) PROVE KeysInv'
    BY <1>1, CallInv
<1>2. ASSUME NEW t \in Task, Resume(t) PROVE KeysInv'
    BY <1>2, ResumeInv
<1>3. ASSUME NEW t \in Task, Reading(t) PROVE KeysInv'
    BY <1>3, ReadingInv
<1>4. ASSUME NEW t \in Task, Return(t) PROVE KeysInv'
    BY <1>4, ReturnInv
<1>5. CASE (\E k \in Kid : Rotate(k)) \/ Move \/ UNCHANGED keysVars
    BY <1>5, EnvironmentInv
<1>6. CASE Elapse
    BY <1>6, ElapseInv
<1> QED BY <1>1, <1>2, <1>3, <1>4, <1>5, <1>6 DEF KeysNext

LEMMA KeysInvariant == KeysSpec => []KeysInv
PROOF
BY KeysInitInv, KeysStepInv, PTL DEF KeysSpec

\* The cache, the lock and the calls keep their types.
THEOREM KeysTypeCorrect == KeysSpec => []KeysTypeOK
PROOF
<1>1. KeysInv => KeysTypeOK
    BY DEF KeysInv
<1> QED BY KeysInvariant, <1>1, PTL

\* Only the holder of the lock reads, the lock is never held by a call that is
\* done, and every waiting call is in the queue once.
THEOREM LockIsSound == KeysSpec => []LockServesReaders
PROOF
<1>1. KeysInv => LockServesReaders
    BY DEF KeysInv
<1> QED BY KeysInvariant, <1>1, PTL

----------------------------------------------------------------------------
(* The throttle                                                            *)

\* The lock is held exactly while the keys are read.
LEMMA HolderReads ==
    ASSUME KeysInv
    PROVE  (\E t \in Task : Reads(t)) <=> holder # NoTask
BY KeysAssumption DEF KeysInv, KeysTypeOK, LockServesReaders

\* The steps of the lock and of the time since the last try, as the provider
\* sees them.
LEMMA ThrottleStep ==
    ASSUME KeysInv, KeysInv',
           \/ holder = NoTask /\ holder' # NoTask /\ MayRead /\ readAge' = 0
           \/ holder # NoTask /\ holder' = NoTask /\ readAge' = readAge
           \/ holder' = holder /\ readAge' = UpTo(Refresh, readAge)
           \/ holder' = holder /\ readAge' = readAge
    PROVE  [Throttle!ThrottleNext]_(Throttle!throttleVars)
PROOF
<1> DEFINE reading == \E t \in Task : Reads(t)
<1>1. (reading <=> holder # NoTask) /\ (reading' <=> holder' # NoTask)
    <2>1. reading <=> holder # NoTask
        BY HolderReads
    <2>2. reading' <=> holder' # NoTask
        BY KeysAssumption DEF KeysInv, KeysTypeOK, LockServesReaders
    <2> QED BY <2>1, <2>2
<1>2. reading \in BOOLEAN /\ reading' \in BOOLEAN
    OBVIOUS
<1>3. readAge \in 0..Refresh /\ Refresh \in Nat
    BY KeysAssumption DEF KeysInv, KeysTypeOK
<1>4. CASE holder = NoTask /\ holder' # NoTask /\ MayRead /\ readAge' = 0
    BY <1>1, <1>2, <1>4 DEF MayRead, Throttle!ThrottleNext, Throttle!StartRead
<1>5. CASE holder # NoTask /\ holder' = NoTask /\ readAge' = readAge
    BY <1>1, <1>2, <1>5 DEF Throttle!ThrottleNext, Throttle!EndRead
<1>6. CASE holder' = holder /\ readAge' = readAge
    BY <1>1, <1>2, <1>6 DEF Throttle!throttleVars
<1>7. CASE holder' = holder /\ readAge' = UpTo(Refresh, readAge) /\ readAge' # readAge
    BY <1>1, <1>2, <1>3, <1>7 DEF UpTo, Throttle!ThrottleNext, Throttle!Tick
<1> QED BY <1>4, <1>5, <1>6, <1>7

\* A call that has just got the lock starts a read when it may, or ends.
LEMMA LockedThrottle ==
    ASSUME KeysInv, KeysInv', holder = NoTask, NEW t \in Task, NEW h \in Header, Locked(t, h)
    PROVE  [Throttle!ThrottleNext]_(Throttle!throttleVars)
PROOF
<1>1. PICK stage \in Result \cup Reader :
              /\ holder' = IF stage \in Reader THEN t ELSE NoTask
              /\ stage \in Reader => MayRead /\ readAge' = 0
              /\ stage \notin Reader => readAge' = readAge
    BY LockedFacts DEF KeysInv
<1> QED BY <1>1, ThrottleStep, KeysAssumption

LEMMA KeysStepThrottle ==
    KeysInv /\ KeysInv' /\ [KeysNext]_keysVars => [Throttle!ThrottleNext]_(Throttle!throttleVars)
PROOF
<1> SUFFICES ASSUME KeysInv, KeysInv', [KeysNext]_keysVars
             PROVE  [Throttle!ThrottleNext]_(Throttle!throttleVars)
    OBVIOUS
<1>1. ASSUME NEW t \in Task, NEW h \in Header, Call(t, h)
      PROVE  [Throttle!ThrottleNext]_(Throttle!throttleVars)
    <2>1. CASE holder = NoTask /\ Locked(t, h)
        BY <2>1, LockedThrottle
    <2>2. CASE UNCHANGED <<cacheVars, holder>>
        BY <2>2, ThrottleStep DEF cacheVars
    <2> QED BY <1>1, <2>1, <2>2 DEF Call
<1>2. ASSUME NEW t \in Task, Resume(t)
      PROVE  [Throttle!ThrottleNext]_(Throttle!throttleVars)
    <2>1. PICK h \in Header : h = check[t].header
        BY DEF KeysInv, KeysTypeOK
    <2> QED BY <1>2, <2>1, LockedThrottle DEF Resume
<1>3. ASSUME NEW t \in Task, Reading(t)
      PROVE  [Throttle!ThrottleNext]_(Throttle!throttleVars)
    <2>1. Reads(t) /\ holder # NoTask
        BY <1>3, HolderReads
           DEF Reading, DiscoveryRead, JwksRead, ReadFailed, DiscoveryRaised, Reads
    <2>2. /\ holder' = holder \/ holder' = NoTask
          /\ readAge' = readAge
        BY <1>3 DEF Reading, DiscoveryRead, JwksRead, ReadFailed, DiscoveryRaised, Finish, cacheVars
    <2> QED BY <2>1, <2>2, ThrottleStep
<1>4. ASSUME NEW t \in Task, Return(t)
      PROVE  [Throttle!ThrottleNext]_(Throttle!throttleVars)
    BY <1>4, ThrottleStep DEF Return, cacheVars
<1>5. ASSUME (\E k \in Kid : Rotate(k)) \/ Move \/ UNCHANGED keysVars
      PROVE  [Throttle!ThrottleNext]_(Throttle!throttleVars)
    BY <1>5, ThrottleStep DEF Rotate, Move, keysVars, cacheVars
<1>6. ASSUME Elapse
      PROVE  [Throttle!ThrottleNext]_(Throttle!throttleVars)
    BY <1>6, ThrottleStep DEF Elapse
<1> QED BY <1>1, <1>2, <1>3, <1>4, <1>5, <1>6 DEF KeysNext

\* IssuerKeys implements the throttle: one read at a time, and two reads start
\* Refresh or more apart, for any number of calls and whatever the reads bring.
THEOREM KeysImplementThrottle == KeysSpec => ReadsAreThrottled
PROOF
<1>1. KeysInit => Throttle!ThrottleInit
    <2> SUFFICES ASSUME KeysInit PROVE Throttle!ThrottleInit
        OBVIOUS
    <2>1. \A t \in Task : ~Reads(t)
        BY DEF KeysInit, Reads, Idle
    <2> QED BY <2>1 DEF KeysInit, Throttle!ThrottleInit
<1>2. KeysInv /\ KeysInv' /\ [KeysNext]_keysVars
          => [Throttle!ThrottleNext]_(Throttle!throttleVars)
    BY KeysStepThrottle
<1> QED BY <1>1, <1>2, KeysInvariant, PTL
        DEF KeysSpec, ReadsAreThrottled, Throttle!ThrottleSpec

----------------------------------------------------------------------------
(* The verdicts                                                            *)

\* A call that finds a key, or finds it unknown, decides on the keys in memory
\* without a read, on the keys it has just read, or after a read that failed.
DecidesAtOnce(h, result) ==
    Settled(h) /\ result = Select(h, keys) /\ UNCHANGED cacheVars

DecidesUnderLock(h, result) ==
    /\ holder = NoTask /\ ~Settled(h) /\ ~MayRead
    /\ result = Verdict(h, keys)
    /\ UNCHANGED cacheVars

DecidesAfterRead(t, h, result) == JwksRead(t) /\ result = Verdict(h, published)

DecidesAfterFailure(t, h, result) == ReadFailed(t) /\ result = Verdict(h, keys)

Decides(t, h, result) ==
    \/ DecidesAtOnce(h, result) \/ DecidesUnderLock(h, result)
    \/ DecidesAfterRead(t, h, result) \/ DecidesAfterFailure(t, h, result)

\* A call that moves to another stage is the only one that does.
LEMMA AtFacts ==
    ASSUME KeysTypeOK, NEW s \in Task, NEW stage, NEW h, At(s, stage, h), NEW t \in Task,
           NEW result, Gives(t, result)
    PROVE  t = s /\ result = stage /\ check'[t].header = h
BY DEF KeysTypeOK, At, Gives

LEMMA LockedDecides ==
    ASSUME KeysTypeOK, holder = NoTask, NEW s \in Task, NEW h \in Header, Locked(s, h),
           NEW t \in Task, NEW result \in Result, Gives(t, result)
    PROVE  check'[t].header = h /\ Decides(t, h, result)
PROOF
<1>1. CASE Settled(h) /\ At(s, Select(h, keys), h) /\ UNCHANGED cacheVars
    BY <1>1, AtFacts DEF Decides, DecidesAtOnce
<1>2. CASE At(s, IF uri = Absent THEN "discovery" ELSE "jwks", h)
    BY <1>2, AtFacts DEF Result
<1>3. CASE ~Settled(h) /\ ~MayRead /\ At(s, Verdict(h, keys), h) /\ UNCHANGED cacheVars
    BY <1>3, AtFacts DEF Decides, DecidesUnderLock
<1> QED BY <1>1, <1>2, <1>3 DEF Locked

LEMMA GivesDecides ==
    ASSUME KeysInv, [KeysNext]_keysVars, NEW t \in Task, NEW result \in {"found", "unknown"},
           Gives(t, result)
    PROVE  \E h \in Header : check'[t].header = h /\ Decides(t, h, result)
PROOF
<1>1. KeysTypeOK /\ result \in Result
    BY DEF KeysInv, Result
<1>2. ASSUME NEW s \in Task, NEW h \in Header, Call(s, h)
      PROVE  check'[t].header = h /\ Decides(t, h, result)
    <2>1. CASE Settled(h) /\ At(s, Select(h, keys), h) /\ UNCHANGED <<cacheVars, holder, queue>>
        BY <1>1, <2>1, AtFacts DEF Decides, DecidesAtOnce
    <2>2. CASE holder = NoTask /\ Locked(s, h)
        BY <1>1, <2>2, LockedDecides
    <2>3. CASE At(s, "lock", h)
        BY <1>1, <2>3, AtFacts DEF Result
    <2> QED BY <1>2, <2>1, <2>2, <2>3 DEF Call
<1>3. ASSUME NEW s \in Task, Resume(s)
      PROVE  \E h \in Header : check'[t].header = h /\ Decides(t, h, result)
    <2>1. PICK h \in Header : h = check[s].header
        BY <1>1 DEF KeysTypeOK
    <2> QED BY <1>1, <1>3, <2>1, LockedDecides DEF Resume
<1>4. ASSUME NEW s \in Task, Reading(s)
      PROVE  \E h \in Header : check'[t].header = h /\ Decides(t, h, result)
    <2>1. PICK h \in Header : h = check[s].header
        BY <1>1 DEF KeysTypeOK
    <2>2. CASE DiscoveryRead(s)
        BY <1>1, <2>1, <2>2, AtFacts DEF DiscoveryRead
    <2>3. CASE JwksRead(s)
        BY <1>1, <2>1, <2>3, AtFacts DEF JwksRead, Finish, Decides, DecidesAfterRead
    <2>4. CASE ReadFailed(s)
        BY <1>1, <2>1, <2>4, AtFacts DEF ReadFailed, Finish, Decides, DecidesAfterFailure
    <2>5. CASE DiscoveryRaised(s)
        BY <1>1, <2>1, <2>5, AtFacts DEF DiscoveryRaised, Finish
    <2> QED BY <1>4, <2>2, <2>3, <2>4, <2>5 DEF Reading
<1>5. ASSUME NEW s \in Task, Return(s) PROVE FALSE
    BY <1>1, <1>5 DEF Return, Idle, Gives, KeysTypeOK
<1>6. ASSUME (\E k \in Kid : Rotate(k)) \/ Move \/ Elapse \/ UNCHANGED keysVars PROVE FALSE
    BY <1>6 DEF Rotate, Move, Elapse, keysVars, Gives
<1> QED BY <1>2, <1>3, <1>4, <1>5, <1>6 DEF KeysNext

LEMMA OldKeysStep ==
    ASSUME KeysInv, [KeysNext]_keysVars, NEW t \in Task, Gives(t, "found"), loadAge' = MaxAge
    PROVE  readAge' < Refresh
PROOF
<1>1. PICK h \in Header : Decides(t, h, "found")
    BY GivesDecides
<1>2. /\ readAge \in 0..Refresh /\ Refresh \in Nat /\ ReadTime \in Nat /\ ReadTime < Refresh
      /\ ReadsInTime
    BY KeysAssumption DEF KeysInv, KeysTypeOK
<1>3. CASE DecidesAtOnce(h, "found")
    <2>1. keys # Absent /\ ~Stale /\ loadAge' = loadAge
        BY <1>3, SelectType DEF DecidesAtOnce, Settled, cacheVars
    <2> QED BY <2>1 DEF Stale
<1>4. CASE DecidesUnderLock(h, "found")
    BY <1>2, <1>4 DEF DecidesUnderLock, MayRead, cacheVars
<1>5. CASE DecidesAfterRead(t, h, "found") \/ DecidesAfterFailure(t, h, "found")
    <2>1. Reads(t) /\ readAge' = readAge
        BY <1>5 DEF DecidesAfterRead, DecidesAfterFailure, JwksRead, ReadFailed, Reads, cacheVars
    <2> QED BY <1>2, <2>1 DEF ReadsInTime
<1> QED BY <1>1, <1>3, <1>4, <1>5 DEF Decides

\* A key older than max_age is used only within Refresh of a try to renew it.
THEOREM OldKeysWereTried == KeysSpec => OldKeysOnlyAfterATry
PROOF
<1>1. KeysInv /\ [KeysNext]_keysVars
        => [\A t \in Task : Gives(t, "found") /\ loadAge' = MaxAge => readAge' < Refresh]_keysVars
    BY OldKeysStep
<1> QED BY <1>1, KeysInvariant, PTL DEF KeysSpec, OldKeysOnlyAfterATry

----------------------------------------------------------------------------
(* The keys in memory and the keys of the provider                         *)

\* Where the two differ on a key, the key changed after the load.
Differing == (keys \cup published) \ (keys \cap published)

DifferLate == keys # Absent => \A k \in Kid : k \in Differing => since[k] <= loadAge

LEMMA DifferLateElapse ==
    ASSUME KeysInv, DifferLate, Elapse
    PROVE  DifferLate'
PROOF
<1>1. /\ loadAge \in 0..MaxAge /\ since \in [Kid -> 0..MaxAge] /\ MaxAge \in Nat
      /\ UNCHANGED <<keys, published>>
    BY KeysAssumption DEF KeysInv, KeysTypeOK, Elapse
<1> SUFFICES ASSUME keys # Absent, NEW k \in Kid, since[k] <= loadAge
             PROVE  since'[k] <= loadAge'
    BY <1>1 DEF DifferLate, Differing
<1>2. loadAge' = UpTo(MaxAge, loadAge) /\ since'[k] = UpTo(MaxAge, since[k])
    BY DEF Elapse
<1> QED BY <1>1, <1>2 DEF UpTo

\* Whatever the provider does: a read that fails leaves the difference, one
\* that succeeds ends it, and a key that changes is new in it.
LEMMA DifferLateNext ==
    ASSUME KeysInv, DifferLate, [KeysNext]_keysVars
    PROVE  DifferLate'
PROOF
<1>1. ASSUME UNCHANGED <<keys, loadAge, providerVars>> PROVE DifferLate'
    BY <1>1 DEF DifferLate, Differing, providerVars
<1>2. ASSUME NEW t \in Task, NEW h \in Header, Locked(t, h)
      PROVE  UNCHANGED <<keys, loadAge>>
    BY <1>2 DEF Locked, cacheVars
<1>3. ASSUME NEW t \in Task, NEW h \in Header, Call(t, h) PROVE DifferLate'
    BY <1>1, <1>2, <1>3 DEF Call, cacheVars
<1>4. ASSUME NEW t \in Task, Resume(t) PROVE DifferLate'
    <2>1. PICK h \in Header : h = check[t].header
        BY DEF KeysInv, KeysTypeOK
    <2> QED BY <1>1, <1>2, <1>4, <2>1 DEF Resume
<1>5. ASSUME NEW t \in Task, JwksRead(t) PROVE DifferLate'
    BY <1>5 DEF JwksRead, Finish, DifferLate, Differing, providerVars
<1>6. ASSUME NEW t \in Task, DiscoveryRead(t) \/ ReadFailed(t) \/ DiscoveryRaised(t) \/ Return(t)
      PROVE  DifferLate'
    BY <1>1, <1>6 DEF DiscoveryRead, ReadFailed, DiscoveryRaised, Return, Finish, cacheVars
<1>7. ASSUME NEW k \in Kid, Rotate(k) PROVE DifferLate'
    <2>1. /\ loadAge \in Nat /\ since \in [Kid -> 0..MaxAge] /\ since' = [since EXCEPT ![k] = 0]
          /\ UNCHANGED <<keys, loadAge>>
          /\ \A j \in Kid \ {k} : j \in published' <=> j \in published
        BY <1>7 DEF Rotate, cacheVars, KeysInv, KeysTypeOK
    <2> QED BY <2>1 DEF DifferLate, Differing
<1>8. ASSUME Move PROVE DifferLate'
    BY <1>8 DEF Move, cacheVars, DifferLate, Differing
<1>9. ASSUME UNCHANGED keysVars PROVE DifferLate'
    BY <1>1, <1>9 DEF keysVars, cacheVars
<1> QED BY <1>3, <1>4, <1>5, <1>6, <1>7, <1>8, <1>9, DifferLateElapse DEF KeysNext, Reading

LEMMA DifferLateAlways == KeysSpec => [](KeysInv /\ DifferLate)
PROOF
<1>1. KeysInit => KeysInv /\ DifferLate
    BY KeysInitInv DEF KeysInit, DifferLate
<1> QED BY <1>1, KeysStepInv, DifferLateNext, PTL DEF KeysSpec

\* A call that ends without reading the JWKS ends on the keys that are there:
\* fresh ones, or ones that the last Refresh tried to read.
LEMMA EndsOnKeys ==
    ASSUME KeysInv, NEW t \in Task, NEW h \in Header, NEW result \in {"found", "unknown"},
           Decides(t, h, result)
    PROVE  \/ JwksRead(t) /\ published # Absent /\ Select(h, published) = result
           \/ /\ keys # Absent /\ Select(h, keys) = result /\ loadAge' = loadAge
              /\ \/ result = "found" /\ loadAge' < MaxAge
                 \/ readAge' < Refresh /\ (ReadFailed(t) \/ (holder = NoTask /\ readAge' = readAge))
PROOF
<1>1. /\ readAge \in 0..Refresh /\ Refresh \in Nat /\ ReadTime \in Nat /\ ReadTime < Refresh
      /\ loadAge \in 0..MaxAge /\ MaxAge \in Nat /\ ReadsInTime
    BY KeysAssumption DEF KeysInv, KeysTypeOK
<1>2. ASSUME NEW ks, Verdict(h, ks) = result PROVE ks # Absent /\ Select(h, ks) = result
    BY <1>2 DEF Verdict
<1>3. CASE DecidesAtOnce(h, result)
    <2>1. /\ Select(h, keys) = result /\ result = "found" /\ ~Stale /\ loadAge' = loadAge
        BY <1>3 DEF DecidesAtOnce, Settled, cacheVars
    <2>2. keys # Absent
        BY <2>1, SelectType
    <2> QED BY <1>1, <2>1, <2>2 DEF Stale
<1>4. CASE DecidesUnderLock(h, result)
    BY <1>1, <1>2, <1>4 DEF DecidesUnderLock, MayRead, cacheVars
<1>5. CASE DecidesAfterRead(t, h, result)
    BY <1>2, <1>5 DEF DecidesAfterRead
<1>6. CASE DecidesAfterFailure(t, h, result)
    <2>1. /\ ReadFailed(t) /\ Reads(t) /\ readAge' = readAge /\ loadAge' = loadAge
          /\ Verdict(h, keys) = result
        BY <1>6 DEF DecidesAfterFailure, ReadFailed, cacheVars
    <2> QED BY <1>1, <1>2, <2>1 DEF ReadsInTime
<1> QED BY <1>3, <1>4, <1>5, <1>6 DEF Decides

LEMMA RemovedKeyNeedsFailedReadStep ==
    ASSUME KeysInv, DifferLate, [KeysNext]_keysVars, NEW t \in Task, Gives(t, "found")
    PROVE  LET k == check'[t].header.kid
           IN  \/ k = NoKid \/ k \in published \/ since[k] < MaxAge
               \/ loadAge' = MaxAge /\ readAge' < Refresh
PROOF
<1>1. PICK h \in Header : check'[t].header = h /\ Decides(t, h, "found")
    BY GivesDecides
<1> SUFFICES ASSUME h.kid # NoKid, h.kid \notin published, ~(since[h.kid] < MaxAge)
             PROVE  loadAge' = MaxAge /\ readAge' < Refresh
    BY <1>1
<1>2. /\ h.kid \in Kid /\ since[h.kid] \in 0..MaxAge /\ loadAge \in 0..MaxAge /\ MaxAge \in Nat
    BY KeysAssumption DEF Header, KeysInv, KeysTypeOK
<1>3. ASSUME NEW ks, Select(h, ks) = "found" PROVE h.kid \in ks
    BY <1>3 DEF Select, Matches
<1>4. /\ keys # Absent /\ h.kid \in keys /\ loadAge' = loadAge
      /\ loadAge' < MaxAge \/ readAge' < Refresh
    BY <1>1, <1>3, EndsOnKeys
<1>5. since[h.kid] <= loadAge
    BY <1>2, <1>4 DEF DifferLate, Differing
<1> QED BY <1>2, <1>4, <1>5

\* For any faults of the provider: a key that it removed MaxAge ago is used only
\* with keys of that age, within Refresh of a try to replace them.
THEOREM RemovedKeysNeedFailedReads == KeysSpec => RemovedKeyNeedsFailedRead
PROOF
<1>1. KeysInv /\ DifferLate /\ [KeysNext]_keysVars
        => [\A t \in Task : Gives(t, "found") =>
              LET k == check'[t].header.kid
              IN  \/ k = NoKid \/ k \in published \/ since[k] < MaxAge
                  \/ loadAge' = MaxAge /\ readAge' < Refresh]_keysVars
    BY RemovedKeyNeedsFailedReadStep
<1> QED BY <1>1, DifferLateAlways, PTL DEF KeysSpec, RemovedKeyNeedsFailedRead

LEMMA UnknownKeyNeedsFailedReadStep ==
    ASSUME KeysInv, DifferLate, [KeysNext]_keysVars, NEW t \in Task, Gives(t, "unknown")
    PROVE  LET k == check'[t].header.kid
           IN  \/ k \notin published \/ since[k] < Refresh
               \/ readAge' < Refresh /\ since[k] <= loadAge'
PROOF
<1>1. PICK h \in Header : check'[t].header = h /\ Decides(t, h, "unknown")
    BY GivesDecides
<1> SUFFICES ASSUME h.kid \in published PROVE readAge' < Refresh /\ since[h.kid] <= loadAge'
    BY <1>1
<1>2. h.kid \in Kid /\ h.kid # NoKid
    BY KeysAssumption DEF KeysInv, KeysTypeOK
<1>3. ASSUME NEW ks, ks # Absent, Select(h, ks) = "unknown" PROVE h.kid \notin ks
    BY <1>2, <1>3 DEF Select, Matches
<1>4. keys # Absent /\ h.kid \notin keys /\ loadAge' = loadAge /\ readAge' < Refresh
    BY <1>1, <1>3, EndsOnKeys
<1> QED BY <1>2, <1>4 DEF DifferLate, Differing

\* For any faults of the provider: a key that it published Refresh ago is
\* unknown only while the last try to read came after the keys in memory.
THEOREM UnknownKeysNeedFailedReads == KeysSpec => UnknownKeyNeedsFailedRead
PROOF
<1>1. KeysInv /\ DifferLate /\ [KeysNext]_keysVars
        => [\A t \in Task : Gives(t, "unknown") =>
              LET k == check'[t].header.kid
              IN  \/ k \notin published \/ since[k] < Refresh
                  \/ readAge' < Refresh /\ since[k] <= loadAge']_keysVars
    BY UnknownKeyNeedsFailedReadStep
<1> QED BY <1>1, DifferLateAlways, PTL DEF KeysSpec, UnknownKeyNeedsFailedRead

----------------------------------------------------------------------------
(* The keys while the provider answers at the URL that is kept             *)

\* Who reads the JWKS knows where it is, who reads the document does not.
UriKnown ==
    \A t \in Task : /\ check[t].at = "jwks" => uri # Absent
                    /\ check[t].at = "discovery" => uri = Absent

LEMMA UriKnownInit == KeysInit => UriKnown
BY DEF KeysInit, UriKnown, Idle

\* A call that moves to another stage leaves the others alone, and changes the
\* URL only when nobody else reads.
LEMMA AtKeepsUriKnown ==
    ASSUME KeysTypeOK, UriKnown, NEW s \in Task, NEW stage, NEW h, At(s, stage, h),
           stage = "jwks" => uri' # Absent, stage = "discovery" => uri' = Absent,
           uri' = uri \/ \A t \in Task \ {s} : ~Reads(t)
    PROVE  UriKnown'
BY DEF KeysTypeOK, UriKnown, At, Reads

LEMMA LockedUriKnown ==
    ASSUME KeysTypeOK, UriKnown, NEW s \in Task, NEW h \in Header, Locked(s, h)
    PROVE  UriKnown'
PROOF
<1>1. {Select(h, keys), Verdict(h, keys)} \cap Reader = {} /\ uri' = uri
    BY SelectType, VerdictType DEF Result, Reader, Locked, cacheVars
<1>2. PICK stage : /\ At(s, stage, h)
                   /\ stage \notin Reader \/ stage = IF uri = Absent THEN "discovery" ELSE "jwks"
    BY <1>1 DEF Locked
<1> QED BY <1>1, <1>2, AtKeepsUriKnown DEF Reader

LEMMA UriKnownNext ==
    ASSUME KeysInv, UriKnown, [KeysNext]_keysVars
    PROVE  UriKnown'
PROOF
<1>1. KeysTypeOK /\ LockServesReaders /\ Absent \notin Places
    BY KeysAssumption DEF KeysInv
<1>2. ASSUME NEW t \in Task, NEW h \in Header, Call(t, h) PROVE UriKnown'
    <2>1. Select(h, keys) \notin Reader
        BY SelectType DEF Reader
    <2>2. CASE Locked(t, h)
        BY <1>1, <2>2, LockedUriKnown
    <2>3. CASE (At(t, Select(h, keys), h) \/ At(t, "lock", h)) /\ UNCHANGED cacheVars
        BY <1>1, <2>1, <2>3, AtKeepsUriKnown DEF cacheVars, Reader
    <2> QED BY <1>2, <2>2, <2>3 DEF Call
<1>3. ASSUME NEW t \in Task, Resume(t) PROVE UriKnown'
    <2>1. PICK h \in Header : h = check[t].header
        BY <1>1 DEF KeysTypeOK
    <2> QED BY <1>1, <1>3, <2>1, LockedUriKnown DEF Resume
<1>4. ASSUME NEW t \in Task, Reading(t) PROVE UriKnown'
    <2>1. PICK h \in Header : h = check[t].header
        BY <1>1 DEF KeysTypeOK
    <2>2. \A ks : Verdict(h, ks) \notin Reader
        BY VerdictType DEF Result, Reader
    <2>3. CASE DiscoveryRead(t)
        <3>1. /\ At(t, "jwks", check[t].header) /\ uri' # Absent
              /\ \A s \in Task \ {t} : ~Reads(s)
            BY <1>1, <2>3 DEF DiscoveryRead, KeysTypeOK, LockServesReaders, Reads
        <3> QED BY <1>1, <3>1, AtKeepsUriKnown
    <2>4. CASE JwksRead(t)
        BY <1>1, <2>1, <2>2, <2>4, AtKeepsUriKnown DEF JwksRead, Finish, Reader
    <2>5. CASE ReadFailed(t)
        BY <1>1, <2>1, <2>2, <2>5, AtKeepsUriKnown DEF ReadFailed, Finish, cacheVars, Reader
    <2>6. CASE DiscoveryRaised(t)
        BY <1>1, <2>6, AtKeepsUriKnown DEF DiscoveryRaised, Finish, cacheVars
    <2> QED BY <1>4, <2>3, <2>4, <2>5, <2>6 DEF Reading
<1>5. ASSUME NEW t \in Task, Return(t) PROVE UriKnown'
    BY <1>1, <1>5 DEF Return, Idle, UriKnown, KeysTypeOK, cacheVars
<1>6. ASSUME (\E k \in Kid : Rotate(k)) \/ Move \/ Elapse \/ UNCHANGED keysVars PROVE UriKnown'
    BY <1>6 DEF Rotate, Move, Elapse, keysVars, cacheVars, UriKnown
<1> QED BY <1>2, <1>3, <1>4, <1>5, <1>6 DEF KeysNext

\* The URL is the right one, there are no keys without it, and the last try to
\* read brought the keys in memory, unless it still runs.
Answered ==
    /\ uri \in {Absent, place}
    /\ uri = Absent => keys = Absent
    /\ keys # Absent /\ holder = NoTask /\ readAge < Refresh => loadAge = readAge

LEMMA AnsweredInit == KeysInit => Answered
BY DEF KeysInit, Answered

\* Then no read fails, but for a document that raises.
LEMMA NoReadFails ==
    ASSUME "outage" \notin Faults, UriKnown, Answered, NEW t \in Task, ReadFailed(t)
    PROVE  FALSE
BY DEF ReadFailed, UriKnown, Answered

LEMMA LockedAnswered ==
    ASSUME KeysInv, Answered, holder = NoTask, NEW t \in Task, NEW h \in Header, Locked(t, h),
           UNCHANGED providerVars
    PROVE  Answered'
PROOF
<1>1. PICK stage \in Result \cup Reader :
              /\ holder' = IF stage \in Reader THEN t ELSE NoTask
              /\ stage \notin Reader => readAge' = readAge
              /\ UNCHANGED <<keys, uri, loadAge>>
    BY LockedFacts DEF KeysInv
<1> QED BY <1>1, KeysAssumption DEF Answered, providerVars

LEMMA ElapseAnswered ==
    ASSUME KeysInv, Answered, Elapse
    PROVE  Answered'
PROOF
<1>1. /\ readAge \in 0..Refresh /\ loadAge \in 0..MaxAge
      /\ Refresh \in Nat /\ MaxAge \in Nat /\ Refresh <= MaxAge
    BY KeysAssumption DEF KeysInv, KeysTypeOK
<1>2. UNCHANGED <<keys, uri, holder, place>> /\ readAge' = UpTo(Refresh, readAge)
    BY DEF Elapse
<1> SUFFICES ASSUME keys # Absent, holder = NoTask, readAge' < Refresh PROVE loadAge' = readAge'
    BY <1>2 DEF Answered
<1>3. readAge < Refresh /\ readAge' = readAge + 1
    BY <1>1, <1>2 DEF UpTo
<1>4. loadAge = readAge /\ loadAge' = UpTo(MaxAge, loadAge)
    BY <1>3 DEF Answered, Elapse
<1> QED BY <1>1, <1>3, <1>4 DEF UpTo

LEMMA AnsweredNext ==
    ASSUME "outage" \notin Faults, "move" \notin Faults,
           KeysInv, UriKnown, Answered, [KeysNext]_keysVars
    PROVE  Answered'
PROOF
<1>1. ASSUME NEW t \in Task, NEW h \in Header, Call(t, h) PROVE Answered'
    <2>1. CASE holder = NoTask /\ Locked(t, h)
        BY <1>1, <2>1, LockedAnswered DEF Call
    <2>2. CASE UNCHANGED <<cacheVars, holder>>
        BY <1>1, <2>2 DEF Call, Answered, cacheVars, providerVars
    <2> QED BY <1>1, <2>1, <2>2 DEF Call
<1>2. ASSUME NEW t \in Task, Resume(t) PROVE Answered'
    <2>1. PICK h \in Header : h = check[t].header
        BY DEF KeysInv, KeysTypeOK
    <2> QED BY <1>2, <2>1, LockedAnswered DEF Resume
<1>3. ASSUME NEW t \in Task, DiscoveryRead(t) PROVE Answered'
    <2>1. keys = Absent
        BY <1>3 DEF DiscoveryRead, UriKnown, Answered
    <2> QED BY <1>3, <2>1 DEF DiscoveryRead, Answered, providerVars
<1>4. ASSUME NEW t \in Task, JwksRead(t) PROVE Answered'
    BY <1>4 DEF JwksRead, Finish, Answered, UriKnown, providerVars
<1>5. ASSUME NEW t \in Task, DiscoveryRaised(t) PROVE Answered'
    <2>1. keys = Absent
        BY <1>5 DEF DiscoveryRaised, UriKnown, Answered
    <2> QED BY <1>5, <2>1 DEF DiscoveryRaised, Finish, Answered, cacheVars, providerVars
<1>6. ASSUME \/ \E t \in Task : Return(t)
             \/ \E k \in Kid : Rotate(k)
             \/ UNCHANGED keysVars
      PROVE  Answered'
    BY <1>6 DEF Return, Rotate, keysVars, Answered, cacheVars, providerVars
<1>7. ~Move
    BY DEF Move
<1> QED BY <1>1, <1>2, <1>3, <1>4, <1>5, <1>6, <1>7, NoReadFails, ElapseAnswered
        DEF KeysNext, Reading

\* Where the keys in memory were used and differ from the published ones, the
\* difference is younger than the bound that the use respects.
LEMMA RemovedKeyStep ==
    ASSUME "outage" \notin Faults, KeysInv, DifferLate, UriKnown, Answered,
           [KeysNext]_keysVars, NEW t \in Task, Gives(t, "found")
    PROVE  LET k == check'[t].header.kid
           IN  k = NoKid \/ k \in published \/ since[k] < MaxAge
PROOF
<1>1. PICK h \in Header : check'[t].header = h /\ Decides(t, h, "found")
    BY GivesDecides
<1> SUFFICES ASSUME h.kid # NoKid, h.kid \notin published PROVE since[h.kid] < MaxAge
    BY <1>1
<1>2. /\ h.kid \in Kid /\ since[h.kid] \in Nat /\ readAge \in Nat /\ loadAge \in 0..MaxAge
      /\ MaxAge \in Nat /\ Refresh \in Nat /\ Refresh <= MaxAge
    BY KeysAssumption DEF Header, KeysInv, KeysTypeOK
<1>3. ASSUME NEW ks, Select(h, ks) = "found" PROVE h.kid \in ks
    BY <1>3 DEF Select, Matches
<1>4. /\ keys # Absent /\ h.kid \in keys /\ loadAge' = loadAge
      /\ \/ loadAge' < MaxAge
         \/ readAge' < Refresh /\ holder = NoTask /\ readAge' = readAge
    BY <1>1, <1>3, EndsOnKeys, NoReadFails
<1>5. since[h.kid] <= loadAge
    BY <1>2, <1>4 DEF DifferLate, Differing
<1> QED BY <1>2, <1>4, <1>5 DEF Answered

LEMMA NewKeyStep ==
    ASSUME "outage" \notin Faults, KeysInv, DifferLate, UriKnown, Answered,
           [KeysNext]_keysVars, NEW t \in Task, Gives(t, "unknown")
    PROVE  LET k == check'[t].header.kid
           IN  k \notin published \/ since[k] < Refresh
PROOF
<1>1. PICK h \in Header : check'[t].header = h /\ Decides(t, h, "unknown")
    BY GivesDecides
<1> SUFFICES ASSUME h.kid \in published PROVE since[h.kid] < Refresh
    BY <1>1
<1>2. /\ h.kid \in Kid /\ h.kid # NoKid /\ since[h.kid] \in Nat /\ readAge \in Nat
      /\ Refresh \in Nat
    BY KeysAssumption DEF KeysInv, KeysTypeOK
<1>3. ASSUME NEW ks, ks # Absent, Select(h, ks) = "unknown" PROVE h.kid \notin ks
    BY <1>2, <1>3 DEF Select, Matches
<1>4. /\ keys # Absent /\ h.kid \notin keys
      /\ readAge < Refresh /\ holder = NoTask
    BY <1>1, <1>3, EndsOnKeys, NoReadFails
<1> QED BY <1>2, <1>4 DEF DifferLate, Differing, Answered

\* What the keys in memory know of the published ones at such a provider.
LEMMA AnsweredAlways ==
    ASSUME "outage" \notin Faults, "move" \notin Faults
    PROVE  KeysSpec => [](KeysInv /\ DifferLate /\ UriKnown /\ Answered)
PROOF
<1>1. KeysInit => KeysInv /\ UriKnown /\ Answered
    BY KeysInitInv, UriKnownInit, AnsweredInit
<1>2. KeysInv /\ UriKnown /\ Answered /\ [KeysNext]_keysVars => (KeysInv /\ UriKnown /\ Answered)'
    BY KeysStepInv, UriKnownNext, AnsweredNext
<1> QED BY <1>1, <1>2, DifferLateAlways, PTL DEF KeysSpec

\* KEY_MAX_AGE_SECONDS keeps its promise while the provider answers and its
\* JWKS stays in place, also when a malformed document makes a check raise.
THEOREM RemovedKeysStop ==
    ASSUME "outage" \notin Faults, "move" \notin Faults
    PROVE  KeysSpec => RemovedKeyStops
PROOF
<1>1. KeysInv /\ DifferLate /\ UriKnown /\ Answered /\ [KeysNext]_keysVars
        => [\A t \in Task : Gives(t, "found") =>
              LET k == check'[t].header.kid
              IN  k = NoKid \/ k \in published \/ since[k] < MaxAge]_keysVars
    BY RemovedKeyStep
<1> QED BY <1>1, AnsweredAlways, PTL DEF KeysSpec, RemovedKeyStops

\* At such a provider, a published key is unknown for less than Refresh.
THEOREM NewKeysAreLearned ==
    ASSUME "outage" \notin Faults, "move" \notin Faults
    PROVE  KeysSpec => NewKeyIsLearned
PROOF
<1>1. KeysInv /\ DifferLate /\ UriKnown /\ Answered /\ [KeysNext]_keysVars
        => [\A t \in Task : Gives(t, "unknown") =>
              LET k == check'[t].header.kid
              IN  k \notin published \/ since[k] < Refresh]_keysVars
    BY NewKeyStep
<1> QED BY <1>1, AnsweredAlways, PTL DEF KeysSpec, NewKeyIsLearned
====
