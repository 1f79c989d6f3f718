---- MODULE RateLimiterProofs ----
(***************************************************************************)
(* What RateLimiter guarantees for any set of callers and any delays.      *)
(***************************************************************************)
EXTENDS RateLimiter, TLAPS

\* The delays of consecutive counts: positive, at most max_delay, growing.
LEMMA DelayFacts ==
    ASSUME NEW n \in 1..CountCap
    PROVE  /\ Delay(n) \in 1..MaxDelay
           /\ n + 1 <= CountCap => Delay(n) <= Delay(n + 1)
PROOF
<1>1. n - 1 \in 0..FloatExponents /\ 2^(n - 1) \in Nat /\ 2^(n - 1) > 0
    BY LimiterAssumption, PowersOfTwo DEF CountCap
<1>2. BaseDelay * 2^(n - 1) \in Nat /\ BaseDelay * 2^(n - 1) > 0
    BY <1>1, LimiterAssumption
<1>3. Delay(n) \in 1..MaxDelay
    BY <1>2, LimiterAssumption DEF Delay
<1>4. ASSUME n + 1 <= CountCap PROVE Delay(n) <= Delay(n + 1)
    <2>1. 2^n = 2 * 2^(n - 1) /\ (n + 1) - 1 = n
        <3>1. 2^((n - 1) + 1) = 2 * 2^(n - 1)
            BY <1>1, PowersOfTwo
        <3>2. (n - 1) + 1 = n /\ (n + 1) - 1 = n
            OBVIOUS
        <3> QED BY <3>1, <3>2
    <2>2. BaseDelay * 2^n = 2 * (BaseDelay * 2^(n - 1))
        BY <1>1, <2>1, LimiterAssumption
    <2> QED BY <1>2, <2>1, <2>2, LimiterAssumption DEF Delay
<1> QED BY <1>3, <1>4

----------------------------------------------------------------------------
(* The invariant, one lemma for each operation, to be used by every module *)
(* whose actions are built from these operations.                          *)

LimiterInv == LimiterTypeOK /\ WaitWithinDelay

LEMMA InitInv == LimiterInit => LimiterInv
PROOF
BY LimiterAssumption DEF LimiterInit, LimiterInv, LimiterTypeOK, WaitWithinDelay, CountCap

LEMMA CountedFacts ==
    ASSUME LimiterTypeOK, NEW k \in Key
    PROVE  /\ Counted(k) \in 1..CountCap
           /\ Counted(k) >= failures[k]
           /\ ~Overflows(k) => Counted(k) = failures[k] + 1
BY LimiterAssumption DEF LimiterTypeOK, Counted, CountCap, Overflows

\* A failure counts, and leaves a wait that is no shorter than before.
LEMMA FailureFacts ==
    ASSUME LimiterInv, NEW k \in Key, RecordFailure(k)
    PROVE  LimiterInv' /\ \A j \in Key : wait'[j] >= wait[j]
PROOF
<1> DEFINE n == failures[k] + 1
<1>1. /\ failures \in [Key -> 0..CountCap] /\ wait \in [Key -> 0..MaxDelay]
      /\ CountCap \in Nat /\ MaxDelay \in Nat
    BY LimiterAssumption DEF LimiterInv, LimiterTypeOK, CountCap
<1>2. /\ Counted(k) \in 1..CountCap /\ Counted(k) >= failures[k]
      /\ ~Overflows(k) => Counted(k) = n
    BY CountedFacts DEF LimiterInv
<1>3. failures[k] > 0 => wait[k] <= Delay(failures[k])
    BY <1>1 DEF LimiterInv, WaitWithinDelay
<1>4. failures[k] = 0 => wait[k] = 0
    BY <1>1 DEF LimiterInv, WaitWithinDelay
<1>5. failures' = [failures EXCEPT ![k] = Counted(k)]
    BY DEF RecordFailure
<1>6. failures' \in [Key -> 0..CountCap]
    BY <1>1, <1>2, <1>5
<1>7. CASE Overflows(k)
    <2>1. wait' = wait
        BY <1>7 DEF RecordFailure
    <2>2. Counted(k) > 0 /\ wait[k] <= Delay(Counted(k))
        <3>1. failures[k] \in 1..CountCap
            BY <1>1, <1>7, LimiterAssumption DEF Overflows, CountCap
        <3>2. Counted(k) = failures[k] \/ (failures[k] + 1 <= CountCap /\ Counted(k) = failures[k] + 1)
            BY <3>1, LimiterAssumption DEF Counted, CountCap
        <3>3. Delay(failures[k]) \in 1..MaxDelay /\ Delay(Counted(k)) \in 1..MaxDelay
            BY <3>1, <1>2, DelayFacts
        <3>4. Delay(failures[k]) <= Delay(Counted(k))
            BY <3>1, <3>2, <3>3, DelayFacts
        <3> QED BY <1>1, <1>2, <1>3, <3>1, <3>3, <3>4
    <2>3. \A j \in Key : IF failures'[j] = 0 THEN wait'[j] = 0 ELSE wait'[j] <= Delay(failures'[j])
        BY <1>1, <1>5, <2>1, <2>2 DEF LimiterInv, WaitWithinDelay
    <2> QED BY <1>1, <1>6, <2>1, <2>3 DEF LimiterInv, LimiterTypeOK, WaitWithinDelay
<1>8. CASE ~Overflows(k)
    <2>1. wait' = [wait EXCEPT ![k] = Delay(n)] /\ Counted(k) = n
        BY <1>2, <1>8 DEF RecordFailure
    <2>2. Delay(n) \in 1..MaxDelay /\ Delay(n) >= wait[k]
        <3>1. Delay(n) \in 1..MaxDelay
            BY <1>2, <2>1, DelayFacts
        <3>2. ASSUME failures[k] > 0 PROVE Delay(n) >= wait[k]
            <4>1. failures[k] \in 1..CountCap /\ failures[k] + 1 <= CountCap
                BY <1>1, <1>2, <2>1, <3>2
            <4>2. Delay(failures[k]) \in 1..MaxDelay /\ Delay(failures[k]) <= Delay(n)
                BY <4>1, DelayFacts
            <4> QED BY <1>1, <1>3, <3>1, <3>2, <4>2
        <3>3. CASE failures[k] = 0
            BY <1>1, <1>4, <3>1, <3>3
        <3> QED BY <1>1, <3>1, <3>2, <3>3
    <2>3. wait' \in [Key -> 0..MaxDelay] /\ \A j \in Key : wait'[j] >= wait[j]
        BY <1>1, <2>1, <2>2
    <2>4. \A j \in Key : IF failures'[j] = 0 THEN wait'[j] = 0 ELSE wait'[j] <= Delay(failures'[j])
        BY <1>1, <1>2, <1>5, <2>1, <2>2 DEF LimiterInv, WaitWithinDelay
    <2> QED BY <1>6, <2>3, <2>4 DEF LimiterInv, LimiterTypeOK, WaitWithinDelay
<1> QED BY <1>7, <1>8

LEMMA SuccessFacts ==
    ASSUME LimiterInv, NEW k \in Key, RecordSuccess(k)
    PROVE  LimiterInv' /\ \A j \in Key : failures'[j] <= failures[j]
BY LimiterAssumption
   DEF LimiterInv, LimiterTypeOK, WaitWithinDelay, CountCap, RecordSuccess

LEMMA ElapseFacts ==
    ASSUME LimiterInv, Elapse
    PROVE  LimiterInv'
PROOF
<1>1. /\ failures \in [Key -> 0..CountCap] /\ wait \in [Key -> 0..MaxDelay]
      /\ CountCap \in Nat /\ MaxDelay \in Nat
    BY LimiterAssumption DEF LimiterInv, LimiterTypeOK, CountCap
<1>2. /\ failures' = failures
      /\ wait' = [k \in Key |-> IF wait[k] > 0 THEN wait[k] - 1 ELSE 0]
    BY DEF Elapse
<1>3. wait' \in [Key -> 0..MaxDelay] /\ \A k \in Key : wait'[k] <= wait[k]
    BY <1>1, <1>2
<1>4. ASSUME NEW k \in Key
      PROVE  IF failures'[k] = 0 THEN wait'[k] = 0 ELSE wait'[k] <= Delay(failures'[k])
    <2>1. CASE failures[k] = 0
        BY <1>1, <1>2, <2>1 DEF LimiterInv, WaitWithinDelay
    <2>2. CASE failures[k] # 0
        <3>1. Delay(failures[k]) \in 1..MaxDelay
            BY <1>1, <2>2, DelayFacts
        <3> QED BY <1>1, <1>2, <1>3, <2>2, <3>1 DEF LimiterInv, WaitWithinDelay
    <2> QED BY <2>1, <2>2
<1> QED BY <1>1, <1>2, <1>3, <1>4 DEF LimiterInv, LimiterTypeOK, WaitWithinDelay

LEMMA RestartFacts == LimiterRestart => LimiterInv' /\ \A k \in Key : failures'[k] = 0
BY LimiterAssumption DEF LimiterRestart, LimiterInv, LimiterTypeOK, WaitWithinDelay, CountCap

LEMMA StutterFacts == LimiterInv /\ UNCHANGED limiterVars => LimiterInv'
BY DEF LimiterInv, LimiterTypeOK, WaitWithinDelay, limiterVars, Delay

LEMMA StepInv == LimiterInv /\ [LimiterNext]_limiterVars => LimiterInv'
PROOF
<1> SUFFICES ASSUME LimiterInv, [LimiterNext]_limiterVars PROVE LimiterInv'
    OBVIOUS
<1>1. ASSUME NEW k \in Key, RecordFailure(k) PROVE LimiterInv'
    BY <1>1, FailureFacts
<1>2. ASSUME NEW k \in Key, RecordSuccess(k) PROVE LimiterInv'
    BY <1>2, SuccessFacts
<1>3. CASE Elapse
    BY <1>3, ElapseFacts
<1>4. CASE LimiterRestart
    BY <1>4, RestartFacts
<1>5. CASE UNCHANGED limiterVars
    BY <1>5, StutterFacts
<1> QED BY <1>1, <1>2, <1>3, <1>4, <1>5 DEF LimiterNext

----------------------------------------------------------------------------
\* The counts and the waits keep their ranges: no wait is longer than max_delay.
THEOREM LimiterTypeCorrect == LimiterSpec => []LimiterTypeOK
PROOF
<1>1. LimiterInv => LimiterTypeOK
    BY DEF LimiterInv
<1> QED BY InitInv, StepInv, <1>1, PTL DEF LimiterSpec

\* A wait never outlasts the delay of its failures (RateLimiter.record_failure
\* and record_success keep the two dicts in step).
THEOREM WaitIsBounded == LimiterSpec => []WaitWithinDelay
PROOF
<1>1. LimiterInv => WaitWithinDelay
    BY DEF LimiterInv
<1> QED BY InitInv, StepInv, <1>1, PTL DEF LimiterSpec

\* Another failure never shortens the wait of its caller, also where
\* record_failure raises: the delays grow with the count (DelayFacts) and the
\* wait so far is within the last delay (WaitWithinDelay).
THEOREM WaitsOnlyGrow == LimiterSpec => FailureNeverShortensWait
PROOF
<1> DEFINE Longer == \A k \in Key : failures'[k] > failures[k] => wait'[k] >= wait[k]
<1>1. LimiterInv /\ [LimiterNext]_limiterVars => [Longer]_limiterVars
    <2> SUFFICES ASSUME LimiterInv, LimiterNext PROVE Longer
        BY DEF limiterVars
    <2>0. failures \in [Key -> Nat] /\ wait \in [Key -> Nat]
        BY LimiterAssumption DEF LimiterInv, LimiterTypeOK, CountCap
    <2>1. ASSUME NEW k \in Key, RecordFailure(k) PROVE Longer
        BY <2>1, FailureFacts
    <2>2. ASSUME NEW k \in Key, RecordSuccess(k) PROVE Longer
        <3>1. \A j \in Key : failures'[j] <= failures[j] /\ failures'[j] \in Nat
            BY <2>0, <2>2 DEF RecordSuccess
        <3> QED BY <2>0, <3>1
    <2>3. CASE Elapse
        BY <2>0, <2>3 DEF Elapse
    <2>4. CASE LimiterRestart
        BY <2>0, <2>4, RestartFacts
    <2> QED BY <2>1, <2>2, <2>3, <2>4 DEF LimiterNext
<1> QED BY InitInv, StepInv, <1>1, PTL DEF LimiterSpec, FailureNeverShortensWait
====
