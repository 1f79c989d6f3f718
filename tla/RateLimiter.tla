---- MODULE RateLimiter ----
(***************************************************************************)
(* gate.RateLimiter: the exponential backoff that the gate, the login form *)
(* and the OIDC routes share.  The class keeps two dicts, the failures of  *)
(* a client key and the instant until which the key is blocked.            *)
(*                                                                         *)
(* Time is relative: instead of the instant _blocked_until[k] the model    *)
(* keeps wait[k], the value that seconds_until_retry(k) returns, in whole  *)
(* units, and Elapse takes one unit off.  An absent dict entry is 0.       *)
(***************************************************************************)
EXTENDS Naturals

CONSTANTS
    Key,             \* client keys, the answers of client_key()
    BaseDelay,       \* base_delay, in units of time
    MaxDelay,        \* max_delay, in the same unit
    FloatExponents   \* 2^n is a float for n < FloatExponents: 1024 in CPython

ASSUME LimiterAssumption ==
    /\ BaseDelay \in Nat \ {0}
    /\ MaxDelay \in Nat
    /\ BaseDelay <= MaxDelay
    /\ FloatExponents \in Nat \ {0}

\* The arithmetic of ^ that the provers do not know, for the exponents in use.
ASSUME PowersOfTwo ==
    \A n \in 0..FloatExponents : 2^n \in Nat /\ 2^n > 0 /\ 2^(n + 1) = 2 * 2^n

VARIABLES
    failures,   \* failures[k]: RateLimiter._failures, absent = 0
    wait        \* wait[k]: seconds_until_retry(k)

limiterVars == <<failures, wait>>

----------------------------------------------------------------------------
\* Counts above FloatExponents behave alike, so the model stops counting there.
CountCap == FloatExponents + 1

\* Mutant: the exponent is the new count, and the cap is forgotten.
DelayUncapped(n) == BaseDelay * 2^n

\* min(max_delay, base_delay * 2 ** (n - 1)), for a count n > 0.
Delay(n) ==
    IF BaseDelay * 2^(n - 1) < MaxDelay THEN BaseDelay * 2^(n - 1) ELSE MaxDelay

\* The next failure of k makes the int 2 ** (failures - 1) too large for the
\* product with the float base_delay: record_failure raises OverflowError,
\* with the count stored and the block not.
Overflows(k) == failures[k] >= FloatExponents

\* A caller is in its wait: seconds_until_retry(k) > 0.
Blocked(k) == wait[k] > 0

LimiterInit ==
    /\ failures = [k \in Key |-> 0]
    /\ wait = [k \in Key |-> 0]

Counted(k) == IF failures[k] < CountCap THEN failures[k] + 1 ELSE CountCap

\* Mutant: the overflow is caught, and no delay comes of it.
RecordFailureEndsWait(k) ==
    /\ failures' = [failures EXCEPT ![k] = Counted(k)]
    /\ wait' = [wait EXCEPT ![k] = IF Overflows(k) THEN 0 ELSE Delay(failures[k] + 1)]

RecordFailure(k) ==
    /\ failures' = [failures EXCEPT ![k] = Counted(k)]
    /\ wait' = IF Overflows(k) THEN wait
                               ELSE [wait EXCEPT ![k] = Delay(failures[k] + 1)]

\* Mutant: a success forgets the failures and leaves the block.
RecordSuccessKeepsBlock(k) ==
    /\ failures' = [failures EXCEPT ![k] = 0]
    /\ UNCHANGED wait

RecordSuccess(k) ==
    /\ failures' = [failures EXCEPT ![k] = 0]
    /\ wait' = [wait EXCEPT ![k] = 0]

\* One unit of time.monotonic() passes.
Elapse ==
    /\ \E k \in Key : wait[k] > 0
    /\ wait' = [k \in Key |-> IF wait[k] > 0 THEN wait[k] - 1 ELSE 0]
    /\ UNCHANGED failures

\* A restart of ComfyUI builds a new RateLimiter.
LimiterRestart ==
    /\ failures' = [k \in Key |-> 0]
    /\ wait' = [k \in Key |-> 0]

----------------------------------------------------------------------------
LimiterNext ==
    \/ \E k \in Key : RecordFailure(k) \/ RecordSuccess(k)
    \/ Elapse
    \/ LimiterRestart

LimiterSpec == LimiterInit /\ [][LimiterNext]_limiterVars

----------------------------------------------------------------------------
(* Properties *)

\* The dicts hold counts and waits, and no wait is longer than max_delay.
LimiterTypeOK ==
    /\ failures \in [Key -> 0..CountCap]
    /\ wait \in [Key -> 0..MaxDelay]

\* A wait never outlasts the delay of the failures that caused it, so a key
\* that starts over after a success never carries an old wait along
\* (record_success drops both entries, record_failure keeps them in step).
WaitWithinDelay ==
    \A k \in Key :
        IF failures[k] = 0 THEN wait[k] = 0 ELSE wait[k] <= Delay(failures[k])

\* A caller cannot shorten its wait with one more wrong credential, whatever
\* the moment in the wait at which it is counted: refused access tokens and
\* late login forms are counted inside a wait.
FailureNeverShortensWait ==
    [][\A k \in Key : failures'[k] > failures[k] => wait'[k] >= wait[k]]_limiterVars

\* README "After a wrong credential, the gate makes that caller wait before
\* its next try": each counted failure leaves its caller in a wait.  The code
\* breaks it at the 1025th failure in a row, where record_failure raises.
FailureStartsWait ==
    [][\A k \in Key : failures'[k] > failures[k] => wait'[k] > 0]_limiterVars
====
