---- MODULE ReadThrottle ----
(***************************************************************************)
(* What IssuerKeys promises the identity provider (ADR-008): one read of   *)
(* the keys at a time, and two reads start Refresh or more apart, whether  *)
(* they succeed or fail, however many tokens ask for however many keys.    *)
(***************************************************************************)
EXTENDS Naturals

CONSTANT Refresh    \* refresh_seconds, in units of time

VARIABLES
    reading,    \* a read is on its way
    age         \* time since the last read started, up to Refresh

throttleVars == <<reading, age>>

StartRead ==
    /\ ~reading
    /\ age = Refresh
    /\ reading' = TRUE
    /\ age' = 0

EndRead ==
    /\ reading
    /\ reading' = FALSE
    /\ UNCHANGED age

Tick ==
    /\ age < Refresh
    /\ age' = age + 1
    /\ UNCHANGED reading

ThrottleInit == reading = FALSE /\ age = Refresh

ThrottleNext == StartRead \/ EndRead \/ Tick

ThrottleSpec == ThrottleInit /\ [][ThrottleNext]_throttleVars
====
