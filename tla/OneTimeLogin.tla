---- MODULE OneTimeLogin ----
(***************************************************************************)
(* What the OIDC routes promise of a login (FR-010, FR-011): it is begun   *)
(* once, waits for its callback with at most MaxSize others, is taken by   *)
(* one callback, and ends in one session of an allowed person or in none.  *)
(* Nothing opens it again, neither a replay nor a restart.                 *)
(***************************************************************************)
EXTENDS Naturals, FiniteSets

CONSTANTS Login, SessionToken, Allowed, MaxSize

VARIABLES
    phase,  \* phase[s]: "unused", "open", "taken", "granted" or "closed"
    given,  \* given[t]: the login and the person of each session ever given
    live    \* the sessions that are valid

onceVars == <<phase, given, live>>

Open == {s \in Login : phase[s] = "open"}

\* One more login waits for its callback; a full store gives up one that waits.
Begin(s) ==
    /\ phase[s] = "unused"
    /\ \/ /\ Cardinality(Open) < MaxSize
          /\ phase' = [phase EXCEPT ![s] = "open"]
       \/ /\ Cardinality(Open) = MaxSize
          /\ \E e \in Open : phase' = [phase EXCEPT ![s] = "open", ![e] = "closed"]
    /\ UNCHANGED <<given, live>>

Take(s) ==
    /\ phase[s] = "open"
    /\ phase' = [phase EXCEPT ![s] = "taken"]
    /\ UNCHANGED <<given, live>>

\* A callback with an error of the provider, or one that is refused later.
Close(s) ==
    /\ phase[s] \in {"open", "taken"}
    /\ phase' = [phase EXCEPT ![s] = "closed"]
    /\ UNCHANGED <<given, live>>

SignIn(s) ==
    /\ phase[s] = "taken"
    /\ phase' = [phase EXCEPT ![s] = "granted"]
    /\ \E t \in SessionToken \ DOMAIN given, p \in Allowed :
          /\ given' = [u \in DOMAIN given \cup {t} |->
                IF u = t THEN [login |-> s, person |-> p] ELSE given[u]]
          /\ live' = live \cup {t}

\* A restart ends all sessions and all logins that are under way.
Stop ==
    /\ phase' = [s \in Login |->
          IF phase[s] \in {"open", "taken"} THEN "closed" ELSE phase[s]]
    /\ live' = {}
    /\ UNCHANGED given

OnceInit ==
    /\ phase = [s \in Login |-> "unused"]
    /\ DOMAIN given = {}
    /\ live = {}

OnceNext ==
    \/ \E s \in Login : Begin(s) \/ Take(s) \/ Close(s) \/ SignIn(s)
    \/ Stop

OnceSpec == OnceInit /\ [][OnceNext]_onceVars
====
