---- MODULE Admission ----
(***************************************************************************)
(* Whom a started process lets in with a token of the identity provider:   *)
(* an access token on the Bearer path (verify_access_token), or the ID     *)
(* token at the end of a login (verify_id_token and the allowlist).  The   *)
(* settings were read at the start, and the tokens come later: the two     *)
(* have to agree on what a name, an audience and an issuer are.            *)
(***************************************************************************)
EXTENDS Startup, TokenRules

CONSTANTS
    AccessTokens,  \* the tokens that come on the Bearer path
    IdTokens,      \* the tokens that the token endpoint gives
    KeySets,       \* what the JWKS of the issuer may hold
    ReadTime       \* the longest wait for the keys

ASSUME AdmissionAssumption ==
    /\ AccessTokens \subseteq Token
    /\ IdTokens \subseteq Token
    /\ KeySets \subseteq SUBSET Jwk
    /\ ReadTime \in Nat

VARIABLE
    check       \* the token that is looked at, and how far its check came

vars == <<at, env, pinned, console, credential, file, login, tokens, last, trouble, check>>

Idle == [step |-> "idle"]

Path == {"bearer", "login"}

\* Waits for the keys, or has its verdict.
Waiting == [step : {"keys"}, path : Path, token : Token]
Judged  == [step : {"judged"}, path : Path, token : Token, jwks : SUBSET Jwk,
            waited : Nat, accepted : BOOLEAN]

----------------------------------------------------------------------------

\* An access token needs no keys to fail its first checks; an ID token has the
\* check of its algorithm before them.
Present(path, t) ==
    /\ at = "gated"
    /\ check = Idle
    /\ \/ path = "bearer" /\ tokens # Unset /\ BeforeTheKeys(t, tokens)
       \/ path = "login" /\ login # Unset /\ AlgorithmIsAllowed(t)
    /\ check' = [step |-> "keys", path |-> path, token |-> t]
    /\ UNCHANGED startupVars

\* The keys arrive, after some time, and the rest is decided at once.
Judge(jwks, waited) ==
    /\ check.step = "keys"
    /\ check' =
        [step |-> "judged", path |-> check.path, token |-> check.token, jwks |-> jwks,
         waited |-> waited,
         accepted |-> IF check.path = "bearer"
                      THEN AcceptsAccess(check.token, tokens, jwks, waited)
                      ELSE AcceptsLogin(check.token, login, jwks, waited)]
    /\ UNCHANGED startupVars

\* The read of the keys failed, or the answer was sent: nobody was let in, or is.
CheckEnds ==
    /\ check # Idle
    /\ check' = Idle
    /\ UNCHANGED startupVars

\* A process that stops takes the check with it.
StopServing ==
    /\ Stop
    /\ check' = Idle

AdmissionInit == StartupInit /\ check = Idle

AdmissionNext ==
    \/ (Start \/ Starting) /\ UNCHANGED check
    \/ StopServing
    \/ \E t \in AccessTokens : Present("bearer", t)
    \/ \E t \in IdTokens : Present("login", t)
    \/ \E jwks \in KeySets, waited \in 0..ReadTime : Judge(jwks, waited)
    \/ CheckEnds

AdmissionSpec == AdmissionInit /\ [][AdmissionNext]_vars

----------------------------------------------------------------------------
(* Properties                                                              *)

AdmissionTypeOK ==
    /\ StartupTypeOK
    /\ check \in {Idle} \cup Waiting \cup Judged

Accepted(path) == check.step = "judged" /\ check.path = path /\ check.accepted

\* The operator named the person of token t: by sub, by an email that the provider
\* verified, by a domain, or by naming everybody.  Capitals matter in sub alone.
Named(e, t) ==
    \/ e.any \in {"true", "TRUE"}
    \/ t.sub \in e.subjects
    \/ /\ t.verified
       /\ t.email # Unset
       /\ \E m \in e.emails : m.name = t.email.name
    \/ e.domain # Unset /\ t.hd # Unset /\ e.domain.name = t.hd.name

\* A key of the issuer signed the token, with the key's own algorithm, and that is
\* no algorithm of a shared secret.
SignedByIssuer(t, jwks) ==
    \E k \in jwks : k.kid = t.signer /\ k.alg = t.alg /\ k.use = "sig" /\ k.alg \notin {"none", "HS256"}

\* README:80-128: a session of the login goes to a person that the operator named, who
\* signed in for this very login at the issuer of the settings, over a URL that the
\* network cannot change, and only when all of the connection settings are there.  The ID
\* token is for this client, alone or by azp, and ended no more than Leeway ago (ADR-007).
OnlyTheNamedGetIn ==
    Accepted("login") =>
        /\ env.client
        /\ env.issuer \in {"https", "loopback"}
        /\ check.token.iss = env.issuer
        /\ check.token.nonce
        /\ "us" \in check.token.aud
        /\ check.token.azp = "us" \/ (check.token.aud = {"us"} /\ check.token.azp = Unset)
        /\ check.waited <= check.token.exp + Leeway
        /\ SignedByIssuer(check.token, check.jwks)
        /\ Named(env, check.token)

\* README:110-113: a person that the operator named is not turned away, however the
\* operator or the provider writes capitals, when the ID token is for this client alone,
\* comes in time and is signed with the one key that it names.
NamedGetIn ==
    (/\ check.step = "judged"
     /\ check.path = "login"
     /\ Named(env, check.token)
     /\ SignedByIssuer(check.token, check.jwks)
     /\ check.token.kid = check.token.signer
     /\ \A j, k \in check.jwks : j.kid = k.kid => j = k
     /\ check.token.complete
     /\ check.token.iss = env.issuer
     /\ check.token.aud = {"us"}
     /\ check.token.azp \in {Unset, "us"}
     /\ check.token.nonce
     /\ check.token.iat <= 0
     /\ check.token.nbf <= 0
     /\ check.waited < check.token.exp) => check.accepted

\* README:183-189: an access token that passes was made by the issuer of the settings for
\* their audience with each required scope, and it passes in a window that starts Leeway
\* before it was issued and ends MaxLife after, at the moment the gate decides and not at
\* the moment the token came.
AccessIsForUs ==
    Accepted("bearer") =>
        /\ SignedByIssuer(check.token, check.jwks)
        /\ env.issuer \in {"https", "loopback"}
        /\ check.token.iss = env.issuer
        /\ env.audience \in check.token.aud
        /\ env.required \subseteq check.token.scopes
        /\ check.waited < check.token.exp
        /\ check.waited + Leeway >= check.token.iat
        /\ check.waited < check.token.iat + MaxLife

\* README:188: a token that a login of this process would accept as its ID token passes
\* nothing on the Bearer path, unless the provider wrote a scope or the type of an access
\* token into it, also when the operator set the client id as the audience.
IdTokenIsNoAccessToken ==
    (/\ Accepted("bearer")
     /\ login # Unset
     /\ AcceptsLogin(check.token, login, check.jwks, check.waited)) =>
        check.token.typ = "at+jwt" \/ check.token.scopes # {}
====
