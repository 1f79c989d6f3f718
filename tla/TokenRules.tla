---- MODULE TokenRules ----
(***************************************************************************)
(* The rules of oidc.py for a token of the identity provider: which key    *)
(* verifies it, which claims an access token and an ID token need, and     *)
(* whom the allowlist of the login permits.                                *)
(*                                                                         *)
(* A token is what its verifiers look at.  Its times are relative to the   *)
(* moment it arrives; waited is the time that the read of the keys took.   *)
(***************************************************************************)
EXTENDS Settings, Integers, FiniteSets

CONSTANTS
    Kid,        \* key ids
    Forger,     \* made the signature of a token that no key of the issuer signed
    Leeway,     \* CLOCK_LEEWAY_SECONDS
    MaxLife     \* MAX_ACCESS_TOKEN_LIFETIME_SECONDS

ASSUME RulesAssumption ==
    /\ Unset \notin Kid
    /\ Forger \notin Kid
    /\ Leeway \in Nat
    /\ MaxLife \in Nat

\* "none" is the algorithm of that name; HMAC algorithms and RS256 and ES256 stand
\* for the refused and the allowed ones.
Alg == {"none", "HS256", "RS256", "ES256"}

AllowedAlgorithms == {"RS256", "ES256"}

\* A key of the JWKS, with the algorithm of its alg or the default of its type.
Jwk == [kid : Kid, use : {"sig", "enc"}, alg : Alg]

Token ==
    [alg : Alg, typ : {Unset, "jwt", "at+jwt", "other"}, kid : Kid \cup {Unset},
     signer : Kid \cup {Forger},
     complete : BOOLEAN,     \* iss, aud, exp and iat are there, and times are numbers
     iss : {"https", "loopback", "other"}, aud : SUBSET {"api", "us", "other"},
     exp : Int, iat : Int, nbf : Int,   \* an absent nbf is iat
     azp : {Unset, "us", "other"}, client : BOOLEAN, scopes : SUBSET Scope,
     nonce : BOOLEAN,        \* the nonce of the login that the token answers
     sub : Name, email : Written \cup {Unset}, verified : BOOLEAN,
     hd : Written \cup {Unset}]

----------------------------------------------------------------------------
(* The key                                                                 *)

\* check_token_algorithm, and select_signing_key for a key of the JWKS.
AlgorithmIsAllowed(t) == t.alg \in AllowedAlgorithms

Candidates(t, jwks) ==
    {k \in jwks : k.use = "sig" /\ (t.kid # Unset => k.kid = t.kid)}

\* The signature holds when the one candidate has the algorithm of the header and
\* signed the token.
SignatureHolds(t, jwks) ==
    /\ AlgorithmIsAllowed(t)
    /\ Cardinality(Candidates(t, jwks)) = 1
    /\ \E k \in Candidates(t, jwks) : k.alg = t.alg /\ k.kid = t.signer

----------------------------------------------------------------------------
(* verify_access_token                                                     *)

\* A token of the type JWT, or with no type, may be an ID token.
Plain(t) == t.typ \in {Unset, "jwt"}

\* The checks that need no key.
BeforeTheKeys(t, config) ==
    /\ AlgorithmIsAllowed(t)
    /\ Plain(t) \/ t.typ = "at+jwt"
    /\ t.iss = config.issuer

\* Mutant: the clock is read before the keys are.
InTimeAtArrival(t, waited) ==
    /\ 0 < t.exp
    /\ t.iat <= Leeway
    /\ t.nbf <= Leeway
    /\ t.exp - t.iat <= MaxLife

\* No leeway for exp.
InTime(t, waited) ==
    /\ waited < t.exp
    /\ t.iat <= waited + Leeway
    /\ t.nbf <= waited + Leeway
    /\ t.exp - t.iat <= MaxLife

\* Mutant: a token without a type needs no client id and no scope.
UntypedPasses(t) == t.typ = "jwt" => (t.azp # Unset \/ t.client) /\ t.scopes # {}

NoIdToken(t) == Plain(t) => (t.azp # Unset \/ t.client) /\ t.scopes # {}

AcceptsAccess(t, config, jwks, waited) ==
    /\ BeforeTheKeys(t, config)
    /\ SignatureHolds(t, jwks)
    /\ t.complete
    /\ config.audience \in t.aud
    /\ InTime(t, waited)
    /\ NoIdToken(t)
    /\ config.required \subseteq t.scopes

----------------------------------------------------------------------------
(* verify_id_token and LoginAllowlist.permits                              *)

\* JWTClaimsRegistry of joserfc: the leeway counts for exp too.
RegistryAccepts(t, config, waited) ==
    /\ t.complete
    /\ t.iss = config.issuer
    /\ "us" \in t.aud
    /\ t.nonce
    /\ waited <= t.exp + Leeway
    /\ t.iat <= waited + Leeway
    /\ t.nbf <= waited + Leeway

\* With more than one audience azp must be there, and where it is, it is this client.
IssuedToUs(t) == Cardinality(t.aud) > 1 \/ t.azp # Unset => t.azp = "us"

\* Mutant: an email counts before the provider verified it.
PermitsUnverified(list, t) ==
    \/ list.any
    \/ t.sub \in list.subjects
    \/ t.email # Unset /\ Lower(t.email) \in list.emails
    \/ list.domain # Unset /\ t.hd # Unset /\ Lower(t.hd) = list.domain

Permits(list, t) ==
    \/ list.any
    \/ t.sub \in list.subjects
    \/ t.verified /\ t.email # Unset /\ Lower(t.email) \in list.emails
    \/ list.domain # Unset /\ t.hd # Unset /\ Lower(t.hd) = list.domain

AcceptsLogin(t, config, jwks, waited) ==
    /\ SignatureHolds(t, jwks)
    /\ RegistryAccepts(t, config, waited)
    /\ IssuedToUs(t)
    /\ Permits(config.allowlist, t)
====
