---- MODULE MCAdmission ----
(* Settings that differ from a good set in one variable, tokens that       *)
(* differ from a good one in one field, and every mix of the claims that   *)
(* the allowlist reads and of those that tell an ID token.                 *)
EXTENDS Admission

CONSTANTS ann, bob, s1, k1, k2, c1, padded, blank, accent, wide, bytes, g1, g2, g3

MCTrim == [c \in Credential |-> CASE c = padded -> c1 [] c = blank -> Unset [] OTHER -> c]

Small(n) == [name |-> n, small |-> TRUE]
Capital(n) == [name |-> n, small |-> FALSE]

Good == [issuer |-> "https", client |-> TRUE, redirect |-> <<"home">>, subjects |-> {},
         emails |-> {Small(ann)}, domain |-> Unset, any |-> Unset, scopes |-> <<>>,
         audience |-> "api", required |-> {}]

NoNames == [Good EXCEPT !.emails = {}]

Usual ==
    {Good, NoNames, [NoNames EXCEPT !.subjects = {ann}], [NoNames EXCEPT !.domain = Capital(bob)],
     [NoNames EXCEPT !.any = "TRUE"], [NoNames EXCEPT !.any = "yes"]}
    \cup {[Good EXCEPT !.issuer = i] : i \in {"loopback", "http", "broken", Unset}}
    \cup {[Good EXCEPT !.issuer = "broken", !.redirect = Unset],
          [Good EXCEPT !.issuer = "broken", !.redirect = Unset, !.audience = Unset]}
    \cup {[Good EXCEPT !.client = FALSE], [Good EXCEPT !.emails = {Capital(ann)}]}
    \cup {[Good EXCEPT !.redirect = r] : r \in
            {Unset, <<>>, <<"away", "home", "away">>, <<"home", "wrongpath">>, <<"nourl">>,
             <<"home", "foreign", "nourl">>, <<"nourl", "foreign">>}}
    \cup {[Good EXCEPT !.redirect = <<"foreign">>, !.audience = Unset, !.issuer = i] :
            i \in {"https", "http"}}
    \cup {[Good EXCEPT !.scopes = <<s1, "openid", s1>>], [Good EXCEPT !.required = {s1}],
          [Good EXCEPT !.audience = Unset, !.required = {s1}]}
    \cup {[Good EXCEPT !.audience = a] : a \in {"us", "bytes", Unset}}
    \cup {[Good EXCEPT !.audience = "bytes", !.issuer = i] : i \in {"http", Unset}}

\* UTF-8 with surrogateescape writes all, UTF-8 alone no bytes that are none, and ASCII
\* no letter beyond.
MCConsoles == {{}, {bytes, "bytes"}, {bytes, "bytes", wide, accent, "foreign"}}

TheKey == [kid |-> k1, use |-> "sig", alg |-> "RS256"]
MCKeySets == {{TheKey},
              {TheKey, [kid |-> k2, use |-> "sig", alg |-> "HS256"], [kid |-> k1, use |-> "enc", alg |-> "RS256"]}}

Access == [alg |-> "RS256", typ |-> "at+jwt", kid |-> k1, signer |-> k1, complete |-> TRUE,
           iss |-> "https", aud |-> {"api"}, exp |-> 3, iat |-> 0, nbf |-> 0, azp |-> Unset,
           client |-> TRUE, scopes |-> {s1}, nonce |-> FALSE, sub |-> ann, email |-> Unset,
           verified |-> FALSE, hd |-> Unset]

Id == [Access EXCEPT !.typ = "jwt", !.aud = {"us"}, !.client = FALSE, !.scopes = {},
                     !.nonce = TRUE, !.sub = bob, !.email = Small(ann), !.verified = TRUE]

Variants(t) ==
    {[t EXCEPT !.alg = a] : a \in {"none", "HS256", "ES256"}}
    \cup {[t EXCEPT !.kid = k] : k \in {Unset, k2}}
    \cup {[t EXCEPT !.signer = k] : k \in {Forger, k2}}
    \cup {[t EXCEPT !.kid = k2, !.signer = k2, !.alg = "HS256"], [t EXCEPT !.complete = FALSE],
          [t EXCEPT !.nonce = ~t.nonce]}
    \cup {[t EXCEPT !.iss = i] : i \in {"loopback", "other"}}
    \cup {[t EXCEPT !.aud = a] : a \in {{}, {"other"}, {"api", "us"}}}
    \cup {[t EXCEPT !.exp = e] : e \in {-2, -1, 0, 1, 9}}
    \cup {[t EXCEPT !.iat = e] : e \in {-2, 1, 2, 3}}
    \cup {[t EXCEPT !.nbf = e] : e \in {1, 2, 3}}

\* What tells an ID token, and what the allowlist reads.
Kinds == {[Access EXCEPT !.typ = y, !.aud = {a}, !.azp = z, !.client = c, !.scopes = s] :
            y \in {Unset, "jwt", "at+jwt", "other"}, a \in {"api", "us"},
            z \in {Unset, "other"}, c \in BOOLEAN, s \in {{}, {s1}}}
Persons == {[Id EXCEPT !.sub = p, !.email = m, !.verified = v, !.hd = h] :
            p \in {ann, bob}, m \in {Unset, Small(ann), Capital(ann), Small(bob)},
            v \in BOOLEAN, h \in {Unset, Small(bob), Small(ann)}}
Clients == {[Id EXCEPT !.aud = a, !.azp = z] :
            a \in {{"us"}, {"us", "other"}}, z \in {Unset, "us", "other"}}

MCAccessTokens == Kinds \cup Variants(Access)
                  \cup {[Id EXCEPT !.typ = y, !.client = c] : y \in {Unset, "jwt", "at+jwt"}, c \in BOOLEAN}
MCIdTokens == Persons \cup Clients \cup Variants(Id) \cup {Access}
====
