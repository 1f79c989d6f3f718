---- MODULE MCOidcLogin ----
(* Two requests at a time, so that two callbacks or a start and a callback *)
(* overlap; up to three logins for a store of two, so that starts evict    *)
(* each other; one person on the allowlist and one who is not.             *)
EXTENDS OidcLogin, TLC

CONSTANTS k1, k2, r1, r2, s1, s2, s3, in, out, home, away, t1, t2

OneKey == {k1}
TwoKeys == {k1, k2}
TwoReq == {r1, r2}
TwoLogins == {s1, s2}
ThreeLogins == {s1, s2, s3}
OneToken == {t1}
MCToken == {t1, t2}
LoginSymmetry ==
    Permutations(Key) \cup Permutations(Req) \cup Permutations(Login) \cup Permutations(SessionToken)
====
