---- MODULE MCGate ----
(* Two requests at a time, so that one can be answered inside the await of *)
(* the other; two logins, so that a live and a dead session coexist.       *)
EXTENDS Gate, TLC

CONSTANTS k1, k2, r1, r2, t1, t2

MCKey == {k1, k2}
MCReq == {r1, r2}
MCSessionToken == {t1, t2}

GateSymmetry ==
    Permutations(MCKey) \cup Permutations(MCReq) \cup Permutations(MCSessionToken)
====
