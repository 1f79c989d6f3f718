---- MODULE MCIssuerKeys ----
(* Up to three token checks: one that reads, two that wait for the lock.   *)
(* A refresh takes longer than a read, and keys grow old after two.        *)
EXTENDS IssuerKeys, TLC

CONSTANTS c1, c2, c3, a, b, here, there

TwoTasks == {c1, c2}
ThreeTasks == {c1, c2, c3}
MCKid == {a, b}
MCPlaces == {here, there}
KeysSymmetry ==
    Permutations(Task) \cup Permutations(Kid) \cup Permutations(Places)
====
