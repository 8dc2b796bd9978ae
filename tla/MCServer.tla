------------------------------ MODULE MCServer ------------------------------
(* Server with two or three checks and goroutine slots: one more slot than *)
(* MaxRunningChecks, for a worker that has released its token but has not  *)
(* ended.  Which check or slot it is makes no difference to safety.        *)
EXTENDS Server, TLC

CONSTANTS c1, c2, c3, w1, w2, w3

TwoChecks    == {c1, c2}
ThreeChecks  == {c1, c2, c3}
TwoWorkers   == {w1, w2}
ThreeWorkers == {w1, w2, w3}

Symmetry == Permutations(ThreeChecks) \cup Permutations(ThreeWorkers)
=============================================================================
