----------------------------- MODULE MCMemqueue -----------------------------
(* Memqueue with three checks, due every second or every two, two          *)
(* goroutines that enqueue, and a clock of two ticks to the second.        *)
EXTENDS MemqueueRefinement, TLC

CONSTANTS c1, c2, c3, e1, e2

MCCheck    == {c1, c2, c3}
MCEnqueuer == {e1, e2}
MCInterval == [c \in MCCheck |-> IF c = c3 THEN 2 ELSE 1]

MCSymmetry == Permutations({c1, c2}) \cup Permutations(MCEnqueuer)
=============================================================================
