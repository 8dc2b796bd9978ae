------------------------------ MODULE MCPoller ------------------------------
(* Poller with two checks, one of which is due again at once, and two      *)
(* goroutine slots.                                                        *)
EXTENDS Poller

CONSTANTS c1, c2, w1, w2

MCCheck    == {c1, c2}
MCWorker   == {w1, w2}
MCInterval == [c \in MCCheck |-> IF c = c1 THEN 0 ELSE 1]
=============================================================================
