------------------------- MODULE MemqueueRefinement -------------------------
(* That memqueue.Queue implements the waiting line of module DueQueue.     *)
EXTENDS Memqueue

(* The waiting line that the buckets stand for: one after the other, in    *)
(* the order of their priorities.                                          *)
Due == [c \in {d \in Check : InQueue(d)} |-> CHOOSE p \in DOMAIN checks : InBucket(c, p)]

Before(b, c) ==
  \E p, q \in DOMAIN checks : \E i \in 1 .. Len(checks[p]), j \in 1 .. Len(checks[q]) :
    /\ checks[p][i] = b /\ checks[q][j] = c
    /\ p < q \/ (p = q /\ i < j)

Ahead == {pair \in Check \X Check : Before(pair[1], pair[2])}

Ordered == INSTANCE DueQueue WITH due <- Due, ahead <- Ahead

(* The queue implements DueQueue: checks leave in the order of the seconds *)
(* they are due in, those of one second in the order they came, and only   *)
(* once the first is due; whatever the order in which the enqueuing        *)
(* goroutines get the lock.                                                *)
ImplementsDueQueue == Ordered!Spec
=============================================================================
