------------------------------ MODULE DueQueue ------------------------------
(***************************************************************************)
(* What memqueue.Queue promises (memqueue/queue.go, the comment of Queue): *)
(* a waiting line ordered by the second each check is due, first come      *)
(* first served among the checks of one second, whose head leaves once it  *)
(* is due.                                                                 *)
(***************************************************************************)
EXTENDS Schedule

VARIABLES
  now,        \* the clock
  lastCheck,  \* when each check last ran
  due,        \* the second that each waiting check is due in
  ahead       \* the order of the line: <<b, c>> when b is ahead of c

lineVars == <<now, lastCheck, due, ahead>>

Waiting == DOMAIN due

(* The due second is found out at some moment before the check joins the   *)
(* line: a check that never ran is due at that moment.                     *)
DueSeconds(c) ==
  IF lastCheck[c] = Never THEN 0 .. Unix(now) ELSE {Unix(DueAt(c, lastCheck[c], now))}

Init ==
  /\ now \in Nat
  /\ lastCheck \in [Check -> Nat \cup {Never}]
  /\ due = [c \in {} |-> 0]
  /\ ahead = {}

(* Behind the checks of the same second, ahead of those of later ones.     *)
Join(c, second) ==
  /\ due' = [b \in Waiting \cup {c} |-> IF b = c THEN second ELSE due[b]]
  /\ ahead' = ahead \cup ({b \in Waiting : due[b] <= second} \X {c})
                    \cup ({c} \X {b \in Waiting : due[b] > second})

Enqueue(c) ==
  /\ c \notin Waiting
  /\ \E second \in DueSeconds(c) : Join(c, second)
  /\ UNCHANGED <<now, lastCheck>>

Head(c) == \A b \in Waiting \ {c} : <<c, b>> \in ahead

Dequeue(c) ==
  /\ c \in Waiting /\ Head(c)
  /\ IsDue(c, lastCheck[c], now)
  /\ due' = [b \in Waiting \ {c} |-> due[b]]
  /\ ahead' = ahead \cap ((Waiting \ {c}) \X (Waiting \ {c}))
  /\ UNCHANGED <<now, lastCheck>>

Flush ==
  /\ due' = [c \in {} |-> 0]
  /\ ahead' = {}
  /\ UNCHANGED <<now, lastCheck>>

Run(c) ==
  /\ c \notin Waiting
  /\ lastCheck' = [lastCheck EXCEPT ![c] = now]
  /\ UNCHANGED <<now, due, ahead>>

Tick ==
  /\ now' > now
  /\ UNCHANGED <<lastCheck, due, ahead>>

Next ==
  \/ \E c \in Check : Enqueue(c) \/ Dequeue(c) \/ Run(c)
  \/ Flush
  \/ Tick

Spec == Init /\ [][Next]_lineVars
=============================================================================
