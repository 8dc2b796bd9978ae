------------------------------ MODULE Memqueue ------------------------------
(***************************************************************************)
(* memqueue.Queue (memqueue/queue.go): a map from due seconds to the       *)
(* checks due in them, the set of those seconds and their minimum, used by *)
(* one goroutine that dequeues (the server's populator) and several that   *)
(* enqueue (its workers).  The lock makes each operation atomic, except    *)
(* that Enqueue finds out the priority before it locks.                    *)
(***************************************************************************)
EXTENDS Schedule, Sequences, FiniteSets

CONSTANTS
  Enqueuer,  \* the goroutines that call Enqueue
  NoCheck,   \* the nil *check.Check
  MaxInt64,  \* math.MaxInt64, the minPriority of the empty queue
  MaxNow     \* bound of the model: the last instant of the clock

ASSUME MemqueueAssumption ==
  /\ MaxNow \in Nat /\ MaxInt64 \in Nat
  /\ NoCheck \notin Check
  /\ \A c \in Check : Unix(MaxNow + IntervalSeconds[c] * TicksPerSecond) < MaxInt64

VARIABLES
  now,          \* the clock
  lastCheck,    \* Check.LastCheck of each check
  executed,     \* the checks with Check.Executed set
  checks,       \* Queue.checks: due second -> checks, in order of arrival
  total,        \* Queue.total
  priorities,   \* the keys of Queue.priorities
  minPriority,  \* Queue.minPriority
  enqueuing,    \* the check that each goroutine is enqueuing
  priority      \* the priority it has found out

memVars   == <<checks, total, priorities, minPriority>>
checkVars == <<lastCheck, executed>>
callVars  == <<enqueuing, priority>>
vars      == <<now, checkVars, memVars, callVars>>

Minimum(S) == CHOOSE p \in S : \A q \in S : p <= q

Bucket(p) == IF p \in DOMAIN checks THEN checks[p] ELSE <<>>

InBucket(c, p) == \E i \in 1 .. Len(checks[p]) : checks[p][i] = c

InQueue(c) == \E p \in DOMAIN checks : InBucket(c, p)

InCall(c) == \E e \in Enqueuer : enqueuing[e] = c

(* The check belongs to the user of the queue (who may run it).            *)
Outside(c) == ~InQueue(c) /\ ~InCall(c)

Init ==
  /\ now = 0
  /\ lastCheck \in [Check -> {Never, 0}]
  /\ executed = {}
  /\ checks = [p \in {} |-> <<>>]
  /\ total = 0
  /\ priorities = {}
  /\ minPriority = MaxInt64
  /\ enqueuing = [e \in Enqueuer |-> NoCheck]
  /\ priority = [e \in Enqueuer |-> 0]

(***************************************************************************)
(* Enqueue, up to the lock and under it.                                   *)
(***************************************************************************)
(* Mutant: Executed stays set.                                             *)
EnqueueCallExecuted(e, c) ==
  /\ enqueuing[e] = NoCheck
  /\ Outside(c)
  /\ enqueuing' = [enqueuing EXCEPT ![e] = c]
  /\ priority' = [priority EXCEPT ![e] = Unix(DueAt(c, lastCheck[c], now))]
  /\ UNCHANGED <<now, checkVars, memVars>>

(* Mutant: the priority is the time of the call plus the interval.         *)
EnqueueCallFromNow(e, c) ==
  /\ enqueuing[e] = NoCheck
  /\ Outside(c)
  /\ executed' = executed \ {c}
  /\ enqueuing' = [enqueuing EXCEPT ![e] = c]
  /\ priority' = [priority EXCEPT ![e] = Unix(DueAt(c, now, now))]
  /\ UNCHANGED <<now, lastCheck, memVars>>

EnqueueCall(e, c) ==
  /\ enqueuing[e] = NoCheck
  /\ Outside(c)
  /\ executed' = executed \ {c}
  /\ enqueuing' = [enqueuing EXCEPT ![e] = c]
  /\ priority' = [priority EXCEPT ![e] = Unix(DueAt(c, lastCheck[c], now))]
  /\ UNCHANGED <<now, lastCheck, memVars>>

(* Mutant: the newest arrival of a second goes first.                      *)
Prepended(c, p) ==
  [q \in DOMAIN checks \cup {p} |-> IF q = p THEN <<c>> \o Bucket(p) ELSE checks[q]]

Appended(c, p) ==
  [q \in DOMAIN checks \cup {p} |-> IF q = p THEN Append(Bucket(p), c) ELSE checks[q]]

(* Mutant: a new priority becomes the minimum without a comparison.        *)
LatestPriority(p) == IF p \in priorities THEN minPriority ELSE p

LoweredMinPriority(p) == IF p \in priorities THEN minPriority ELSE Minimum({p, minPriority})

EnqueueInsert(e) ==
  /\ enqueuing[e] # NoCheck
  /\ checks' = Appended(enqueuing[e], priority[e])
  /\ total' = total + 1
  /\ priorities' = priorities \cup {priority[e]}
  /\ minPriority' = LoweredMinPriority(priority[e])
  /\ enqueuing' = [enqueuing EXCEPT ![e] = NoCheck]
  /\ priority' = [priority EXCEPT ![e] = 0]
  /\ UNCHANGED <<now, checkVars>>

(***************************************************************************)
(* Dequeue.  It returns nil, and changes nothing, unless the first check   *)
(* of the lowest priority is due.                                          *)
(***************************************************************************)
Top == checks[minPriority][1]

(* Mutant: the first check is not asked whether it is due.                 *)
TopExists == minPriority \in DOMAIN checks

TopIsDue ==
  /\ minPriority \in DOMAIN checks
  /\ IsDue(Top, lastCheck[Top], now)

(* Mutant: the next priority in line is not looked for.                    *)
RemoveTopNoScan ==
  LET rest == Tail(checks[minPriority])
  IN  IF rest # <<>>
      THEN /\ checks' = [checks EXCEPT ![minPriority] = rest]
           /\ UNCHANGED <<priorities, minPriority>>
      ELSE /\ checks' = [q \in DOMAIN checks \ {minPriority} |-> checks[q]]
           /\ priorities' = priorities \ {minPriority}
           /\ minPriority' = MaxInt64

(* Mutant: the slice is not cut.                                           *)
RemoveTopUncut ==
  LET left == priorities \ {minPriority}
  IN  IF Len(checks[minPriority]) > 1
      THEN UNCHANGED <<checks, priorities, minPriority>>
      ELSE /\ checks' = [q \in DOMAIN checks \ {minPriority} |-> checks[q]]
           /\ priorities' = left
           /\ minPriority' = Minimum(left \cup {MaxInt64})

(* The rest of the bucket stays; an empty bucket and its priority go.      *)
RemoveTop ==
  LET rest == Tail(checks[minPriority])
      left == priorities \ {minPriority}
  IN  IF rest # <<>>
      THEN /\ checks' = [checks EXCEPT ![minPriority] = rest]
           /\ UNCHANGED <<priorities, minPriority>>
      ELSE /\ checks' = [q \in DOMAIN checks \ {minPriority} |-> checks[q]]
           /\ priorities' = left
           /\ minPriority' = Minimum(left \cup {MaxInt64})

(* Mutant: total counts a priority that goes as well as its check.         *)
DequeueCountedTwice ==
  /\ TopIsDue
  /\ RemoveTop
  /\ total' = IF Len(checks[minPriority]) = 1 THEN total - 2 ELSE total - 1
  /\ UNCHANGED <<now, checkVars, callVars>>

Dequeue ==
  /\ TopIsDue
  /\ RemoveTop
  /\ total' = total - 1
  /\ UNCHANGED <<now, checkVars, callVars>>

Flush ==
  /\ checks' = [p \in {} |-> <<>>]
  /\ total' = 0
  /\ priorities' = {}
  /\ minPriority' = MaxInt64
  /\ UNCHANGED <<now, checkVars, callVars>>

(***************************************************************************)
(* The user of the queue: Execute sets Executed and LastCheck.             *)
(***************************************************************************)
Run(c) ==
  /\ Outside(c)
  /\ executed' = executed \cup {c}
  /\ lastCheck' = [lastCheck EXCEPT ![c] = now]
  /\ UNCHANGED <<now, memVars, callVars>>

Tick ==
  /\ now < MaxNow
  /\ now' = now + 1
  /\ UNCHANGED <<checkVars, memVars, callVars>>

Next ==
  \/ \E e \in Enqueuer, c \in Check : EnqueueCall(e, c)
  \/ \E e \in Enqueuer : EnqueueInsert(e)
  \/ Dequeue
  \/ Flush
  \/ \E c \in Check : Run(c)
  \/ Tick

Spec == Init /\ [][Next]_vars

-----------------------------------------------------------------------------
(***************************************************************************)
(* Properties.                                                             *)
(***************************************************************************)

(* Every variable has its type.                                            *)
TypeOK ==
  /\ now \in 0 .. MaxNow
  /\ lastCheck \in [Check -> (0 .. MaxNow) \cup {Never}]
  /\ executed \subseteq Check
  /\ DOMAIN checks \subseteq Nat
  /\ \A p \in DOMAIN checks : checks[p] \in Seq(Check)
  /\ total \in Nat
  /\ priorities \subseteq Nat
  /\ minPriority \in Nat
  /\ enqueuing \in [Enqueuer -> Check \cup {NoCheck}]
  /\ priority \in [Enqueuer -> Nat]

(* The three views of the queue agree: no bucket is empty (Dequeue reads   *)
(* index 0 of one without looking), priorities are the keys of checks,     *)
(* minPriority is the lowest of them, and total counts what the buckets    *)
(* hold (bufqueue refills itself when Count is 0).                         *)
IndexConsistent ==
  /\ \A p \in DOMAIN checks : checks[p] # <<>>
  /\ priorities = DOMAIN checks
  /\ minPriority = Minimum(priorities \cup {MaxInt64})
  /\ total = Cardinality(UNION {{p} \X (1 .. Len(checks[p])) : p \in DOMAIN checks})

(* Dequeue looks at one check only.  When that one is not due yet, another *)
(* one may be, but it has been due for less than a second.                 *)
WithheldLessThanASecond ==
  ~TopIsDue =>
    \A c \in Check : InQueue(c) => now < DueAt(c, lastCheck[c], now) + TicksPerSecond

(* memqueue/queue.go:54, a comment in Dequeue: "if top-most Check is not   *)
(* due, then nothing is due."  The code does not keep it: the checks of    *)
(* one second are in order of arrival, not of their due times.             *)
TopNotDueNothingDue ==
  ~TopIsDue => \A c \in Check : InQueue(c) => ~IsDue(c, lastCheck[c], now)
=============================================================================
