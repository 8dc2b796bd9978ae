--------------------------- MODULE MemqueueProofs ---------------------------
(***************************************************************************)
(* Proofs about module Memqueue and its refinement of DueQueue, for any    *)
(* checks, intervals, enqueuing goroutines, clock resolution and length of *)
(* the run (below the MaxInt64 that marks the empty queue).                *)
(***************************************************************************)
EXTENDS MemqueueRefinement, FiniteSetTheorems, WellFoundedInduction, TLAPS

(* TypeOK but for total, which needs the count.                            *)
Typed ==
  /\ now \in 0 .. MaxNow
  /\ lastCheck \in [Check -> (0 .. MaxNow) \cup {Never}]
  /\ executed \subseteq Check
  /\ DOMAIN checks \subseteq Nat
  /\ \A p \in DOMAIN checks : checks[p] \in Seq(Check)
  /\ priorities \subseteq Nat
  /\ minPriority \in Nat
  /\ enqueuing \in [Enqueuer -> Check \cup {NoCheck}]
  /\ priority \in [Enqueuer -> Nat]

(* The places in the buckets of a map from seconds to sequences.           *)
SlotsOf(f) == UNION {{p} \X (1 .. Len(f[p])) : p \in DOMAIN f}
Slots      == SlotsOf(checks)

(* The three views of the queue agree.                                     *)
Indexed ==
  /\ \A p \in DOMAIN checks : checks[p] # <<>>
  /\ priorities = DOMAIN checks
  /\ minPriority = Minimum(priorities \cup {MaxInt64})

Counted == IsFiniteSet(Slots) /\ total = Cardinality(Slots)

(* A check that has run at last waits under the second it is due in, which *)
(* does not depend on the clock.                                           *)
Filed(c, p, last) ==
  /\ p < MaxInt64
  /\ last # Never => p = Unix(DueAt(c, last, 0))

FiledInQueue ==
  \A p \in DOMAIN checks :
    \A i \in 1 .. Len(checks[p]) : Filed(checks[p][i], p, lastCheck[checks[p][i]])

FiledInCall ==
  \A e \in Enqueuer :
    enqueuing[e] # NoCheck => Filed(enqueuing[e], priority[e], lastCheck[enqueuing[e]])

(* A check is in the buckets once, and while it is being enqueued, which   *)
(* one goroutine does, not at all.                                         *)
Once ==
  /\ \A p, q \in DOMAIN checks : \A i \in 1 .. Len(checks[p]), j \in 1 .. Len(checks[q]) :
       checks[p][i] = checks[q][j] => p = q /\ i = j
  /\ \A e \in Enqueuer, c \in Check : enqueuing[e] = c => ~InQueue(c)
  /\ \A e, f \in Enqueuer : enqueuing[e] = enqueuing[f] /\ enqueuing[e] # NoCheck => e = f

(* Executed is reset on the way into the queue, and only Run sets it.      *)
Unexecuted == \A c \in Check : InQueue(c) \/ InCall(c) => c \notin executed

(* A check that never ran has been found due at some moment until now.     *)
FoundDue ==
  \A e \in Enqueuer :
    enqueuing[e] # NoCheck /\ lastCheck[enqueuing[e]] = Never => priority[e] <= Unix(now)

(* What the order of the line depends on.                                  *)
Lined ==
  /\ Typed /\ Indexed
  /\ FiledInQueue /\ FiledInCall
  /\ Once /\ Unexecuted /\ FoundDue

(* The inductive invariant.                                                *)
IInv == Lined /\ Counted

-----------------------------------------------------------------------------
(***************************************************************************)
(* Facts about module Schedule: a second of Unix() spans TicksPerSecond    *)
(* ticks, and later times have later seconds.  And that sets of naturals   *)
(* have a minimum.                                                         *)
(***************************************************************************)
LEMMA Division ==
  ASSUME NEW t \in Nat, NEW k \in Nat \ {0}
  PROVE  t \div k \in Nat /\ (t \div k) * k <= t /\ t < (t \div k) * k + k
OBVIOUS

LEMMA ProductMonotone ==
  ASSUME NEW a \in Nat, NEW b \in Nat, NEW k \in Nat, a <= b
  PROVE  a * k <= b * k /\ a * k \in Nat
OBVIOUS

LEMMA QuotientMonotone ==
  ASSUME NEW a \in Nat, NEW b \in Nat, NEW k \in Nat \ {0}, a * k < b * k + k
  PROVE  a <= b
OBVIOUS

(* A time lies within its second.                                          *)
LEMMA UnixSpan ==
  ASSUME NEW t \in Nat
  PROVE  /\ Unix(t) \in Nat
         /\ Unix(t) * TicksPerSecond <= t
         /\ t < Unix(t) * TicksPerSecond + TicksPerSecond
BY Division, ScheduleAssumption DEF Unix

LEMMA UnixMonotone ==
  ASSUME NEW t \in Nat, NEW u \in Nat, t <= u
  PROVE  Unix(t) <= Unix(u)
<1>1. Unix(t) \in Nat /\ Unix(u) \in Nat /\ TicksPerSecond \in Nat \ {0}
  BY UnixSpan, ScheduleAssumption
<1>2. Unix(t) * TicksPerSecond \in Nat /\ Unix(u) * TicksPerSecond \in Nat
  BY <1>1, ProductMonotone
<1>3. Unix(t) * TicksPerSecond < Unix(u) * TicksPerSecond + TicksPerSecond
  BY <1>1, <1>2, UnixSpan
<1> QED
  BY <1>1, <1>3, QuotientMonotone

(* Of two times the one in the lower or the same second is not a second    *)
(* later than the other.                                                   *)
LEMMA SameSecondOrLower ==
  ASSUME NEW t \in Nat, NEW u \in Nat, Unix(t) <= Unix(u)
  PROVE  t < u + TicksPerSecond
<1>1. Unix(t) \in Nat /\ Unix(u) \in Nat /\ TicksPerSecond \in Nat \ {0}
  BY UnixSpan, ScheduleAssumption
<1>2. Unix(t) * TicksPerSecond <= Unix(u) * TicksPerSecond
      /\ Unix(t) * TicksPerSecond \in Nat /\ Unix(u) * TicksPerSecond \in Nat
  BY <1>1, ProductMonotone
<1>3. /\ t < Unix(t) * TicksPerSecond + TicksPerSecond
      /\ Unix(u) * TicksPerSecond <= u
  BY UnixSpan
<1> QED
  BY <1>1, <1>2, <1>3

LEMMA DueAtType ==
  ASSUME NEW c \in Check, NEW last \in Nat \cup {Never}, NEW t \in Nat
  PROVE  /\ DueAt(c, last, t) \in Nat
         /\ last # Never => DueAt(c, last, t) = last + IntervalSeconds[c] * TicksPerSecond
         /\ IntervalSeconds[c] * TicksPerSecond \in Nat
<1>1. IntervalSeconds[c] * TicksPerSecond \in Nat
  BY ScheduleAssumption, ProductMonotone
<1> QED
  BY <1>1, ScheduleAssumption DEF DueAt

LEMMA LeastElement ==
  ASSUME NEW S \in SUBSET Nat, S # {}
  PROVE  \E m \in S : \A n \in S : m <= n
<1> DEFINE Less == {ij \in Nat \X Nat : ij[1] < ij[2]}
<1>1. IsWellFoundedOn(Less, Nat)
  BY NatLessThanWellFounded, Zenon DEF OpToRel
<1> HIDE DEF Less
<1>2. PICK m \in S : \A n \in S : ~(<<n, m>> \in Less)
  BY <1>1, WFMin
<1>3. \A n \in S : ~(n < m)
  BY <1>2 DEF Less
<1> QED
  BY <1>2, <1>3

-----------------------------------------------------------------------------
LEMMA EmptyOrNot ==
  ASSUME NEW S, NEW s \in Seq(S)
  PROVE  Len(s) \in Nat /\ (s = <<>> <=> Len(s) = 0)
OBVIOUS

LEMMA MinimumIs ==
  ASSUME NEW S \in SUBSET Nat, S # {}
  PROVE  Minimum(S) \in S /\ \A q \in S : Minimum(S) <= q
<1>1. \E m \in S : \A q \in S : m <= q
  BY LeastElement
<1> QED
  BY <1>1 DEF Minimum

LEMMA MinimumUnique ==
  ASSUME NEW S \in SUBSET Nat, NEW m \in S, \A q \in S : m <= q
  PROVE  Minimum(S) = m
<1>1. Minimum(S) \in S /\ Minimum(S) <= m
  BY MinimumIs
<1>2. m <= Minimum(S) /\ m \in Nat /\ Minimum(S) \in Nat
  BY <1>1
<1> QED
  BY <1>1, <1>2

LEMMA SlotMembers ==
  ASSUME NEW f, NEW x
  PROVE  x \in SlotsOf(f) <=>
           \E p \in DOMAIN f : \E i \in 1 .. Len(f[p]) : x = <<p, i>>
BY DEF SlotsOf

(* g is f with one more check in bucket p, which f may not have.           *)
Grown(f, g, p, n) ==
  /\ DOMAIN g = DOMAIN f \cup {p}
  /\ \A q \in DOMAIN f \ {p} : g[q] = f[q]
  /\ p \in DOMAIN f => n = Len(f[p])
  /\ p \notin DOMAIN f => n = 0
  /\ Len(g[p]) = n + 1

LEMMA SlotsGrown ==
  ASSUME NEW f, NEW g, NEW p, NEW n \in Nat, Grown(f, g, p, n)
  PROVE  SlotsOf(g) = SlotsOf(f) \cup {<<p, n + 1>>} /\ <<p, n + 1>> \notin SlotsOf(f)
<1>a. /\ DOMAIN g = DOMAIN f \cup {p}
      /\ \A q \in DOMAIN f \ {p} : g[q] = f[q]
      /\ p \in DOMAIN f => n = Len(f[p])
      /\ p \notin DOMAIN f => n = 0
      /\ Len(g[p]) = n + 1
  BY DEF Grown
<1>1. ASSUME NEW x \in SlotsOf(g) PROVE x \in SlotsOf(f) \cup {<<p, n + 1>>}
  <2>1. PICK q \in DOMAIN g : \E i \in 1 .. Len(g[q]) : x = <<q, i>>
    BY <1>1, SlotMembers
  <2>2. PICK i \in 1 .. Len(g[q]) : x = <<q, i>>
    BY <2>1
  <2>3. CASE q # p
    <3>1. q \in DOMAIN f /\ i \in 1 .. Len(f[q])
      BY <1>a, <2>3
    <3> QED
      BY <2>2, <3>1, SlotMembers
  <2>4. CASE q = p /\ i # n + 1
    <3>1. i \in 1 .. n + 1 /\ i \in 1 .. n
      <4>1. i \in 1 .. n + 1
        BY <1>a, <2>4
      <4> QED
        BY <2>4, <4>1
    <3>2. p \in DOMAIN f /\ n = Len(f[p])
      BY <1>a, <3>1
    <3>3. q \in DOMAIN f /\ i \in 1 .. Len(f[q])
      BY <2>4, <3>1, <3>2
    <3> QED
      BY <2>2, <3>3, SlotMembers
  <2> QED
    BY <2>2, <2>3, <2>4
<1>2. ASSUME NEW x \in SlotsOf(f) PROVE x \in SlotsOf(g)
  <2>1. PICK q \in DOMAIN f : \E i \in 1 .. Len(f[q]) : x = <<q, i>>
    BY <1>2, SlotMembers
  <2>2. PICK i \in 1 .. Len(f[q]) : x = <<q, i>>
    BY <2>1
  <2>3. q \in DOMAIN g /\ i \in 1 .. Len(g[q])
    <3>1. CASE q = p
      <4>1. i \in 1 .. n /\ Len(g[q]) = n + 1
        BY <1>a, <3>1
      <4> QED
        BY <1>a, <3>1, <4>1
    <3>2. CASE q # p
      BY <1>a, <3>2
    <3> QED
      BY <3>1, <3>2
  <2> QED
    BY <2>2, <2>3, SlotMembers
<1>3. <<p, n + 1>> \in SlotsOf(g)
  <2>1. p \in DOMAIN g /\ n + 1 \in 1 .. n + 1
    BY <1>a
  <2>2. n + 1 \in 1 .. Len(g[p])
    BY <1>a, <2>1
  <2> QED
    BY <2>1, <2>2, SlotMembers
<1>4. <<p, n + 1>> \notin SlotsOf(f)
  <2> SUFFICES ASSUME <<p, n + 1>> \in SlotsOf(f) PROVE FALSE
    OBVIOUS
  <2>1. PICK q \in DOMAIN f : \E i \in 1 .. Len(f[q]) : <<p, n + 1>> = <<q, i>>
    BY SlotMembers
  <2>2. p \in DOMAIN f /\ n + 1 \in 1 .. Len(f[p])
    BY <2>1
  <2> QED
    BY <1>a, <2>2
<1> QED
  BY <1>1, <1>2, <1>3, <1>4

-----------------------------------------------------------------------------
LEMMA DueBelowMax ==
  ASSUME NEW c \in Check, NEW last \in (0 .. MaxNow) \cup {Never}, NEW t \in 0 .. MaxNow
  PROVE  Unix(DueAt(c, last, t)) \in Nat /\ Unix(DueAt(c, last, t)) < MaxInt64
<1> DEFINE span == IntervalSeconds[c] * TicksPerSecond
<1>1. MaxNow \in Nat /\ MaxInt64 \in Nat /\ last \in Nat \cup {Never} /\ t \in Nat
  BY MemqueueAssumption
<1>2. span \in Nat /\ DueAt(c, last, t) \in Nat
  BY <1>1, DueAtType
<1>3. DueAt(c, last, t) <= MaxNow + span
  BY <1>1, <1>2 DEF DueAt
<1>4. Unix(DueAt(c, last, t)) <= Unix(MaxNow + span) /\ Unix(MaxNow + span) < MaxInt64
  BY <1>1, <1>2, <1>3, UnixMonotone, MemqueueAssumption
<1> QED
  BY <1>1, <1>2, <1>4, UnixSpan

(* EnqueueInsert adds the check to the bucket of its priority.             *)
LEMMA InsertEffect ==
  ASSUME Typed, NEW e \in Enqueuer, EnqueueInsert(e)
  PROVE  /\ enqueuing[e] \in Check /\ priority[e] \in Nat
         /\ DOMAIN checks' = DOMAIN checks \cup {priority[e]}
         /\ \A q \in DOMAIN checks \ {priority[e]} : checks'[q] = checks[q]
         /\ Bucket(priority[e]) \in Seq(Check)
         /\ checks'[priority[e]] = Append(Bucket(priority[e]), enqueuing[e])
         /\ checks'[priority[e]] \in Seq(Check) /\ checks'[priority[e]] # <<>>
         /\ Len(checks'[priority[e]]) = Len(Bucket(priority[e])) + 1
         /\ \A i \in 1 .. Len(Bucket(priority[e])) :
              checks'[priority[e]][i] = Bucket(priority[e])[i]
         /\ checks'[priority[e]][Len(Bucket(priority[e])) + 1] = enqueuing[e]
<1>1. enqueuing[e] \in Check /\ priority[e] \in Nat
  BY DEF Typed, EnqueueInsert
<1>2. Bucket(priority[e]) \in Seq(Check)
  BY DEF Bucket, Typed
<1>3. checks' = [q \in DOMAIN checks \cup {priority[e]} |->
                   IF q = priority[e] THEN Append(Bucket(priority[e]), enqueuing[e])
                   ELSE checks[q]]
  BY DEF EnqueueInsert, Appended
<1> QED
  BY <1>1, <1>2, <1>3

(* RemoveTop cuts the first check off the bucket of the lowest priority.   *)
LEMMA RemoveEffect ==
  ASSUME Typed, Indexed, minPriority \in DOMAIN checks, RemoveTop
  PROVE  /\ checks[minPriority] \in Seq(Check) /\ Len(checks[minPriority]) \in Nat
         /\ Len(checks[minPriority]) = 1 \/ Len(checks[minPriority]) > 1
         /\ DOMAIN checks' = IF Len(checks[minPriority]) = 1
                             THEN DOMAIN checks \ {minPriority} ELSE DOMAIN checks
         /\ priorities' = DOMAIN checks'
         /\ \A q \in DOMAIN checks \ {minPriority} : checks'[q] = checks[q]
         /\ Len(checks[minPriority]) > 1 =>
              /\ minPriority' = minPriority
              /\ checks'[minPriority] = Tail(checks[minPriority])
              /\ checks'[minPriority] \in Seq(Check) /\ checks'[minPriority] # <<>>
              /\ Len(checks'[minPriority]) = Len(checks[minPriority]) - 1
         /\ Len(checks[minPriority]) = 1 => minPriority' = Minimum(priorities' \cup {MaxInt64})
<1> DEFINE b == checks[minPriority]
<1>1. b \in Seq(Check) /\ b # <<>> /\ Len(b) \in Nat /\ (Len(b) = 1 \/ Len(b) > 1)
  <2>1. b \in Seq(Check) /\ b # <<>>
    BY DEF Typed, Indexed
  <2>2. Len(b) \in Nat /\ Len(b) # 0
    BY <2>1, EmptyOrNot
  <2>3. \A k \in Nat : k # 0 => k = 1 \/ k > 1
    OBVIOUS
  <2> QED
    BY <2>1, <2>2, <2>3
<1> HIDE DEF b
<1>2. Tail(b) \in Seq(Check) /\ Len(Tail(b)) = Len(b) - 1 /\ (Tail(b) = <<>> <=> Len(b) = 1)
  <2>1. Tail(b) \in Seq(Check) /\ Len(Tail(b)) = Len(b) - 1
    BY <1>1
  <2>2. Tail(b) = <<>> <=> Len(Tail(b)) = 0
    BY <2>1, EmptyOrNot
  <2> QED
    BY <1>1, <2>1, <2>2
<1>3. CASE Tail(b) # <<>>
  <2>1. checks' = [checks EXCEPT ![minPriority] = Tail(b)] /\ UNCHANGED <<priorities, minPriority>>
    BY <1>3 DEF RemoveTop, b
  <2>2. DOMAIN checks' = DOMAIN checks /\ checks'[minPriority] = Tail(b)
        /\ \A q \in DOMAIN checks \ {minPriority} : checks'[q] = checks[q]
    BY <2>1
  <2> QED
    BY <1>1, <1>2, <1>3, <2>1, <2>2 DEF Indexed, b
<1>4. CASE Tail(b) = <<>>
  <2>1. /\ checks' = [q \in DOMAIN checks \ {minPriority} |-> checks[q]]
        /\ priorities' = priorities \ {minPriority}
        /\ minPriority' = Minimum((priorities \ {minPriority}) \cup {MaxInt64})
    BY <1>4 DEF RemoveTop, b
  <2>2. DOMAIN checks' = DOMAIN checks \ {minPriority}
        /\ \A q \in DOMAIN checks \ {minPriority} : checks'[q] = checks[q]
    BY <2>1
  <2>3. priorities' = DOMAIN checks'
    BY <2>1, <2>2 DEF Indexed
  <2>4. b = checks[minPriority] /\ Len(b) = 1
    BY <1>2, <1>4 DEF b
  <2>5. minPriority' = Minimum(priorities' \cup {MaxInt64})
    BY <2>1
  <2> QED
    BY <1>1, <2>2, <2>3, <2>4, <2>5
<1> QED
  BY <1>3, <1>4

-----------------------------------------------------------------------------
LEMMA TypedInit == Init => Typed /\ Indexed /\ Counted /\ FiledInQueue /\ FiledInCall
<1> SUFFICES ASSUME Init PROVE Typed /\ Indexed /\ Counted /\ FiledInQueue /\ FiledInCall
  OBVIOUS
<1> USE MemqueueAssumption DEF Init
<1>1. DOMAIN checks = {}
  OBVIOUS
<1>2. Typed
  BY <1>1 DEF Typed
<1>3. Minimum({} \cup {MaxInt64}) = MaxInt64
  BY MinimumUnique
<1>4. Indexed
  BY <1>1, <1>3 DEF Indexed
<1>5. Slots = {}
  BY <1>1 DEF Slots, SlotsOf
<1>6. Counted
  BY <1>5, FS_EmptySet DEF Counted
<1> QED
  BY <1>1, <1>2, <1>4, <1>6 DEF FiledInQueue, FiledInCall

LEMMA TypedNext == Typed /\ Indexed /\ [Next]_vars => Typed'
<1> SUFFICES ASSUME Typed, Indexed, [Next]_vars PROVE Typed'
  OBVIOUS
<1> USE MemqueueAssumption DEF checkVars, memVars, callVars
<1>1. ASSUME NEW e \in Enqueuer, NEW c \in Check, EnqueueCall(e, c) PROVE Typed'
  <2>1. Unix(DueAt(c, lastCheck[c], now)) \in Nat
    BY DueBelowMax DEF Typed
  <2> QED
    BY <1>1, <2>1 DEF EnqueueCall, Typed
<1>2. ASSUME NEW e \in Enqueuer, EnqueueInsert(e) PROVE Typed'
  <2>1. DOMAIN checks' \subseteq Nat /\ \A p \in DOMAIN checks' : checks'[p] \in Seq(Check)
    <3>1. \A p \in DOMAIN checks \ {priority[e]} : checks'[p] \in Seq(Check)
      BY <1>2, InsertEffect DEF Typed
    <3>2. checks'[priority[e]] \in Seq(Check)
      BY <1>2, InsertEffect
    <3>3. DOMAIN checks' = DOMAIN checks \cup {priority[e]} /\ priority[e] \in Nat
      BY <1>2, InsertEffect
    <3> QED
      BY <3>1, <3>2, <3>3 DEF Typed
  <2>2. priorities' \subseteq Nat
    BY <1>2, InsertEffect DEF EnqueueInsert, Typed
  <2>3. minPriority' \in Nat
    <3>1. {priority[e], minPriority} \in SUBSET Nat
      BY <1>2, InsertEffect DEF Typed
    <3>2. Minimum({priority[e], minPriority}) \in Nat
      BY <3>1, MinimumIs
    <3> QED
      BY <1>2, <3>2 DEF EnqueueInsert, LoweredMinPriority, Typed
  <2>4. /\ enqueuing' \in [Enqueuer -> Check \cup {NoCheck}] /\ priority' \in [Enqueuer -> Nat]
        /\ UNCHANGED <<now, lastCheck, executed>>
    BY <1>2 DEF EnqueueInsert, Typed
  <2> QED
    BY <2>1, <2>2, <2>3, <2>4 DEF Typed
<1>3. CASE Dequeue
  <2>1. minPriority \in DOMAIN checks /\ RemoveTop
    BY <1>3 DEF Dequeue, TopIsDue
  <2>2. DOMAIN checks' \subseteq Nat /\ \A p \in DOMAIN checks' : checks'[p] \in Seq(Check)
    <3>1. DOMAIN checks' \subseteq DOMAIN checks
      BY <2>1, RemoveEffect
    <3>2. ASSUME NEW p \in DOMAIN checks' PROVE checks'[p] \in Seq(Check)
      <4>1. CASE p # minPriority
        BY <2>1, <3>1, <4>1, RemoveEffect DEF Typed
      <4>2. CASE p = minPriority
        <5>1. Len(checks[minPriority]) > 1
          <6>1. Len(checks[minPriority]) # 1
            BY <2>1, <4>2, RemoveEffect
          <6> QED
            BY <2>1, <6>1, RemoveEffect
        <5> QED
          BY <2>1, <4>2, <5>1, RemoveEffect
      <4> QED
        BY <4>1, <4>2
    <3> QED
      BY <3>1, <3>2 DEF Typed
  <2>3. priorities' \subseteq Nat
    BY <2>1, <2>2, RemoveEffect
  <2>4. minPriority' \in Nat
    <3>1. priorities' \cup {MaxInt64} \in SUBSET Nat
      BY <2>3
    <3>2. Minimum(priorities' \cup {MaxInt64}) \in Nat
      BY <3>1, MinimumIs
    <3>3. Len(checks[minPriority]) = 1 \/ Len(checks[minPriority]) > 1
      BY <2>1, RemoveEffect
    <3> QED
      BY <2>1, <3>2, <3>3, RemoveEffect DEF Typed
  <2>5. UNCHANGED <<now, lastCheck, executed, enqueuing, priority>>
    BY <1>3 DEF Dequeue
  <2> QED
    BY <2>2, <2>3, <2>4, <2>5 DEF Typed
<1>4. CASE Flush
  BY <1>4 DEF Flush, Typed
<1>5. ASSUME NEW c \in Check, Run(c) PROVE Typed'
  BY <1>5 DEF Run, Typed
<1>6. CASE Tick
  BY <1>6 DEF Tick, Typed
<1>7. CASE UNCHANGED vars
  BY <1>7 DEF vars, Typed
<1> QED
  BY <1>1, <1>2, <1>3, <1>4, <1>5, <1>6, <1>7 DEF Next

-----------------------------------------------------------------------------
LEMMA IndexedNext == Typed /\ Indexed /\ [Next]_vars => Indexed'
<1> SUFFICES ASSUME Typed, Indexed, [Next]_vars PROVE Indexed'
  OBVIOUS
<1>1. CASE UNCHANGED memVars
  BY <1>1 DEF memVars, Indexed
<1>2. ASSUME NEW e \in Enqueuer, EnqueueInsert(e) PROVE Indexed'
  <2> DEFINE p == priority[e]
             S == priorities \cup {MaxInt64}
             T == priorities' \cup {MaxInt64}
  <2>1. p \in Nat /\ DOMAIN checks' = DOMAIN checks \cup {p}
    BY <1>2, InsertEffect
  <2>2. priorities' = priorities \cup {p}
        /\ minPriority' = IF p \in priorities THEN minPriority ELSE Minimum({p, minPriority})
    BY <1>2 DEF EnqueueInsert, LoweredMinPriority
  <2>3. \A q \in DOMAIN checks' : checks'[q] # <<>>
    <3>1. checks'[p] # <<>>
      BY <1>2, InsertEffect
    <3>2. \A q \in DOMAIN checks \ {p} : checks'[q] # <<>>
      BY <1>2, InsertEffect DEF Indexed
    <3> QED
      BY <2>1, <3>1, <3>2
  <2>4. S \in SUBSET Nat /\ T \in SUBSET Nat /\ T = S \cup {p} /\ MaxInt64 \in S
    BY <2>1, <2>2, MemqueueAssumption DEF Typed
  <2>5. minPriority \in S /\ \A q \in S : minPriority <= q
    BY <2>4, MinimumIs DEF Indexed
  <2>6. minPriority' = Minimum(T)
    <3>1. CASE p \in priorities
      BY <2>2, <2>4, <3>1 DEF Indexed
    <3>2. CASE p \notin priorities
      <4>1. {p, minPriority} \in SUBSET Nat
        BY <2>1 DEF Typed
      <4>2. /\ Minimum({p, minPriority}) \in {p, minPriority}
            /\ \A q \in {p, minPriority} : Minimum({p, minPriority}) <= q
        BY <4>1, MinimumIs
      <4>3. minPriority' \in T /\ \A q \in T : minPriority' <= q
        BY <2>2, <2>4, <2>5, <3>2, <4>1, <4>2
      <4> QED
        BY <2>4, <4>3, MinimumUnique
    <3> QED
      BY <3>1, <3>2
  <2> QED
    BY <2>1, <2>2, <2>3, <2>6 DEF Indexed
<1>3. CASE Dequeue
  <2>1. minPriority \in DOMAIN checks /\ RemoveTop
    BY <1>3 DEF Dequeue, TopIsDue
  <2>2. priorities' = DOMAIN checks'
    BY <2>1, RemoveEffect
  <2>3. Len(checks[minPriority]) = 1 \/ Len(checks[minPriority]) > 1
    BY <2>1, RemoveEffect
  <2>4. minPriority' = Minimum(priorities' \cup {MaxInt64})
    <3>1. CASE Len(checks[minPriority]) > 1
      <4>1. priorities' = priorities /\ minPriority' = minPriority
        BY <2>1, <3>1, RemoveEffect DEF Indexed
      <4> QED
        BY <4>1 DEF Indexed
    <3> QED
      BY <2>1, <2>3, <3>1, RemoveEffect
  <2>5. ASSUME NEW p \in DOMAIN checks' PROVE checks'[p] # <<>>
    <3>1. CASE p # minPriority
      BY <2>1, <3>1, RemoveEffect DEF Indexed
    <3>2. CASE p = minPriority
      BY <2>1, <2>3, <3>2, RemoveEffect
    <3> QED
      BY <3>1, <3>2
  <2> QED
    BY <2>2, <2>4, <2>5 DEF Indexed
<1>4. CASE Flush
  <2>1. DOMAIN checks' = {} /\ priorities' = {} /\ minPriority' = MaxInt64
    BY <1>4 DEF Flush
  <2>2. Minimum({} \cup {MaxInt64}) = MaxInt64
    BY MinimumUnique, MemqueueAssumption
  <2> QED
    BY <2>1, <2>2 DEF Indexed
<1>5. ASSUME NEW e \in Enqueuer, NEW c \in Check, EnqueueCall(e, c) PROVE Indexed'
  BY <1>1, <1>5 DEF EnqueueCall
<1>6. ASSUME NEW c \in Check, Run(c) PROVE Indexed'
  BY <1>1, <1>6 DEF Run
<1>7. CASE Tick \/ UNCHANGED vars
  BY <1>1, <1>7 DEF Tick, vars
<1> QED
  BY <1>2, <1>3, <1>4, <1>5, <1>6, <1>7 DEF Next

-----------------------------------------------------------------------------
LEMMA CountedNext == Typed /\ Indexed /\ Counted /\ [Next]_vars => Counted'
<1> SUFFICES ASSUME Typed, Indexed, Counted, [Next]_vars PROVE Counted'
  OBVIOUS
<1>1. CASE UNCHANGED memVars
  BY <1>1 DEF memVars, Counted, Slots
<1>2. ASSUME NEW e \in Enqueuer, EnqueueInsert(e) PROVE Counted'
  <2> DEFINE n == Len(Bucket(priority[e]))
  <2>1. n \in Nat
    BY <1>2, InsertEffect, EmptyOrNot
  <2>2. Grown(checks, checks', priority[e], n)
    <3>1. priority[e] \notin DOMAIN checks => n = 0
      BY DEF Bucket
    <3> QED
      BY <1>2, <3>1, InsertEffect DEF Grown, Bucket
  <2>3. /\ Slots' = Slots \cup {<<priority[e], n + 1>>}
        /\ <<priority[e], n + 1>> \notin Slots
    BY <2>1, <2>2, SlotsGrown DEF Slots
  <2>4. IsFiniteSet(Slots') /\ Cardinality(Slots') = Cardinality(Slots) + 1
    BY <2>3, FS_AddElement DEF Counted
  <2> QED
    BY <1>2, <2>4 DEF Counted, EnqueueInsert
<1>3. CASE Dequeue
  <2> DEFINE n == Len(checks[minPriority]) - 1
  <2>1. minPriority \in DOMAIN checks /\ RemoveTop
    BY <1>3 DEF Dequeue, TopIsDue
  <2>2. n \in Nat /\ Len(checks[minPriority]) = n + 1
    <3>1. Len(checks[minPriority]) \in Nat
          /\ (Len(checks[minPriority]) = 1 \/ Len(checks[minPriority]) > 1)
      BY <2>1, RemoveEffect
    <3>2. \A k \in Nat : k = 1 \/ k > 1 => k - 1 \in Nat /\ k = (k - 1) + 1
      OBVIOUS
    <3> QED
      BY <3>1, <3>2
  <2> HIDE DEF n
  <2>3. Grown(checks', checks, minPriority, n)
    <3>1. DOMAIN checks = DOMAIN checks' \cup {minPriority}
          /\ \A q \in DOMAIN checks' \ {minPriority} : checks[q] = checks'[q]
      BY <2>1, RemoveEffect
    <3>2. /\ Len(checks[minPriority]) = 1 <=> n = 0
          /\ Len(checks[minPriority]) > 1 <=> n # 0
          /\ Len(checks[minPriority]) - 1 = n
      <4>1. ASSUME NEW k \in Nat, k = n + 1
            PROVE  (k = 1 <=> n = 0) /\ (k > 1 <=> n # 0) /\ k - 1 = n
        BY <2>2, <4>1
      <4>2. Len(checks[minPriority]) \in Nat
        BY <2>2
      <4> QED
        BY <2>2, <4>1, <4>2
    <3>3. minPriority \in DOMAIN checks' <=> n # 0
      BY <2>1, <3>2, RemoveEffect
    <3>4. n # 0 => n = Len(checks'[minPriority])
      BY <2>1, <3>2, RemoveEffect
    <3> QED
      BY <2>2, <3>1, <3>3, <3>4 DEF Grown
  <2>4. /\ Slots = Slots' \cup {<<minPriority, n + 1>>}
        /\ <<minPriority, n + 1>> \notin Slots'
    BY <2>2, <2>3, SlotsGrown DEF Slots
  <2>5. Slots' = Slots \ {<<minPriority, n + 1>>} /\ <<minPriority, n + 1>> \in Slots
    BY <2>4
  <2>6. IsFiniteSet(Slots') /\ Cardinality(Slots') = Cardinality(Slots) - 1
    BY <2>5, FS_RemoveElement DEF Counted
  <2> QED
    BY <1>3, <2>6 DEF Counted, Dequeue
<1>4. CASE Flush
  <2>1. DOMAIN checks' = {} /\ total' = 0
    BY <1>4 DEF Flush
  <2>2. Slots' = {}
    BY <2>1 DEF Slots, SlotsOf
  <2> QED
    BY <2>1, <2>2, FS_EmptySet DEF Counted
<1>5. ASSUME NEW e \in Enqueuer, NEW c \in Check, EnqueueCall(e, c) PROVE Counted'
  BY <1>1, <1>5 DEF EnqueueCall
<1>6. ASSUME NEW c \in Check, Run(c) PROVE Counted'
  BY <1>1, <1>6 DEF Run
<1>7. CASE Tick \/ UNCHANGED vars
  BY <1>1, <1>7 DEF Tick, vars
<1> QED
  BY <1>2, <1>3, <1>4, <1>5, <1>6, <1>7 DEF Next

-----------------------------------------------------------------------------
(* A check that waits is not run.                                          *)
LEMMA FiledNext ==
  Typed /\ Indexed /\ FiledInQueue /\ FiledInCall /\ [Next]_vars => FiledInQueue' /\ FiledInCall'
<1> SUFFICES ASSUME Typed, Indexed, FiledInQueue, FiledInCall, [Next]_vars
             PROVE  FiledInQueue' /\ FiledInCall'
  OBVIOUS
<1> USE DEF checkVars, memVars, callVars
<1>a. \A p \in DOMAIN checks : \A i \in 1 .. Len(checks[p]) : checks[p][i] \in Check
  BY DEF Typed
<1>b. \A e \in Enqueuer : enqueuing[e] # NoCheck => enqueuing[e] \in Check
  BY DEF Typed
<1>1. ASSUME NEW e \in Enqueuer, NEW c \in Check, EnqueueCall(e, c)
      PROVE  FiledInQueue' /\ FiledInCall'
  <2>1. FiledInQueue'
    BY <1>1, <1>a DEF EnqueueCall, FiledInQueue
  <2>2. ASSUME NEW f \in Enqueuer, enqueuing'[f] # NoCheck
        PROVE  Filed(enqueuing'[f], priority'[f], lastCheck'[enqueuing'[f]])
    <3>1. CASE f = e
      <4>1. enqueuing'[f] = c /\ priority'[f] = Unix(DueAt(c, lastCheck[c], now))
            /\ lastCheck' = lastCheck /\ now' = now
        BY <1>1, <3>1 DEF EnqueueCall, Typed
      <4>2. Unix(DueAt(c, lastCheck[c], now)) < MaxInt64
        BY DueBelowMax DEF Typed
      <4> QED
        BY <4>1, <4>2 DEF Filed, DueAt
    <3>2. CASE f # e
      <4>1. enqueuing'[f] = enqueuing[f] /\ priority'[f] = priority[f] /\ lastCheck' = lastCheck
        BY <1>1, <3>2 DEF EnqueueCall, Typed
      <4> QED
        BY <2>2, <4>1, <1>b DEF FiledInCall
    <3> QED
      BY <3>1, <3>2
  <2> QED
    BY <2>1, <2>2 DEF FiledInCall
<1>2. ASSUME NEW e \in Enqueuer, EnqueueInsert(e) PROVE FiledInQueue' /\ FiledInCall'
  <2> DEFINE c == enqueuing[e]
             p == priority[e]
  <2>1. lastCheck' = lastCheck /\ c \in Check /\ Filed(c, p, lastCheck[c])
    BY <1>2, InsertEffect DEF EnqueueInsert, FiledInCall
  <2>2. ASSUME NEW q \in DOMAIN checks', NEW i \in 1 .. Len(checks'[q])
        PROVE  Filed(checks'[q][i], q, lastCheck'[checks'[q][i]])
    <3>1. CASE q # p
      <4>1. /\ DOMAIN checks' = DOMAIN checks \cup {p}
            /\ \A r \in DOMAIN checks \ {p} : checks'[r] = checks[r]
        BY <1>2, InsertEffect
      <4>2. q \in DOMAIN checks /\ checks'[q] = checks[q]
        BY <3>1, <4>1
      <4> QED
        BY <2>1, <4>2, <1>a DEF FiledInQueue
    <3>2. CASE q = p
      <4>1. Len(Bucket(p)) \in Nat /\ Len(checks'[p]) = Len(Bucket(p)) + 1
        BY <1>2, InsertEffect, EmptyOrNot
      <4>2. i \in 1 .. Len(Bucket(p)) \/ i = Len(Bucket(p)) + 1
        BY <3>2, <4>1
      <4>3. CASE i \in 1 .. Len(Bucket(p))
        <5>1. p \in DOMAIN checks /\ Bucket(p) = checks[p]
          BY <4>3 DEF Bucket
        <5>2. \A j \in 1 .. Len(Bucket(p)) : checks'[p][j] = Bucket(p)[j]
          BY <1>2, InsertEffect
        <5>3. checks'[q][i] = checks[p][i] /\ i \in 1 .. Len(checks[p])
          BY <3>2, <4>3, <5>1, <5>2
        <5> QED
          BY <2>1, <3>2, <5>1, <5>3, <1>a DEF FiledInQueue
      <4>4. CASE i = Len(Bucket(p)) + 1
        <5>1. checks'[q][i] = c
          BY <1>2, <3>2, <4>4, InsertEffect
        <5> QED
          BY <2>1, <3>2, <5>1
      <4> QED
        BY <4>2, <4>3, <4>4
    <3> QED
      BY <3>1, <3>2
  <2>3. ASSUME NEW f \in Enqueuer, enqueuing'[f] # NoCheck
        PROVE  Filed(enqueuing'[f], priority'[f], lastCheck'[enqueuing'[f]])
    <3>1. f # e
      BY <1>2, <2>3 DEF EnqueueInsert, Typed
    <3>2. enqueuing'[f] = enqueuing[f] /\ priority'[f] = priority[f]
      BY <1>2, <3>1 DEF EnqueueInsert, Typed
    <3> QED
      BY <2>1, <2>3, <3>2, <1>b DEF FiledInCall
  <2> QED
    BY <2>2, <2>3 DEF FiledInQueue, FiledInCall
<1>3. CASE Dequeue
  <2>1. /\ minPriority \in DOMAIN checks /\ RemoveTop
        /\ UNCHANGED <<lastCheck, enqueuing, priority>>
    BY <1>3 DEF Dequeue, TopIsDue
  <2>2. ASSUME NEW q \in DOMAIN checks', NEW i \in 1 .. Len(checks'[q])
        PROVE  Filed(checks'[q][i], q, lastCheck'[checks'[q][i]])
    <3>1. q \in DOMAIN checks
      BY <2>1, RemoveEffect
    <3>2. CASE q # minPriority
      <4>1. checks'[q] = checks[q]
        BY <2>1, <3>1, <3>2, RemoveEffect
      <4> QED
        BY <2>1, <3>1, <4>1, <1>a DEF FiledInQueue
    <3>3. CASE q = minPriority
      <4>1. Len(checks[q]) > 1
        <5>1. Len(checks[q]) # 1
          BY <2>1, <3>3, RemoveEffect
        <5> QED
          BY <2>1, <3>3, <5>1, RemoveEffect
      <4>2. checks'[q] = Tail(checks[q]) /\ checks[q] \in Seq(Check)
            /\ Len(checks'[q]) = Len(checks[q]) - 1
        BY <2>1, <3>3, <4>1, RemoveEffect
      <4>3. checks'[q][i] = checks[q][i + 1] /\ i + 1 \in 1 .. Len(checks[q])
        BY <4>1, <4>2
      <4> QED
        BY <2>1, <3>1, <4>3, <1>a DEF FiledInQueue
    <3> QED
      BY <3>2, <3>3
  <2>3. FiledInCall'
    BY <2>1, <1>b DEF FiledInCall
  <2> QED
    BY <2>2, <2>3 DEF FiledInQueue
<1>4. CASE Flush
  <2>1. DOMAIN checks' = {} /\ UNCHANGED <<lastCheck, enqueuing, priority>>
    BY <1>4 DEF Flush
  <2> QED
    BY <2>1, <1>b DEF FiledInQueue, FiledInCall
<1>5. ASSUME NEW c \in Check, Run(c) PROVE FiledInQueue' /\ FiledInCall'
  <2>1. UNCHANGED <<checks, enqueuing, priority>> /\ \A d \in Check \ {c} : lastCheck'[d] = lastCheck[d]
    BY <1>5 DEF Run, Typed
  <2>2. \A p \in DOMAIN checks : \A i \in 1 .. Len(checks[p]) : checks[p][i] # c
    BY <1>5 DEF Run, Outside, InQueue, InBucket
  <2>3. \A e \in Enqueuer : enqueuing[e] # c
    BY <1>5 DEF Run, Outside, InCall
  <2>4. FiledInQueue'
    BY <2>1, <2>2, <1>a DEF FiledInQueue
  <2>5. FiledInCall'
    BY <2>1, <2>3, <1>b DEF FiledInCall
  <2> QED
    BY <2>4, <2>5
<1>6. CASE UNCHANGED <<lastCheck, checks, enqueuing, priority>>
  BY <1>6, <1>a, <1>b DEF FiledInQueue, FiledInCall
<1>7. CASE Tick \/ UNCHANGED vars
  BY <1>6, <1>7 DEF Tick, vars
<1> QED
  BY <1>1, <1>2, <1>3, <1>4, <1>5, <1>7 DEF Next

-----------------------------------------------------------------------------
(* Where the checks of the buckets are after an insertion, and before it.  *)
LEMMA InsertSlots ==
  ASSUME Typed, NEW e \in Enqueuer, EnqueueInsert(e)
  PROVE  LET p == priority[e]
             n == Len(Bucket(p)) + 1
         IN  /\ p \in DOMAIN checks' /\ n \in 1 .. Len(checks'[p]) /\ checks'[p][n] = enqueuing[e]
             /\ \A q \in DOMAIN checks : \A i \in 1 .. Len(checks[q]) :
                  q \in DOMAIN checks' /\ i \in 1 .. Len(checks'[q]) /\ checks'[q][i] = checks[q][i]
             /\ \A q \in DOMAIN checks' : \A i \in 1 .. Len(checks'[q]) :
                  (q = p /\ i = n) \/ (q \in DOMAIN checks /\ i \in 1 .. Len(checks[q]))
<1> DEFINE p == priority[e]
           b == Bucket(p)
<1>1. /\ Len(b) \in Nat /\ Len(checks'[p]) = Len(b) + 1 /\ checks'[p][Len(b) + 1] = enqueuing[e]
      /\ DOMAIN checks' = DOMAIN checks \cup {p}
      /\ \A q \in DOMAIN checks \ {p} : checks'[q] = checks[q]
      /\ \A i \in 1 .. Len(b) : checks'[p][i] = b[i]
  BY InsertEffect, EmptyOrNot
<1>2. p \in DOMAIN checks => b = checks[p]
  BY DEF Bucket
<1>3. p \notin DOMAIN checks => Len(b) = 0
  BY DEF Bucket
<1> HIDE DEF p, b
<1>4. p \in DOMAIN checks' /\ Len(b) + 1 \in 1 .. Len(checks'[p])
  BY <1>1
<1>5. ASSUME NEW q \in DOMAIN checks, NEW i \in 1 .. Len(checks[q])
      PROVE  q \in DOMAIN checks' /\ i \in 1 .. Len(checks'[q]) /\ checks'[q][i] = checks[q][i]
  <2>1. CASE q = p
    <3>1. i \in 1 .. Len(b) /\ b = checks[p]
      BY <1>2, <2>1
    <3> QED
      BY <1>1, <2>1, <3>1
  <2>2. CASE q # p
    BY <1>1, <2>2
  <2> QED
    BY <2>1, <2>2
<1>6. ASSUME NEW q \in DOMAIN checks', NEW i \in 1 .. Len(checks'[q])
      PROVE  (q = p /\ i = Len(b) + 1) \/ (q \in DOMAIN checks /\ i \in 1 .. Len(checks[q]))
  <2>1. CASE q = p
    <3>1. i = Len(b) + 1 \/ i \in 1 .. Len(b)
      BY <1>1, <2>1
    <3>2. i \in 1 .. Len(b) => p \in DOMAIN checks
      BY <1>1, <1>3
    <3> QED
      BY <1>2, <2>1, <3>1, <3>2
  <2>2. CASE q # p
    BY <1>1, <2>2
  <2> QED
    BY <2>1, <2>2
<1> QED
  BY <1>1, <1>4, <1>5, <1>6 DEF p, b

(* The same of a removal: the rest of the bucket moves up by one.          *)
LEMMA RemoveSlots ==
  ASSUME Typed, Indexed, minPriority \in DOMAIN checks, RemoveTop
  PROVE  /\ 1 \in 1 .. Len(checks[minPriority]) /\ Top \in Check
         /\ \A q \in DOMAIN checks' : \A i \in 1 .. Len(checks'[q]) :
              LET j == IF q = minPriority THEN i + 1 ELSE i
              IN  q \in DOMAIN checks /\ j \in 1 .. Len(checks[q]) /\ checks'[q][i] = checks[q][j]
         /\ \A q \in DOMAIN checks : \A j \in 1 .. Len(checks[q]) :
              \/ q = minPriority /\ j = 1
              \/ q \in DOMAIN checks' /\ \E i \in 1 .. Len(checks'[q]) : checks'[q][i] = checks[q][j]
<1> DEFINE m == minPriority
           b == checks[m]
<1>1. b \in Seq(Check) /\ Len(b) \in Nat /\ (Len(b) = 1 \/ Len(b) > 1)
  BY RemoveEffect
<1>2. 1 \in 1 .. Len(b) /\ b[1] \in Check
  BY <1>1
<1>3. m \notin DOMAIN checks' => Len(b) = 1
  BY RemoveEffect
<1>4. m \in DOMAIN checks' =>
        /\ Len(b) > 1 /\ Len(checks'[m]) = Len(b) - 1
        /\ \A i \in 1 .. Len(checks'[m]) : checks'[m][i] = b[i + 1]
  <2> SUFFICES ASSUME m \in DOMAIN checks'
               PROVE  /\ Len(b) > 1 /\ Len(checks'[m]) = Len(b) - 1
                      /\ \A i \in 1 .. Len(checks'[m]) : checks'[m][i] = b[i + 1]
    OBVIOUS
  <2>1. Len(b) # 1
    BY RemoveEffect
  <2>2. Len(b) > 1 /\ checks'[m] = Tail(b) /\ Len(checks'[m]) = Len(b) - 1
    BY <1>1, <2>1, RemoveEffect
  <2> QED
    BY <1>1, <2>2
<1>5. \A q : q # m => (q \in DOMAIN checks' <=> q \in DOMAIN checks)
  BY RemoveEffect
<1>6. \A q \in DOMAIN checks \ {m} : checks'[q] = checks[q]
  BY RemoveEffect
<1>7. Top = b[1]
  BY DEF Top
<1> HIDE DEF b
<1>8. ASSUME NEW q \in DOMAIN checks', NEW i \in 1 .. Len(checks'[q])
      PROVE  LET j == IF q = m THEN i + 1 ELSE i
             IN  q \in DOMAIN checks /\ j \in 1 .. Len(checks[q]) /\ checks'[q][i] = checks[q][j]
  <2>1. CASE q = m
    BY <1>1, <1>4, <2>1 DEF b
  <2>2. CASE q # m
    BY <1>5, <1>6, <2>2
  <2> QED
    BY <2>1, <2>2
<1>9. ASSUME NEW q \in DOMAIN checks, NEW j \in 1 .. Len(checks[q]), ~(q = m /\ j = 1)
      PROVE  q \in DOMAIN checks' /\ \E i \in 1 .. Len(checks'[q]) : checks'[q][i] = checks[q][j]
  <2>1. CASE q = m
    <3>0. j \in 1 .. Len(b) /\ j # 1
      BY <1>9, <2>1 DEF b
    <3>a. Len(b) # 1 /\ j \in 2 .. Len(b)
      <4>1. \A n \in Nat : \A k \in 1 .. n : k # 1 => n # 1 /\ k \in 2 .. n
        OBVIOUS
      <4> QED
        BY <1>1, <3>0, <4>1
    <3>1. j \in 2 .. Len(b) /\ m \in DOMAIN checks'
      BY <1>3, <3>a
    <3>2. j - 1 \in 1 .. Len(checks'[m]) /\ (j - 1) + 1 = j
      BY <1>1, <1>4, <3>1
    <3>3. checks'[m][j - 1] = b[j]
      BY <1>4, <3>1, <3>2
    <3> QED
      BY <2>1, <3>1, <3>2, <3>3 DEF b
  <2>2. CASE q # m
    BY <1>5, <1>6, <2>2
  <2> QED
    BY <2>1, <2>2
<1> QED
  BY <1>2, <1>7, <1>8, <1>9 DEF b

LEMMA InsertQueues ==
  ASSUME Typed, NEW e \in Enqueuer, EnqueueInsert(e)
  PROVE  \A c : InQueue(c)' <=> InQueue(c) \/ c = enqueuing[e]
<1> DEFINE p == priority[e]
           n == Len(Bucket(p)) + 1
<1>1. /\ p \in DOMAIN checks' /\ n \in 1 .. Len(checks'[p]) /\ checks'[p][n] = enqueuing[e]
      /\ \A q \in DOMAIN checks : \A i \in 1 .. Len(checks[q]) :
           q \in DOMAIN checks' /\ i \in 1 .. Len(checks'[q]) /\ checks'[q][i] = checks[q][i]
      /\ \A q \in DOMAIN checks' : \A i \in 1 .. Len(checks'[q]) :
           (q = p /\ i = n) \/ (q \in DOMAIN checks /\ i \in 1 .. Len(checks[q]))
  BY InsertSlots
<1> HIDE DEF p, n
<1> QED
  BY <1>1 DEF InQueue, InBucket

LEMMA DequeueTakes ==
  ASSUME Typed, Indexed, Once, Dequeue
  PROVE  Top \in Check /\ InQueue(Top) /\ \A c : InQueue(c)' <=> InQueue(c) /\ c # Top
<1>1. minPriority \in DOMAIN checks /\ RemoveTop
  BY DEF Dequeue, TopIsDue
<1>2. 1 \in 1 .. Len(checks[minPriority]) /\ Top \in Check
  BY <1>1, RemoveSlots
<1>3. InQueue(Top)
  BY <1>1, <1>2 DEF InQueue, InBucket, Top
<1>4. ASSUME NEW c, InQueue(c)' PROVE InQueue(c) /\ c # Top
  <2>1. PICK q \in DOMAIN checks' : \E i \in 1 .. Len(checks'[q]) : checks'[q][i] = c
    BY <1>4 DEF InQueue, InBucket
  <2>2. PICK i \in 1 .. Len(checks'[q]) : checks'[q][i] = c
    BY <2>1
  <2> DEFINE j == IF q = minPriority THEN i + 1 ELSE i
  <2>3. q \in DOMAIN checks /\ j \in 1 .. Len(checks[q]) /\ checks[q][j] = c
    BY <1>1, <2>2, RemoveSlots
  <2>4. ~(q = minPriority /\ j = 1)
    <3>1. i + 1 # 1
      BY <2>2
    <3> QED
      BY <3>1
  <2> HIDE DEF j
  <2>5. InQueue(c)
    BY <2>3 DEF InQueue, InBucket
  <2>6. c # Top
    BY <1>1, <1>2, <2>3, <2>4 DEF Once, Top
  <2> QED
    BY <2>5, <2>6
<1>5. ASSUME NEW c, InQueue(c), c # Top PROVE InQueue(c)'
  <2>1. PICK q \in DOMAIN checks : \E j \in 1 .. Len(checks[q]) : checks[q][j] = c
    BY <1>5 DEF InQueue, InBucket
  <2>2. PICK j \in 1 .. Len(checks[q]) : checks[q][j] = c
    BY <2>1
  <2>3. ~(q = minPriority /\ j = 1)
    BY <1>5, <2>2 DEF Top
  <2>4. q \in DOMAIN checks' /\ \E i \in 1 .. Len(checks'[q]) : checks'[q][i] = c
    BY <1>1, <2>2, <2>3, RemoveSlots
  <2> QED
    BY <2>4 DEF InQueue, InBucket
<1> QED
  BY <1>2, <1>3, <1>4, <1>5

-----------------------------------------------------------------------------
LEMMA OnceInit == Init => Once /\ Unexecuted /\ FoundDue
<1> SUFFICES ASSUME Init PROVE Once /\ Unexecuted /\ FoundDue
  OBVIOUS
<1>1. DOMAIN checks = {} /\ executed = {} /\ \A e \in Enqueuer : enqueuing[e] = NoCheck
  BY DEF Init
<1>2. \A c \in Check : ~InQueue(c)
  BY <1>1 DEF InQueue
<1> QED
  BY <1>1, <1>2 DEF Once, Unexecuted, FoundDue

LEMMA OnceNext == Typed /\ Indexed /\ Once /\ [Next]_vars => Once'
<1> SUFFICES ASSUME Typed, Indexed, Once, [Next]_vars PROVE Once'
  OBVIOUS
<1>1. ASSUME NEW e \in Enqueuer, NEW c \in Check, EnqueueCall(e, c) PROVE Once'
  <2>1. /\ checks' = checks /\ ~InQueue(c) /\ enqueuing[e] = NoCheck
        /\ \A f \in Enqueuer : enqueuing[f] # c
        /\ \A f \in Enqueuer : enqueuing'[f] = IF f = e THEN c ELSE enqueuing[f]
    BY <1>1 DEF EnqueueCall, Outside, InCall, Typed, memVars
  <2>2. \A d : InQueue(d)' <=> InQueue(d)
    BY <2>1 DEF InQueue, InBucket
  <2>3. \A f \in Enqueuer, d \in Check : enqueuing'[f] = d => ~InQueue(d)'
    BY <2>1, <2>2 DEF Once
  <2>4. \A f, g \in Enqueuer :
          enqueuing'[f] = enqueuing'[g] /\ enqueuing'[f] # NoCheck => f = g
    BY <2>1 DEF Once
  <2> QED
    BY <2>1, <2>3, <2>4 DEF Once
<1>2. ASSUME NEW e \in Enqueuer, EnqueueInsert(e) PROVE Once'
  <2> DEFINE p == priority[e]
             n == Len(Bucket(p)) + 1
             c == enqueuing[e]
  <2>1. /\ c # NoCheck /\ ~InQueue(c)
        /\ \A f \in Enqueuer : enqueuing'[f] = IF f = e THEN NoCheck ELSE enqueuing[f]
    BY <1>2, InsertEffect DEF EnqueueInsert, Typed, Once
  <2>2. /\ p \in DOMAIN checks' /\ n \in 1 .. Len(checks'[p]) /\ checks'[p][n] = c
        /\ \A q \in DOMAIN checks : \A i \in 1 .. Len(checks[q]) :
             q \in DOMAIN checks' /\ i \in 1 .. Len(checks'[q]) /\ checks'[q][i] = checks[q][i]
        /\ \A q \in DOMAIN checks' : \A i \in 1 .. Len(checks'[q]) :
             (q = p /\ i = n) \/ (q \in DOMAIN checks /\ i \in 1 .. Len(checks[q]))
    BY <1>2, InsertSlots
  <2>3. \A q \in DOMAIN checks : \A i \in 1 .. Len(checks[q]) : checks[q][i] # c
    BY <2>1 DEF InQueue, InBucket
  <2>4. \A d : InQueue(d)' <=> InQueue(d) \/ d = c
    BY <1>2, InsertQueues
  <2> HIDE DEF p, n, c
  <2>5. ASSUME NEW q \in DOMAIN checks', NEW r \in DOMAIN checks',
               NEW i \in 1 .. Len(checks'[q]), NEW j \in 1 .. Len(checks'[r]),
               checks'[q][i] = checks'[r][j]
        PROVE  q = r /\ i = j
    BY <2>2, <2>3, <2>5 DEF Once
  <2>6. ASSUME NEW f \in Enqueuer, enqueuing'[f] # NoCheck
        PROVE  enqueuing'[f] = enqueuing[f] /\ enqueuing[f] # c
    BY <2>1, <2>6 DEF Once, c
  <2>7. \A f \in Enqueuer, d \in Check : enqueuing'[f] = d => ~InQueue(d)'
    BY <2>4, <2>6, MemqueueAssumption DEF Once
  <2>8. \A f, g \in Enqueuer :
          enqueuing'[f] = enqueuing'[g] /\ enqueuing'[f] # NoCheck => f = g
    BY <2>6 DEF Once
  <2> QED
    BY <2>5, <2>7, <2>8 DEF Once
<1>3. CASE Dequeue
  <2>1. minPriority \in DOMAIN checks /\ RemoveTop /\ enqueuing' = enqueuing
    BY <1>3 DEF Dequeue, TopIsDue, callVars
  <2>2. \A d : InQueue(d)' => InQueue(d)
    BY <1>3, DequeueTakes
  <2>3. ASSUME NEW q \in DOMAIN checks', NEW r \in DOMAIN checks',
               NEW i \in 1 .. Len(checks'[q]), NEW j \in 1 .. Len(checks'[r]),
               checks'[q][i] = checks'[r][j]
        PROVE  q = r /\ i = j
    <3> DEFINE k == IF q = minPriority THEN i + 1 ELSE i
               l == IF r = minPriority THEN j + 1 ELSE j
    <3>1. /\ q \in DOMAIN checks /\ k \in 1 .. Len(checks[q]) /\ checks'[q][i] = checks[q][k]
          /\ r \in DOMAIN checks /\ l \in 1 .. Len(checks[r]) /\ checks'[r][j] = checks[r][l]
      BY <2>1, RemoveSlots
    <3>2. (q = r /\ k = l) => i = j
      OBVIOUS
    <3> HIDE DEF k, l
    <3>3. checks[q][k] = checks[r][l]
      BY <2>3, <3>1
    <3>4. q = r /\ k = l
      BY <3>1, <3>3 DEF Once
    <3> QED
      BY <3>2, <3>4
  <2>4. \A e \in Enqueuer, c \in Check : enqueuing'[e] = c => ~InQueue(c)'
    BY <2>1, <2>2 DEF Once
  <2> QED
    BY <2>1, <2>3, <2>4 DEF Once
<1>4. CASE Flush
  <2>1. DOMAIN checks' = {} /\ enqueuing' = enqueuing
    BY <1>4 DEF Flush, callVars
  <2> QED
    BY <2>1 DEF Once, InQueue
<1>5. CASE UNCHANGED <<checks, enqueuing>>
  BY <1>5 DEF Once, InQueue, InBucket
<1>6. ASSUME NEW c \in Check, Run(c) PROVE Once'
  BY <1>5, <1>6 DEF Run, memVars, callVars
<1>7. CASE Tick \/ UNCHANGED vars
  BY <1>5, <1>7 DEF Tick, vars, memVars, callVars
<1> QED
  BY <1>1, <1>2, <1>3, <1>4, <1>6, <1>7 DEF Next

LEMMA UnexecutedNext == Typed /\ Indexed /\ Once /\ Unexecuted /\ [Next]_vars => Unexecuted'
<1> SUFFICES ASSUME Typed, Indexed, Once, Unexecuted, [Next]_vars PROVE Unexecuted'
  OBVIOUS
<1>0. \A c \in Check : InCall(c) => \E e \in Enqueuer : enqueuing[e] = c /\ enqueuing[e] # NoCheck
  BY MemqueueAssumption DEF InCall
<1>1. ASSUME NEW e \in Enqueuer, NEW c \in Check, EnqueueCall(e, c) PROVE Unexecuted'
  <2>1. /\ checks' = checks /\ executed' = executed \ {c}
        /\ \A f \in Enqueuer : enqueuing'[f] = IF f = e THEN c ELSE enqueuing[f]
    BY <1>1 DEF EnqueueCall, Typed, memVars
  <2>2. \A d \in Check \ {c} : (InQueue(d)' => InQueue(d)) /\ (InCall(d)' => InCall(d))
    BY <2>1 DEF InQueue, InBucket, InCall
  <2> QED
    BY <2>1, <2>2 DEF Unexecuted
<1>2. ASSUME executed' = executed,
             \A c \in Check : InQueue(c)' \/ InCall(c)' => InQueue(c) \/ InCall(c)
      PROVE  Unexecuted'
  BY <1>2 DEF Unexecuted
<1>3. ASSUME NEW e \in Enqueuer, EnqueueInsert(e) PROVE Unexecuted'
  <2>1. \A c : InQueue(c)' <=> InQueue(c) \/ c = enqueuing[e]
    BY <1>3, InsertQueues
  <2>2. executed' = executed /\ \A f \in Enqueuer : enqueuing'[f] = IF f = e THEN NoCheck ELSE enqueuing[f]
    BY <1>3 DEF EnqueueInsert, Typed, checkVars
  <2>3. \A c \in Check : InCall(c)' => InCall(c)
    BY <2>2, MemqueueAssumption DEF InCall
  <2>4. InCall(enqueuing[e])
    BY DEF InCall
  <2> QED
    BY <1>2, <2>1, <2>2, <2>3, <2>4
<1>4. CASE Dequeue
  <2>1. \A c : InQueue(c)' => InQueue(c)
    BY <1>4, DequeueTakes
  <2>2. UNCHANGED <<executed, enqueuing>>
    BY <1>4 DEF Dequeue, checkVars, callVars
  <2> QED
    BY <1>2, <2>1, <2>2 DEF InCall
<1>5. CASE Flush
  <2>1. DOMAIN checks' = {} /\ UNCHANGED <<executed, enqueuing>>
    BY <1>5 DEF Flush, checkVars, callVars
  <2> QED
    BY <1>2, <2>1 DEF InCall, InQueue
<1>6. ASSUME NEW c \in Check, Run(c) PROVE Unexecuted'
  <2>1. executed' = executed \cup {c} /\ UNCHANGED <<checks, enqueuing>> /\ ~InQueue(c) /\ ~InCall(c)
    BY <1>6 DEF Run, Outside, memVars, callVars
  <2> QED
    BY <2>1 DEF Unexecuted, InQueue, InBucket, InCall
<1>7. CASE Tick \/ UNCHANGED vars
  <2>1. UNCHANGED <<executed, checks, enqueuing>>
    BY <1>7 DEF Tick, vars, checkVars, memVars, callVars
  <2> QED
    BY <1>2, <2>1 DEF InQueue, InBucket, InCall
<1> QED
  BY <1>1, <1>3, <1>4, <1>5, <1>6, <1>7 DEF Next

LEMMA FoundDueNext == Typed /\ FoundDue /\ [Next]_vars => FoundDue'
<1> SUFFICES ASSUME Typed, FoundDue, [Next]_vars PROVE FoundDue'
  OBVIOUS
<1>0. /\ now \in Nat /\ enqueuing \in [Enqueuer -> Check \cup {NoCheck}]
      /\ priority \in [Enqueuer -> Nat] /\ lastCheck \in [Check -> (0 .. MaxNow) \cup {Never}]
      /\ NoCheck \notin Check
  BY MemqueueAssumption DEF Typed
<1>1. ASSUME NEW e \in Enqueuer, NEW c \in Check, EnqueueCall(e, c) PROVE FoundDue'
  <2>1. /\ UNCHANGED <<now, lastCheck>>
        /\ \A f \in Enqueuer \ {e} : enqueuing'[f] = enqueuing[f] /\ priority'[f] = priority[f]
        /\ enqueuing'[e] = c /\ priority'[e] = Unix(DueAt(c, lastCheck[c], now))
    BY <1>0, <1>1 DEF EnqueueCall
  <2>2. lastCheck[c] = Never => priority'[e] = Unix(now) /\ Unix(now) \in Nat
    BY <1>0, <2>1, UnixSpan DEF DueAt
  <2> QED
    BY <2>1, <2>2 DEF FoundDue, Unix
<1>2. ASSUME NEW e \in Enqueuer, EnqueueInsert(e) PROVE FoundDue'
  <2>1. /\ UNCHANGED <<now, lastCheck>>
        /\ \A f \in Enqueuer \ {e} : enqueuing'[f] = enqueuing[f] /\ priority'[f] = priority[f]
        /\ enqueuing'[e] = NoCheck
    BY <1>0, <1>2 DEF EnqueueInsert, checkVars
  <2> QED
    BY <2>1 DEF FoundDue, Unix
<1>3. ASSUME NEW c \in Check, Run(c) PROVE FoundDue'
  <2>1. /\ UNCHANGED <<now, enqueuing, priority>> /\ \A e \in Enqueuer : enqueuing[e] # c
        /\ \A d \in Check \ {c} : lastCheck'[d] = lastCheck[d]
    BY <1>0, <1>3 DEF Run, Outside, InCall, callVars
  <2> QED
    BY <1>0, <2>1 DEF FoundDue, Unix
<1>4. CASE Tick
  <2>1. now' = now + 1 /\ UNCHANGED <<lastCheck, enqueuing, priority>>
    BY <1>4 DEF Tick, checkVars, callVars
  <2>2. Unix(now) \in Nat /\ Unix(now + 1) \in Nat /\ Unix(now) <= Unix(now + 1)
    BY <1>0, UnixSpan, UnixMonotone
  <2>3. ASSUME NEW e \in Enqueuer, enqueuing[e] # NoCheck, lastCheck[enqueuing[e]] = Never
        PROVE  priority[e] <= Unix(now + 1)
    BY <1>0, <2>2, <2>3 DEF FoundDue
  <2> QED
    BY <2>1, <2>3 DEF FoundDue, Unix
<1>5. CASE UNCHANGED <<now, lastCheck, enqueuing, priority>>
  BY <1>5 DEF FoundDue, Unix
<1>6. CASE Dequeue \/ Flush \/ UNCHANGED vars
  BY <1>5, <1>6 DEF Dequeue, Flush, vars, checkVars, callVars
<1> QED
  BY <1>1, <1>2, <1>3, <1>4, <1>6 DEF Next

-----------------------------------------------------------------------------
LEMMA Invariance == Spec => []IInv
<1>1. Init => IInv
  BY TypedInit, OnceInit DEF IInv, Lined
<1>2. IInv /\ [Next]_vars => IInv'
  BY TypedNext, IndexedNext, CountedNext, FiledNext, OnceNext, UnexecutedNext, FoundDueNext
     DEF IInv, Lined
<1> QED
  BY <1>1, <1>2, PTL DEF Spec

(* Every variable has its type.                                            *)
THEOREM Typing == Spec => []TypeOK
<1>1. IInv => TypeOK
  BY FS_CardinalityType DEF IInv, Lined, Typed, Counted, TypeOK
<1> QED
  BY <1>1, Invariance, PTL

(* The map of buckets, the set of priorities, the lowest priority and the  *)
(* total agree after every operation, in whatever order goroutines call.   *)
THEOREM IndexAgrees == Spec => []IndexConsistent
<1>1. IInv => IndexConsistent
  BY DEF IInv, Lined, Indexed, Counted, Slots, SlotsOf, IndexConsistent
<1> QED
  BY <1>1, Invariance, PTL

(* No check is held back by one that is not due for a second or more.      *)
THEOREM Withheld == Spec => []WithheldLessThanASecond
<1>1. IInv => WithheldLessThanASecond
  <2> SUFFICES ASSUME IInv, ~TopIsDue, NEW c \in Check, InQueue(c)
               PROVE  now < DueAt(c, lastCheck[c], now) + TicksPerSecond
    BY DEF WithheldLessThanASecond
  <2>1. /\ now \in Nat /\ \A d \in Check : lastCheck[d] \in Nat \cup {Never}
        /\ TicksPerSecond \in Nat \ {0}
    BY ScheduleAssumption, MemqueueAssumption DEF IInv, Lined, Typed
  <2>2. CASE lastCheck[c] = Never
    BY <2>1, <2>2 DEF DueAt
  <2>3. CASE lastCheck[c] # Never
    <3>1. PICK p \in DOMAIN checks : \E i \in 1 .. Len(checks[p]) : checks[p][i] = c
      BY DEF InQueue, InBucket
    <3>2. p < MaxInt64 /\ p = Unix(DueAt(c, lastCheck[c], now)) /\ p \in Nat
      BY <2>3, <3>1 DEF IInv, Lined, FiledInQueue, Filed, Typed, DueAt
    <3>3. minPriority \in DOMAIN checks /\ minPriority <= p
      <4>1. priorities \cup {MaxInt64} \in SUBSET Nat /\ p \in priorities
            /\ minPriority = Minimum(priorities \cup {MaxInt64})
            /\ priorities = DOMAIN checks
        BY <3>1, MemqueueAssumption DEF IInv, Lined, Indexed, Typed
      <4>2. minPriority \in priorities \cup {MaxInt64} /\ minPriority <= p
        BY <4>1, MinimumIs
      <4> QED
        BY <3>2, <4>1, <4>2, MemqueueAssumption
    <3>4. /\ Top \in Check /\ Filed(Top, minPriority, lastCheck[Top])
      <4>1. checks[minPriority] \in Seq(Check) /\ checks[minPriority] # <<>>
        BY <3>3 DEF IInv, Lined, Typed, Indexed
      <4>2. 1 \in 1 .. Len(checks[minPriority])
        BY <4>1, EmptyOrNot
      <4> QED
        BY <3>3, <4>1, <4>2 DEF Top, IInv, Lined, FiledInQueue
    <3>5. ~(DueAt(Top, lastCheck[Top], now) <= now)
      BY <3>3 DEF TopIsDue, IsDue
    <3>6. lastCheck[Top] # Never
      BY <2>1, <3>5 DEF DueAt
    <3>7. /\ DueAt(Top, lastCheck[Top], now) \in Nat /\ DueAt(c, lastCheck[c], now) \in Nat
          /\ Unix(DueAt(Top, lastCheck[Top], now)) <= Unix(DueAt(c, lastCheck[c], now))
      BY <2>1, <3>2, <3>3, <3>4, <3>6, DueAtType DEF Filed, DueAt
    <3>8. DueAt(Top, lastCheck[Top], now) < DueAt(c, lastCheck[c], now) + TicksPerSecond
      BY <3>7, SameSecondOrLower
    <3> QED
      BY <2>1, <3>5, <3>7, <3>8
  <2> QED
    BY <2>2, <2>3
<1> QED
  BY <1>1, Invariance, PTL

-----------------------------------------------------------------------------
(***************************************************************************)
(* The refinement of DueQueue.                                             *)
(***************************************************************************)
(* Check c is the i-th of the bucket of second p.                          *)
At(c, p, i) == p \in DOMAIN checks /\ i \in 1 .. Len(checks[p]) /\ checks[p][i] = c

InPlaces ==
  /\ \A c : InQueue(c) <=> \E p : \E i \in Nat : At(c, p, i)
  /\ \A b, c : Before(b, c) <=>
       \E p, q : \E i, j \in Nat : At(b, p, i) /\ At(c, q, j) /\ (p < q \/ (p = q /\ i < j))
  /\ DOMAIN Due = {c \in Check : InQueue(c)}

LEMMA Places == InPlaces
<1>1. \A c : InQueue(c) <=> \E p : \E i \in Nat : At(c, p, i)
  BY DEF InQueue, InBucket, At
<1>2. ASSUME NEW b, NEW c
      PROVE  Before(b, c) <=>
               \E p, q : \E i, j \in Nat : At(b, p, i) /\ At(c, q, j) /\ (p < q \/ (p = q /\ i < j))
  <2>1. ASSUME Before(b, c)
        PROVE  \E p, q : \E i, j \in Nat : At(b, p, i) /\ At(c, q, j) /\ (p < q \/ (p = q /\ i < j))
    <3>1. PICK p \in DOMAIN checks, q \in DOMAIN checks :
            \E i \in 1 .. Len(checks[p]), j \in 1 .. Len(checks[q]) :
              /\ checks[p][i] = b /\ checks[q][j] = c
              /\ p < q \/ (p = q /\ i < j)
      BY <2>1 DEF Before
    <3>2. PICK i \in 1 .. Len(checks[p]), j \in 1 .. Len(checks[q]) :
              /\ checks[p][i] = b /\ checks[q][j] = c
              /\ p < q \/ (p = q /\ i < j)
      BY <3>1
    <3>3. At(b, p, i) /\ At(c, q, j) /\ i \in Nat /\ j \in Nat
      BY <3>2 DEF At
    <3> QED
      BY <3>2, <3>3
  <2>2. ASSUME NEW p, NEW q, NEW i \in Nat, NEW j \in Nat,
               At(b, p, i), At(c, q, j), p < q \/ (p = q /\ i < j)
        PROVE  Before(b, c)
    BY <2>2 DEF Before, At
  <2> QED
    BY <2>1, <2>2
<1>3. DOMAIN Due = {c \in Check : InQueue(c)}
  BY DEF Due
<1> QED
  BY <1>1, <1>2, <1>3 DEF InPlaces

(* A check has one place, and waits for the second of its bucket.          *)
PlacesUnique ==
  /\ \A c, p, q : \A i, j \in Nat : At(c, p, i) /\ At(c, q, j) => p = q /\ i = j
  /\ \A c, p : \A i \in Nat : At(c, p, i) => p \in Nat /\ c \in Check /\ Due[c] = p

LEMMA OnePlace == Typed /\ Once => PlacesUnique
<1> SUFFICES ASSUME Typed, Once PROVE PlacesUnique
  OBVIOUS
<1>1. \A c, p, q : \A i, j \in Nat : At(c, p, i) /\ At(c, q, j) => p = q /\ i = j
  BY DEF At, Once
<1>2. ASSUME NEW c, NEW p, NEW i \in Nat, At(c, p, i) PROVE p \in Nat /\ c \in Check /\ Due[c] = p
  <2>1. p \in Nat /\ c \in Check
    BY <1>2 DEF At, Typed
  <2>2. c \in {d \in Check : InQueue(d)}
    BY <1>2, <2>1, Places DEF InPlaces
  <2>3. p \in DOMAIN checks /\ InBucket(c, p)
    BY <1>2 DEF At, InBucket
  <2>4. ASSUME NEW q \in DOMAIN checks, InBucket(c, q) PROVE q = p
    <3>1. PICK j \in 1 .. Len(checks[q]) : checks[q][j] = c
      BY <2>4 DEF InBucket
    <3>2. checks[q] \in Seq(Check) /\ Len(checks[q]) \in Nat
      BY DEF Typed
    <3>3. j \in Nat /\ At(c, q, j)
      BY <3>1, <3>2 DEF At
    <3> QED
      BY <1>1, <1>2, <3>3
  <2>5. (CHOOSE q \in DOMAIN checks : InBucket(c, q)) = p
    BY <2>3, <2>4
  <2> QED
    BY <2>1, <2>2, <2>5 DEF Due
<1> QED
  BY <1>1, <1>2 DEF PlacesUnique

(* The same after a step.                                                  *)
LEMMA OnePlaceAfter == Typed' /\ Once' => PlacesUnique'
BY OnePlace, PTL

LEMMA PlacesAfter == InPlaces'
BY Places, PTL

(* What an insertion and a removal do to the places.                       *)
LEMMA InsertPlaces ==
  ASSUME Typed, NEW e \in Enqueuer, EnqueueInsert(e)
  PROVE  LET p == priority[e]
             n == Len(Bucket(p)) + 1
         IN  /\ n \in Nat /\ \A d : \A i \in Nat : At(d, p, i) => i < n
             /\ \A d, q : \A i \in Nat :
                  At(d, q, i)' <=> At(d, q, i) \/ (d = enqueuing[e] /\ q = p /\ i = n)
<1> DEFINE p == priority[e]
           n == Len(Bucket(p)) + 1
<1>1. /\ p \in DOMAIN checks' /\ n \in 1 .. Len(checks'[p]) /\ checks'[p][n] = enqueuing[e]
      /\ \A q \in DOMAIN checks : \A i \in 1 .. Len(checks[q]) :
           q \in DOMAIN checks' /\ i \in 1 .. Len(checks'[q]) /\ checks'[q][i] = checks[q][i]
      /\ \A q \in DOMAIN checks' : \A i \in 1 .. Len(checks'[q]) :
           (q = p /\ i = n) \/ (q \in DOMAIN checks /\ i \in 1 .. Len(checks[q]))
  BY InsertSlots
<1>2. Len(Bucket(p)) \in Nat
  BY InsertEffect, EmptyOrNot
<1>3. p \in DOMAIN checks => Bucket(p) = checks[p]
  BY DEF Bucket
<1>4. \A d : \A i \in Nat : At(d, p, i) => i < n
  BY <1>2, <1>3 DEF At
<1>5. n \in Nat
  BY <1>2
<1> HIDE DEF p, n
<1>6. \A d, q : \A i \in Nat : At(d, q, i)' <=> At(d, q, i) \/ (d = enqueuing[e] /\ q = p /\ i = n)
  BY <1>1 DEF At
<1> QED
  BY <1>4, <1>5, <1>6 DEF p, n

LEMMA RemovePlaces ==
  ASSUME Typed, Indexed, Once, Dequeue
  PROVE  /\ Top \in Check /\ At(Top, minPriority, 1)
         /\ \A d, q : \A i \in Nat :
              At(d, q, i)' <=> d # Top /\ At(d, q, IF q = minPriority THEN i + 1 ELSE i)
<1>1. minPriority \in DOMAIN checks /\ RemoveTop
  BY DEF Dequeue, TopIsDue
<1>2. /\ 1 \in 1 .. Len(checks[minPriority]) /\ Top \in Check
      /\ \A q \in DOMAIN checks' : \A i \in 1 .. Len(checks'[q]) :
           LET j == IF q = minPriority THEN i + 1 ELSE i
           IN  q \in DOMAIN checks /\ j \in 1 .. Len(checks[q]) /\ checks'[q][i] = checks[q][j]
      /\ \A q \in DOMAIN checks : \A j \in 1 .. Len(checks[q]) :
           \/ q = minPriority /\ j = 1
           \/ q \in DOMAIN checks' /\ \E i \in 1 .. Len(checks'[q]) : checks'[q][i] = checks[q][j]
  BY <1>1, RemoveSlots
<1>3. At(Top, minPriority, 1)
  BY <1>1, <1>2 DEF At, Top
<1>4. PlacesUnique
  BY OnePlace
<1>5. ASSUME NEW d, NEW q, NEW i \in Nat, At(d, q, i)'
      PROVE  d # Top /\ At(d, q, IF q = minPriority THEN i + 1 ELSE i)
  <2> DEFINE j == IF q = minPriority THEN i + 1 ELSE i
  <2>1. At(d, q, j)
    BY <1>2, <1>5 DEF At
  <2>2. j \in Nat /\ ~(q = minPriority /\ j = 1)
    <3>1. i # 0 /\ i + 1 # 1 /\ i + 1 \in Nat
      BY <1>5 DEF At
    <3> QED
      BY <3>1
  <2> HIDE DEF j
  <2>3. d # Top
    BY <1>3, <1>4, <2>1, <2>2 DEF PlacesUnique
  <2> QED
    BY <2>1, <2>3 DEF j
<1>6. ASSUME NEW d, NEW q, NEW i \in Nat, d # Top,
             At(d, q, IF q = minPriority THEN i + 1 ELSE i)
      PROVE  At(d, q, i)'
  <2> DEFINE j == IF q = minPriority THEN i + 1 ELSE i
  <2>1. q \in DOMAIN checks /\ j \in 1 .. Len(checks[q]) /\ checks[q][j] = d /\ j \in Nat
    BY <1>6 DEF At
  <2> HIDE DEF j
  <2>2. ~(q = minPriority /\ j = 1)
    BY <1>6, <2>1 DEF Top
  <2>3. PICK k \in 1 .. Len(checks'[q]) : q \in DOMAIN checks' /\ checks'[q][k] = d
    BY <1>2, <2>1, <2>2
  <2> DEFINE l == IF q = minPriority THEN k + 1 ELSE k
  <2>4. l \in Nat /\ At(d, q, l)
    <3>1. l \in 1 .. Len(checks[q]) /\ checks[q][l] = d /\ q \in DOMAIN checks
      BY <1>2, <2>3
    <3> QED
      BY <2>3, <3>1 DEF At
  <2>5. j = l
    <3>1. At(d, q, j)
      BY <2>1 DEF At
    <3> HIDE DEF l
    <3> QED
      BY <1>4, <2>1, <2>4, <3>1 DEF PlacesUnique
  <2>6. i = k
    BY <2>3, <2>5 DEF j
  <2> QED
    BY <2>3, <2>6 DEF At
<1> QED
  BY <1>2, <1>3, <1>5, <1>6

-----------------------------------------------------------------------------
(* An insertion is an Enqueue of the line.                                 *)
LEMMA InsertJoins ==
  ASSUME Lined, Lined', NEW e \in Enqueuer, EnqueueInsert(e)
  PROVE  Ordered!Enqueue(enqueuing[e])
<1>a. enqueuing[e] \in Check /\ priority[e] \in Nat
  BY InsertEffect DEF Lined
<1>b. LET p == priority[e]
          n == Len(Bucket(p)) + 1
      IN  /\ n \in Nat /\ \A d : \A i \in Nat : At(d, p, i) => i < n
          /\ \A d, q : \A i \in Nat :
               At(d, q, i)' <=> At(d, q, i) \/ (d = enqueuing[e] /\ q = p /\ i = n)
  BY InsertPlaces DEF Lined
<1>0. PICK c \in Check, p \in Nat : c = enqueuing[e] /\ p = priority[e]
  BY <1>a
<1>n. PICK n \in Nat : n = Len(Bucket(priority[e])) + 1
  BY <1>b
<1>1. c # NoCheck /\ UNCHANGED <<now, lastCheck>> /\ ~InQueue(c)
  BY <1>0 DEF Lined, Once, EnqueueInsert, checkVars
<1>2. /\ \A d : \A i \in Nat : At(d, p, i) => i < n
      /\ \A d, q : \A i \in Nat : At(d, q, i)' <=> At(d, q, i) \/ (d = c /\ q = p /\ i = n)
  BY <1>0, <1>b, <1>n
<1>3. PlacesUnique /\ PlacesUnique' /\ InPlaces /\ InPlaces'
  BY OnePlace, OnePlaceAfter, Places, PlacesAfter DEF Lined
<1>4. \A d : InQueue(d)' <=> InQueue(d) \/ d = c
  BY <1>0, InsertQueues DEF Lined
<1>5. p \in Ordered!DueSeconds(c)
  <2>1. CASE lastCheck[c] = Never
    <3>1. p <= Unix(now)
      BY <1>0, <1>1, <2>1 DEF Lined, FoundDue
    <3>2. Unix(now) \in Nat
      <4>1. now \in Nat
        BY MemqueueAssumption DEF Lined, Typed
      <4> QED
        BY <4>1, UnixSpan
    <3> QED
      BY <1>1, <2>1, <3>1, <3>2 DEF Ordered!DueSeconds, Ordered!Unix, Unix
  <2>2. CASE lastCheck[c] # Never
    <3>1. p = Unix(DueAt(c, lastCheck[c], 0))
      BY <1>0, <1>1, <2>2 DEF Lined, FiledInCall, Filed
    <3> QED
      BY <2>2, <3>1 DEF Ordered!DueSeconds, Ordered!Unix, Ordered!DueAt, Unix, DueAt
  <2> QED
    BY <2>1, <2>2
<1>6. \A d \in Check : InQueue(d) =>
        \E q \in Nat : Due[d] = q /\ Due'[d] = q /\ \E i \in Nat : At(d, q, i)
  <2> SUFFICES ASSUME NEW d \in Check, InQueue(d)
               PROVE  \E q \in Nat : Due[d] = q /\ Due'[d] = q /\ \E i \in Nat : At(d, q, i)
    OBVIOUS
  <2>0. PICK q : \E i \in Nat : At(d, q, i)
    BY <1>3 DEF InPlaces
  <2>1. PICK i \in Nat : At(d, q, i)
    BY <2>0
  <2>2. q \in Nat /\ Due[d] = q
    BY <1>3, <2>1 DEF PlacesUnique
  <2>3. At(d, q, i)'
    BY <1>2, <2>1
  <2>4. Due'[d] = q
    BY <1>3, <2>3 DEF PlacesUnique
  <2> QED
    BY <2>1, <2>2, <2>4
<1>7. Due'[c] = p /\ At(c, p, n)'
  BY <1>2, <1>3 DEF PlacesUnique
<1>8. Due' = [b \in DOMAIN Due \cup {c} |-> IF b = c THEN p ELSE Due[b]]
  <2>1. DOMAIN Due' = DOMAIN Due \cup {c} /\ DOMAIN Due = {d \in Check : InQueue(d)}
    BY <1>1, <1>3, <1>4 DEF InPlaces
  <2>2. \A b \in DOMAIN Due' : Due'[b] = IF b = c THEN p ELSE Due[b]
    BY <1>6, <1>7, <2>1
  <2>3. Due' = [b \in DOMAIN Due' |-> Due'[b]]
    BY DEF Due
  <2> QED
    BY <2>1, <2>2, <2>3
<1>9. ASSUME NEW a \in Check, NEW b \in Check
      PROVE  Before(a, b)' <=> \/ Before(a, b)
                               \/ InQueue(a) /\ Due[a] <= p /\ b = c
                               \/ a = c /\ InQueue(b) /\ Due[b] > p
  <2>1. ASSUME Before(a, b)', ~Before(a, b)
        PROVE  \/ InQueue(a) /\ Due[a] <= p /\ b = c
               \/ a = c /\ InQueue(b) /\ Due[b] > p
    <3>1. PICK q, r : \E i, j \in Nat : At(a, q, i)' /\ At(b, r, j)' /\ (q < r \/ (q = r /\ i < j))
      BY <1>3, <2>1 DEF InPlaces
    <3>2. PICK i \in Nat, j \in Nat : At(a, q, i)' /\ At(b, r, j)' /\ (q < r \/ (q = r /\ i < j))
      BY <3>1
    <3>3. q \in Nat /\ r \in Nat
      BY <1>3, <3>2 DEF PlacesUnique
    <3>4. CASE At(a, q, i) /\ b = c /\ r = p /\ j = n
      <4>1. InQueue(a) /\ Due[a] = q
        BY <1>3, <3>4 DEF InPlaces, PlacesUnique
      <4> QED
        BY <3>2, <3>3, <3>4, <4>1
    <3>5. CASE a = c /\ q = p /\ i = n /\ At(b, r, j)
      <4>1. InQueue(b) /\ Due[b] = r
        BY <1>3, <3>5 DEF InPlaces, PlacesUnique
      <4>2. r = p => j < n
        BY <1>2, <3>5
      <4> QED
        BY <1>2, <3>2, <3>3, <3>5, <4>1, <4>2
    <3>6. CASE a = c /\ q = p /\ i = n /\ b = c /\ r = p /\ j = n
      BY <3>2, <3>3, <3>6
    <3>7. ~(At(a, q, i) /\ At(b, r, j))
      BY <1>3, <2>1, <3>2 DEF InPlaces
    <3> QED
      BY <1>2, <3>2, <3>4, <3>5, <3>6, <3>7
  <2>2. ASSUME Before(a, b) PROVE Before(a, b)'
    BY <1>2, <1>3, <2>2 DEF InPlaces
  <2>3. ASSUME InQueue(a), Due[a] <= p, b = c PROVE Before(a, b)'
    <3>1. PICK q \in Nat, i \in Nat : At(a, q, i) /\ Due[a] = q
      BY <1>6, <2>3
    <3>2. q = p => i < n
      BY <1>2, <3>1
    <3>3. At(a, q, i)' /\ At(b, p, n)'
      BY <1>2, <1>7, <2>3, <3>1
    <3>4. q < p \/ (q = p /\ i < n)
      BY <2>3, <3>1, <3>2
    <3> QED
      BY <1>2, <1>3, <3>3, <3>4 DEF InPlaces
  <2>4. ASSUME a = c, InQueue(b), Due[b] > p PROVE Before(a, b)'
    <3>1. PICK q \in Nat, i \in Nat : At(b, q, i) /\ Due[b] = q
      BY <1>6, <2>4
    <3>2. At(b, q, i)' /\ At(a, p, n)'
      BY <1>2, <1>7, <2>4, <3>1
    <3>3. p < q
      BY <2>4, <3>1
    <3> QED
      BY <1>2, <1>3, <3>2, <3>3 DEF InPlaces
  <2> QED
    BY <2>1, <2>2, <2>3, <2>4
<1>10. Ahead' = Ahead \cup ({b \in DOMAIN Due : Due[b] <= p} \X {c})
                      \cup ({c} \X {b \in DOMAIN Due : Due[b] > p})
  <2>1. DOMAIN Due = {d \in Check : InQueue(d)} /\ c \in Check
    BY <1>1, <1>3 DEF InPlaces
  <2>2. \A x : x \in Ahead <=> \E a, b \in Check : x = <<a, b>> /\ Before(a, b)
    BY DEF Ahead
  <2>3. \A x : x \in Ahead' <=> \E a, b \in Check : x = <<a, b>> /\ Before(a, b)'
    BY DEF Ahead
  <2> HIDE DEF Ahead
  <2> QED
    BY <1>9, <2>1, <2>2, <2>3
<1>11. Ordered!Join(c, p)
  BY <1>8, <1>10 DEF Ordered!Join, Ordered!Waiting
<1>12. c \notin DOMAIN Due
  BY <1>1, <1>3 DEF InPlaces
<1> QED
  BY <1>0, <1>1, <1>5, <1>11, <1>12 DEF Ordered!Enqueue, Ordered!Waiting

(* A removal of the first check is a Dequeue of the line's head.           *)
LEMMA DequeueLeaves ==
  ASSUME Lined, Lined', Dequeue
  PROVE  \E c \in Check : Ordered!Dequeue(c)
<1>1. /\ Top \in Check /\ At(Top, minPriority, 1)
      /\ \A d, q : \A i \in Nat :
           At(d, q, i)' <=> d # Top /\ At(d, q, IF q = minPriority THEN i + 1 ELSE i)
  BY RemovePlaces DEF Lined
<1>2. PICK c \in Check, m \in Nat :
        /\ c = Top /\ m = minPriority /\ At(c, m, 1)
        /\ \A d, q : \A i \in Nat :
             At(d, q, i)' <=> d # c /\ At(d, q, IF q = m THEN i + 1 ELSE i)
  <2>1. PICK c \in Check : c = Top
    BY <1>1
  <2>2. PICK m \in Nat : m = minPriority
    BY DEF Lined, Typed
  <2>3. At(c, m, 1)
    BY <1>1, <2>1, <2>2
  <2>4. \A d, q : \A i \in Nat :
          At(d, q, i)' <=> d # c /\ At(d, q, IF q = m THEN i + 1 ELSE i)
    BY <1>1, <2>1, <2>2
  <2> QED
    BY <2>1, <2>2, <2>3, <2>4
<1>3. At(c, m, 1)
  BY <1>2
<1>4. \A d, q : \A i \in Nat : At(d, q, i)' <=> d # c /\ At(d, q, IF q = m THEN i + 1 ELSE i)
  BY <1>2
<1>5. PlacesUnique /\ PlacesUnique' /\ InPlaces /\ InPlaces'
  BY OnePlace, OnePlaceAfter, Places, PlacesAfter DEF Lined
<1>6. UNCHANGED <<now, lastCheck>> /\ IsDue(c, lastCheck[c], now)
  BY <1>2 DEF Dequeue, TopIsDue, checkVars
<1>7. \A d, q : \A i \in Nat : At(d, q, i) => m <= q
  <2>1. m \in Nat /\ \A q \in DOMAIN checks : m <= q
    <3>1. priorities \cup {MaxInt64} \in SUBSET Nat /\ priorities = DOMAIN checks
      BY MemqueueAssumption DEF Lined, Typed, Indexed
    <3>2. \A q \in priorities \cup {MaxInt64} : Minimum(priorities \cup {MaxInt64}) <= q
      BY <3>1, MinimumIs
    <3> QED
      BY <1>2, <3>1, <3>2 DEF Lined, Indexed
  <2> QED
    BY <2>1 DEF At
(* A check that stays keeps its bucket, and moves up if that is the first. *)
<1>8. ASSUME NEW d, NEW q, NEW i \in Nat, At(d, q, i), d # c
      PROVE  \E j \in Nat : At(d, q, j)' /\ (q # m => j = i) /\ (q = m => i = j + 1)
  <2>1. CASE q = m
    <3>1. i # 1 /\ i # 0
      BY <1>3, <1>5, <1>8, <2>1 DEF At, PlacesUnique
    <3>2. PICK j \in Nat : i = j + 1
      BY <3>1
    <3> QED
      BY <1>4, <1>8, <2>1, <3>2
  <2>2. CASE q # m
    BY <1>4, <1>8, <2>2
  <2> QED
    BY <2>1, <2>2
<1>9. ASSUME NEW d, NEW q, NEW j \in Nat, At(d, q, j)'
      PROVE  d # c /\ \E i \in Nat : At(d, q, i) /\ (q # m => i = j) /\ (q = m => i = j + 1)
  <2>1. CASE q = m
    BY <1>4, <1>9, <2>1
  <2>2. CASE q # m
    BY <1>4, <1>9, <2>2
  <2> QED
    BY <2>1, <2>2
<1>10. \A d : InQueue(d)' <=> InQueue(d) /\ d # c
  BY <1>5, <1>8, <1>9 DEF InPlaces
<1>11. InQueue(c)
  BY <1>3, <1>5 DEF InPlaces
<1>12. Due' = [b \in DOMAIN Due \ {c} |-> Due[b]]
  <2>1. DOMAIN Due' = DOMAIN Due \ {c} /\ DOMAIN Due = {d \in Check : InQueue(d)}
    BY <1>5, <1>10 DEF InPlaces
  <2>2. ASSUME NEW b \in DOMAIN Due' PROVE Due'[b] = Due[b]
    <3>0. PICK q : \E i \in Nat : At(b, q, i)
      BY <1>5, <2>1 DEF InPlaces
    <3>1. PICK i \in Nat : At(b, q, i)
      BY <3>0
    <3>2. \E j \in Nat : At(b, q, j)'
      BY <1>8, <2>1, <3>1
    <3> QED
      BY <1>5, <3>1, <3>2 DEF PlacesUnique
  <2>3. Due' = [b \in DOMAIN Due' |-> Due'[b]]
    BY DEF Due
  <2> QED
    BY <2>1, <2>2, <2>3
<1>13. ASSUME NEW a \in Check, NEW b \in Check
       PROVE  Before(a, b)' <=> Before(a, b) /\ InQueue(a)' /\ InQueue(b)'
  <2>1. ASSUME Before(a, b)' PROVE Before(a, b) /\ InQueue(a)' /\ InQueue(b)'
    <3>1. PICK q, r : \E i, j \in Nat : At(a, q, i)' /\ At(b, r, j)' /\ (q < r \/ (q = r /\ i < j))
      BY <1>5, <2>1 DEF InPlaces
    <3>2. PICK i \in Nat, j \in Nat : At(a, q, i)' /\ At(b, r, j)' /\ (q < r \/ (q = r /\ i < j))
      BY <3>1
    <3>3. PICK k \in Nat : At(a, q, k) /\ (q # m => k = i) /\ (q = m => k = i + 1)
      BY <1>9, <3>2
    <3>4. PICK l \in Nat : At(b, r, l) /\ (r # m => l = j) /\ (r = m => l = j + 1)
      BY <1>9, <3>2
    <3>5. q < r \/ (q = r /\ k < l)
      BY <3>2, <3>3, <3>4
    <3>6. Before(a, b)
      BY <1>5, <3>3, <3>4, <3>5 DEF InPlaces
    <3> QED
      BY <1>5, <3>2, <3>6 DEF InPlaces
  <2>2. ASSUME Before(a, b), InQueue(a)', InQueue(b)' PROVE Before(a, b)'
    <3>1. PICK q, r : \E i, j \in Nat : At(a, q, i) /\ At(b, r, j) /\ (q < r \/ (q = r /\ i < j))
      BY <1>5, <2>2 DEF InPlaces
    <3>2. PICK i \in Nat, j \in Nat : At(a, q, i) /\ At(b, r, j) /\ (q < r \/ (q = r /\ i < j))
      BY <3>1
    <3>3. a # c /\ b # c
      BY <1>10, <2>2
    <3>4. PICK k \in Nat : At(a, q, k)' /\ (q # m => k = i) /\ (q = m => i = k + 1)
      BY <1>8, <3>2, <3>3
    <3>5. PICK l \in Nat : At(b, r, l)' /\ (r # m => l = j) /\ (r = m => j = l + 1)
      BY <1>8, <3>2, <3>3
    <3>6. q < r \/ (q = r /\ k < l)
      BY <3>2, <3>4, <3>5
    <3> QED
      BY <1>5, <3>4, <3>5, <3>6 DEF InPlaces
  <2> QED
    BY <2>1, <2>2
<1>14. Ahead' = Ahead \cap ((DOMAIN Due \ {c}) \X (DOMAIN Due \ {c}))
  <2>1. DOMAIN Due = {d \in Check : InQueue(d)}
    BY <1>5 DEF InPlaces
  <2>2. \A x : x \in Ahead <=> \E a, b \in Check : x = <<a, b>> /\ Before(a, b)
    BY DEF Ahead
  <2>3. \A x : x \in Ahead' <=> \E a, b \in Check : x = <<a, b>> /\ Before(a, b)'
    BY DEF Ahead
  <2> HIDE DEF Ahead
  <2> QED
    BY <1>10, <1>13, <2>1, <2>2, <2>3
<1>15. \A b \in DOMAIN Due \ {c} : <<c, b>> \in Ahead
  <2> SUFFICES ASSUME NEW b \in Check, InQueue(b), b # c PROVE Before(c, b)
    BY <1>5 DEF InPlaces, Ahead
  <2>0. PICK q : \E i \in Nat : At(b, q, i)
    BY <1>5 DEF InPlaces
  <2>1. PICK i \in Nat : At(b, q, i)
    BY <2>0
  <2>2. m <= q /\ q \in Nat
    BY <1>5, <1>7, <2>1 DEF PlacesUnique
  <2>3. q = m => 1 < i
    <3>1. i # 0 /\ (q = m => i # 1)
      BY <1>3, <1>5, <2>1 DEF At
    <3> QED
      BY <3>1
  <2>4. m < q \/ (m = q /\ 1 < i)
    BY <2>2, <2>3
  <2> QED
    BY <1>3, <1>5, <2>1, <2>4 DEF InPlaces
<1>16. c \in DOMAIN Due
  BY <1>5, <1>11 DEF InPlaces
<1>17. Ordered!IsDue(c, lastCheck[c], now)
  BY <1>6 DEF IsDue, DueAt, Ordered!IsDue, Ordered!DueAt
<1>18. Ordered!Dequeue(c)
  BY <1>6, <1>12, <1>14, <1>15, <1>16, <1>17 DEF Ordered!Dequeue, Ordered!Head, Ordered!Waiting
<1> QED
  BY <1>18

(* The line is empty at first, and is flushed with the queue.              *)
LEMMA EmptyLine ==
  ASSUME DOMAIN checks = {}
  PROVE  Due = [c \in {} |-> 0] /\ Ahead = {}
<1>1. \A c \in Check : ~InQueue(c)
  BY DEF InQueue
<1>2. \A b, c \in Check : ~Before(b, c)
  BY DEF Before
<1> QED
  BY <1>1, <1>2 DEF Due, Ahead

LEMMA EmptyLineAfter == (DOMAIN checks = {})' => (Due = [c \in {} |-> 0] /\ Ahead = {})'
<1>1. DOMAIN checks = {} => Due = [c \in {} |-> 0] /\ Ahead = {}
  BY EmptyLine
<1> QED
  BY <1>1, PTL

LEMMA LineUnchanged == UNCHANGED checks => UNCHANGED <<Due, Ahead>>
BY DEF Due, Ahead, Before, InQueue, InBucket

LEMMA ImplementsInit == Init => Ordered!Init
<1> SUFFICES ASSUME Init PROVE Ordered!Init
  OBVIOUS
<1>1. DOMAIN checks = {}
  BY DEF Init
<1>2. Due = [c \in {} |-> 0] /\ Ahead = {}
  BY <1>1, EmptyLine
<1> QED
  BY <1>2 DEF Init, Ordered!Init

LEMMA ImplementsNext ==
  Lined /\ Lined' /\ [Next]_vars => [Ordered!Next]_(Ordered!lineVars)
<1> SUFFICES ASSUME Lined, Lined', [Next]_vars PROVE [Ordered!Next]_(Ordered!lineVars)
  OBVIOUS
<1>1. CASE \E e \in Enqueuer, c \in Check : EnqueueCall(e, c)
  <2>1. UNCHANGED <<now, lastCheck, checks>>
    BY <1>1 DEF EnqueueCall, memVars
  <2> QED
    BY <2>1, LineUnchanged DEF Ordered!lineVars
<1>2. CASE \E e \in Enqueuer : EnqueueInsert(e)
  <2>1. PICK e \in Enqueuer : EnqueueInsert(e)
    BY <1>2
  <2>2. enqueuing[e] \in Check /\ Ordered!Enqueue(enqueuing[e])
    BY <2>1, InsertEffect, InsertJoins DEF Lined
  <2> QED
    BY <2>2 DEF Ordered!Next
<1>3. CASE Dequeue
  BY <1>3, DequeueLeaves DEF Ordered!Next
<1>4. CASE Flush
  <2>1. (DOMAIN checks = {})' /\ UNCHANGED <<now, lastCheck>>
    BY <1>4 DEF Flush, checkVars
  <2>2. Ordered!Flush
    BY <2>1, EmptyLineAfter DEF Ordered!Flush
  <2> QED
    BY <2>2 DEF Ordered!Next
<1>5. CASE \E c \in Check : Run(c)
  <2>1. PICK c \in Check : Run(c)
    BY <1>5
  <2>2. ~InQueue(c) /\ UNCHANGED <<now, checks>>
        /\ lastCheck' = [lastCheck EXCEPT ![c] = now]
    BY <2>1 DEF Run, Outside, memVars
  <2>3. c \notin DOMAIN Due
    BY <2>2, Places DEF InPlaces
  <2>4. Ordered!Run(c)
    BY <2>2, <2>3, LineUnchanged DEF Ordered!Run, Ordered!Waiting
  <2> QED
    BY <2>4 DEF Ordered!Next
<1>6. CASE Tick
  <2>1. now' > now /\ UNCHANGED <<lastCheck, checks>>
    BY <1>6, MemqueueAssumption DEF Tick, checkVars, memVars, Lined, Typed
  <2>2. Ordered!Tick
    BY <2>1, LineUnchanged DEF Ordered!Tick
  <2> QED
    BY <2>2 DEF Ordered!Next
<1>7. CASE UNCHANGED vars
  <2>1. UNCHANGED <<now, lastCheck, checks>>
    BY <1>7 DEF vars, checkVars, memVars
  <2> QED
    BY <2>1, LineUnchanged DEF Ordered!lineVars
<1> QED
  BY <1>1, <1>2, <1>3, <1>4, <1>5, <1>6, <1>7 DEF Next

(* The queue is a line ordered by the second each check is due in, those   *)
(* of one second in the order they came, that only its first check leaves, *)
(* and only when due; whatever the order in which goroutines enqueue.      *)
THEOREM Implementation == Spec => ImplementsDueQueue
<1>1. Init => Ordered!Init
  BY ImplementsInit
<1>2. IInv /\ IInv' /\ [Next]_vars => [Ordered!Next]_(Ordered!lineVars)
  BY ImplementsNext DEF IInv
<1> QED
  BY <1>1, <1>2, Invariance, PTL DEF Spec, ImplementsDueQueue, Ordered!Spec
=============================================================================
