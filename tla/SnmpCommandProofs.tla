------------------------- MODULE SnmpCommandProofs -------------------------
(***************************************************************************)
(* Proofs about modules SnmpCommand and Counter, for any monitors and      *)
(* thresholds, any interval, any clock resolution and counters of any      *)
(* widths of which the greater is at least twice the smaller.              *)
(***************************************************************************)
EXTENDS SnmpCommand, TLAPS

Counters == {m \in Monitor : IsCounter(m)}

ObjectType == [oid : Monitor \cup {Foreign}, null : BOOLEAN, value : Int]
MetricType == [value : Nat, count : Nat, began : Nat]

CounterMetrics(f) == DOMAIN f \subseteq Counters /\ \A m \in DOMAIN f : f[m] \in MetricType

Typed ==
  /\ chk \in Check /\ now \in Nat
  /\ lastCheck \in Nat \cup {Never} /\ lastBegan \in Nat \cup {NoTime}
  /\ CounterMetrics(lastMetrics) /\ CounterMetrics(metrics)
  /\ counter \in [Counters -> Nat]
  /\ pc \in {"idle", "get", "object", "publish", "panicked"}
  /\ currentTime \in Nat \cup {NoTime}
  /\ offset \in Nat
  /\ objects \in Seq(ObjectType)
  /\ resultState \in {"UNKNOWN", "OK", "WARN", "CRIT"}
  /\ judged \subseteq Monitor \X {"OK", "WARN", "CRIT"}

(* An execution begins no earlier than the check is due, and nothing of it *)
(* is left when the next one begins.                                       *)
Running ==
  /\ pc \in {"get", "object", "publish"} =>
       /\ currentTime \in Nat /\ currentTime <= now
       /\ lastCheck # Never => lastCheck + IntervalSeconds[chk] * TicksPerSecond <= currentTime
  /\ pc \in {"idle", "publish"} => objects = <<>>
  /\ pc = "idle" => DOMAIN metrics = {}

(* What a counter that can show size values shows when it has counted n.   *)
Rest(n, size) == n % size

(* An object of a counter has the value that the counter has now.          *)
Shows(o) == o.oid # Foreign /\ IsCounter(o.oid) => o.value = Rest(counter[o.oid], Size(o.oid))

Faithful == \A i \in 1 .. Len(objects) : Shows(objects[i])

(* The new metrics are of this execution; the last ones are so recent that *)
(* no counter has been all the way round since.                            *)
Fresh ==
  \A m \in DOMAIN metrics :
    /\ metrics[m].count = counter[m]
    /\ metrics[m].value = Rest(metrics[m].count, Size(m))
    /\ metrics[m].began = currentTime

Recent ==
  \A m \in DOMAIN lastMetrics :
    /\ lastMetrics[m].value = Rest(lastMetrics[m].count, Size(m))
    /\ lastMetrics[m].count <= counter[m]
    /\ counter[m] - lastMetrics[m].count < Size32

(* The inductive invariant.                                                *)
IInv ==
  /\ Typed /\ Running /\ Faithful /\ Fresh /\ Recent
  /\ ResultIsWorst /\ BaselineFromLastExecution /\ PanicsOnlyWithoutInterval

-----------------------------------------------------------------------------
(***************************************************************************)
(* Ticks and seconds (module Schedule).                                    *)
(***************************************************************************)
LEMMA Division ==
  ASSUME NEW t \in Nat, NEW k \in Nat \ {0}
  PROVE  t \div k \in Nat /\ (t \div k) * k <= t /\ t < (t \div k) * k + k
OBVIOUS

LEMMA ProductMonotone ==
  ASSUME NEW a \in Nat, NEW b \in Nat, NEW k \in Nat, a <= b
  PROVE  a * k <= b * k /\ a * k \in Nat
OBVIOUS

LEMMA UnixSpan ==
  ASSUME NEW t \in Nat
  PROVE  /\ Unix(t) \in Nat
         /\ Unix(t) * TicksPerSecond <= t
         /\ t < Unix(t) * TicksPerSecond + TicksPerSecond
BY Division, ScheduleAssumption DEF Unix

LEMMA SameSecondOrLower ==
  ASSUME NEW t \in Nat, NEW u \in Nat, Unix(t) <= Unix(u)
  PROVE  t < u + TicksPerSecond
<1>1. Unix(t) \in Nat /\ Unix(u) \in Nat /\ TicksPerSecond \in Nat \ {0}
  BY UnixSpan, ScheduleAssumption
<1>2. Unix(t) * TicksPerSecond <= Unix(u) * TicksPerSecond
      /\ Unix(t) * TicksPerSecond \in Nat /\ Unix(u) * TicksPerSecond \in Nat
  BY <1>1, ProductMonotone
<1>3. /\ t < Unix(t) * TicksPerSecond + TicksPerSecond
      /\ Unix(u) * TicksPerSecond <= u
  BY UnixSpan
<1> QED
  BY <1>1, <1>2, <1>3

LEMMA DueAtType ==
  ASSUME NEW c \in Check, NEW last \in Nat \cup {Never}, NEW t \in Nat
  PROVE  /\ DueAt(c, last, t) \in Nat
         /\ last # Never => DueAt(c, last, t) = last + IntervalSeconds[c] * TicksPerSecond
         /\ IntervalSeconds[c] * TicksPerSecond \in Nat
<1>1. IntervalSeconds[c] * TicksPerSecond \in Nat
  BY ScheduleAssumption, ProductMonotone
<1> QED
  BY <1>1, ScheduleAssumption DEF DueAt

-----------------------------------------------------------------------------
(***************************************************************************)
(* The difference of two readings of a counter.                            *)
(***************************************************************************)
LEMMA Remainder ==
  ASSUME NEW t \in Nat, NEW k \in Nat \ {0}
  PROVE  Rest(t, k) \in 0 .. k - 1 /\ \E q \in Nat : q * k + Rest(t, k) = t
<1>1. Rest(t, k) = t - (t \div k) * k
  BY DEF Rest
<1>2. Rest(t, k) \in 0 .. k - 1
  BY DEF Rest
<1>3. t \div k \in Nat /\ (t \div k) * k \in Nat
  BY Division, ProductMonotone
<1> DEFINE q == t \div k
<1>4. q \in Nat /\ q * k + Rest(t, k) = t
  BY <1>1, <1>2, <1>3
<1> QED
  <2> HIDE DEF q
  <2> QED
    BY <1>2, <1>4

(* Two numbers less than k apart differ as their remainders do, or by k    *)
(* more when the remainder has become smaller.                             *)
LEMMA RemaindersApart ==
  ASSUME NEW t \in Nat, NEW u \in Nat, NEW k \in Nat \ {0}, t <= u, u - t < k
  PROVE  LET a == Rest(t, k)
             b == Rest(u, k)
         IN  u - t = IF b < a THEN b - a + k ELSE b - a
<1> DEFINE a == Rest(t, k)
           b == Rest(u, k)
<1>1. PICK p \in Nat : p * k + a = t
  BY Remainder
<1>2. PICK q \in Nat : q * k + b = u
  BY Remainder
<1>3. a \in 0 .. k - 1 /\ b \in 0 .. k - 1
  BY Remainder
<1> SUFFICES u - t = IF b < a THEN b - a + k ELSE b - a
  OBVIOUS
<1> HIDE DEF a, b
<1>4. /\ p + 2 <= q => p * k + 2 * k <= q * k
      /\ q + 1 <= p => q * k + k <= p * k
      /\ q = p + 1 => q * k = p * k + k
  OBVIOUS
<1>5. p * k \in Nat /\ q * k \in Nat
  BY ProductMonotone
<1>6. ~(p + 2 <= q) /\ ~(q + 1 <= p)
  BY <1>1, <1>2, <1>3, <1>4, <1>5
<1>7. q = p => u - t = b - a
  BY <1>1, <1>2, <1>3, <1>5
<1>8. q = p + 1 => u - t = b - a + k /\ b < a
  BY <1>1, <1>2, <1>3, <1>4, <1>5
<1>9. q = p => ~(b < a)
  BY <1>3, <1>7
<1> QED
  BY <1>3, <1>6, <1>7, <1>8, <1>9

(* CalculateCounterDiff of two readings of a 64 bit counter, between which *)
(* it counted less than a 32 bit counter can.                              *)
LEMMA Diff64 ==
  ASSUME NEW t \in Nat, NEW u \in Nat, t <= u, u - t < Size32
  PROVE  LET diff == CalculateCounterDiff(Rest(t, Size64), Rest(u, Size64))
         IN  IF Rest(u, Size64) < Rest(t, Size64) THEN diff = u - t - 1 ELSE diff = u - t
<1>1. Size64 \in Nat \ {0} /\ Size32 \in Nat \ {0} /\ 2 * Size32 <= Size64
  BY CounterAssumption
<1>2. Rest(t, Size64) \in 0 .. Size64 - 1 /\ Rest(u, Size64) \in 0 .. Size64 - 1
  BY <1>1, Remainder
<1>3. u - t < Size64
  BY <1>1
<1> DEFINE a == Rest(t, Size64)
           b == Rest(u, Size64)
<1>4. a \in Nat /\ b \in Nat /\ a < Size64
  BY <1>1, <1>2
<1>5. u - t = IF b < a THEN b - a + Size64 ELSE b - a
  BY <1>1, <1>3, RemaindersApart
<1>6. IF b < a THEN CalculateCounterDiff(a, b) = u - t - 1 ELSE CalculateCounterDiff(a, b) = u - t
  <2> HIDE DEF a, b
  <2>1. b < a => a >= Size32 - 1
    BY <1>1, <1>4, <1>5
  <2> QED
    BY <2>1, <1>1, <1>4, <1>5 DEF CalculateCounterDiff, MaxCounter32, MaxCounter64
<1> QED
  BY <1>6

(* The same of a 32 bit counter, unless it was read at its maximum.        *)
LEMMA Diff32 ==
  ASSUME NEW t \in Nat, NEW u \in Nat, t <= u, u - t < Size32, Rest(t, Size32) # MaxCounter32
  PROVE  LET diff == CalculateCounterDiff(Rest(t, Size32), Rest(u, Size32))
         IN  IF Rest(u, Size32) < Rest(t, Size32) THEN diff = u - t - 1 ELSE diff = u - t
<1>1. Size32 \in Nat \ {0}
  BY CounterAssumption
<1>2. Rest(t, Size32) \in 0 .. Size32 - 1 /\ Rest(u, Size32) \in 0 .. Size32 - 1
  BY <1>1, Remainder
<1>3. u - t < Size32
  BY <1>1
<1> DEFINE a == Rest(t, Size32)
           b == Rest(u, Size32)
<1>4. a \in Nat /\ b \in Nat /\ a < Size32 - 1
  BY <1>1, <1>2 DEF MaxCounter32
<1>5. u - t = IF b < a THEN b - a + Size32 ELSE b - a
  BY <1>1, <1>3, RemaindersApart
<1>6. IF b < a THEN CalculateCounterDiff(a, b) = u - t - 1 ELSE CalculateCounterDiff(a, b) = u - t
  <2> HIDE DEF a, b
  <2> QED
    BY <1>1, <1>4, <1>5 DEF CalculateCounterDiff, MaxCounter32
<1> QED
  BY <1>6

-----------------------------------------------------------------------------
(***************************************************************************)
(* Facts about the monitors, and the types.                                *)
(***************************************************************************)
LEMMA Sizes ==
  ASSUME NEW m \in Monitor
  PROVE  Size(m) \in Nat \ {0} /\ Size32 \in Nat \ {0} /\ Size32 <= Size(m)
BY CounterAssumption DEF Size

LEMMA ChunkType ==
  ASSUME offset \in Nat, offset < Len(Monitors)
  PROVE  Chunk \in Seq(Monitor) /\ Len(Chunk) \in Nat
<1>1. Monitors \in Seq(Monitor) /\ Len(Monitors) \in Nat /\ MaxOids \in Nat \ {0}
  BY SnmpCommandAssumption
<1> DEFINE last == offset + (IF Len(Monitors) - offset < MaxOids THEN Len(Monitors) - offset ELSE MaxOids)
<1>2. last \in offset + 1 .. Len(Monitors) /\ Chunk = SubSeq(Monitors, offset + 1, last)
  BY <1>1 DEF Chunk
<1> HIDE DEF last
<1>3. \A i \in offset + 1 .. last : Monitors[i] \in Monitor
  BY <1>1, <1>2
<1> QED
  BY <1>1, <1>2, <1>3

(* The objects of a packet: what was asked for is answered as it is.       *)
LEMMA PacketType ==
  ASSUME Typed, offset < Len(Monitors), NEW level \in GaugeValue, NEW packet \in Packets(level)
  PROVE  packet \in Seq(ObjectType) /\ \A i \in 1 .. Len(packet) : Shows(packet[i])
<1>1. Chunk \in Seq(Monitor) /\ Len(Chunk) \in Nat
  BY ChunkType DEF Typed
<1>2. ASSUME NEW m \in Monitor
      PROVE  Value(m, level) \in Int /\ (IsCounter(m) => Value(m, level) = Rest(counter[m], Size(m)))
  <2>1. CASE IsCounter(m)
    <3>1. counter[m] \in Nat /\ Value(m, level) = Rest(counter[m], Size(m))
      BY <2>1 DEF Typed, Counters, Value, Rest
    <3>2. Rest(counter[m], Size(m)) \in 0 .. Size(m) - 1 /\ Size(m) \in Nat
      BY <3>1, Sizes, Remainder
    <3> QED
      BY <3>1, <3>2
  <2>2. CASE ~IsCounter(m)
    BY <2>2, SnmpCommandAssumption DEF Value
  <2> QED
    BY <2>1, <2>2
<1> DEFINE asAsked == [i \in 1 .. Len(Chunk) |->
                         [oid |-> Chunk[i], null |-> FALSE, value |-> Value(Chunk[i], level)]]
<1>3. ASSUME NEW i \in 1 .. Len(Chunk)
      PROVE  asAsked[i] \in ObjectType /\ Shows(asAsked[i])
  <2>1. Chunk[i] \in Monitor
    BY <1>1
  <2>2. asAsked[i] = [oid |-> Chunk[i], null |-> FALSE, value |-> Value(Chunk[i], level)]
    OBVIOUS
  <2> HIDE DEF asAsked
  <2> QED
    BY <2>1, <2>2, <1>2 DEF ObjectType, Shows
<1>4. asAsked \in Seq(ObjectType) /\ DOMAIN asAsked = 1 .. Len(Chunk) /\ Len(asAsked) = Len(Chunk)
  <2>1. asAsked \in [1 .. Len(Chunk) -> ObjectType]
    BY <1>3
  <2> HIDE DEF asAsked
  <2> QED
    BY <2>1, <1>1
<1>5. \/ packet = asAsked \/ packet = <<>>
      \/ \E i \in 1 .. Len(Chunk) : packet = [asAsked EXCEPT ![i].null = TRUE]
      \/ \E i \in 1 .. Len(Chunk) : packet = [asAsked EXCEPT ![i].oid = Foreign]
  BY DEF Packets
<1> HIDE DEF asAsked
<1>6. CASE packet = asAsked
  BY <1>6, <1>3, <1>4
<1>9. CASE packet = <<>>
  BY <1>9
<1>7. ASSUME NEW i \in 1 .. Len(Chunk), packet = [asAsked EXCEPT ![i].null = TRUE]
      PROVE  packet \in Seq(ObjectType) /\ \A j \in 1 .. Len(packet) : Shows(packet[j])
  <2>1. \A j \in 1 .. Len(Chunk) : packet[j] = IF j = i THEN [asAsked[i] EXCEPT !.null = TRUE] ELSE asAsked[j]
    BY <1>4, <1>7
  <2>2. [asAsked[i] EXCEPT !.null = TRUE] \in ObjectType /\ Shows([asAsked[i] EXCEPT !.null = TRUE])
    BY <1>3 DEF ObjectType, Shows
  <2>3. packet \in Seq(ObjectType) /\ Len(packet) = Len(Chunk)
    <3>1. packet \in [1 .. Len(Chunk) -> ObjectType]
      BY <1>3, <1>4, <1>7, <2>1, <2>2
    <3> QED
      BY <3>1, <1>1
  <2> QED
    BY <2>1, <2>2, <2>3, <1>3
<1>8. ASSUME NEW i \in 1 .. Len(Chunk), packet = [asAsked EXCEPT ![i].oid = Foreign]
      PROVE  packet \in Seq(ObjectType) /\ \A j \in 1 .. Len(packet) : Shows(packet[j])
  <2>1. \A j \in 1 .. Len(Chunk) : packet[j] = IF j = i THEN [asAsked[i] EXCEPT !.oid = Foreign] ELSE asAsked[j]
    BY <1>4, <1>8
  <2>2. [asAsked[i] EXCEPT !.oid = Foreign] \in ObjectType /\ Shows([asAsked[i] EXCEPT !.oid = Foreign])
    BY <1>3 DEF ObjectType, Shows
  <2>3. packet \in Seq(ObjectType) /\ Len(packet) = Len(Chunk)
    <3>1. packet \in [1 .. Len(Chunk) -> ObjectType]
      BY <1>3, <1>4, <1>8, <2>1, <2>2
    <3> QED
      BY <3>1, <1>1
  <2> QED
    BY <2>1, <2>2, <2>3, <1>3
<1> QED
  BY <1>5, <1>6, <1>7, <1>8, <1>9

-----------------------------------------------------------------------------
LEMMA StateOfType == ASSUME NEW m, NEW v PROVE StateOf(m, v) \in {"OK", "WARN", "CRIT"}
BY DEF StateOf

LEMMA ObjectAtHead ==
  ASSUME Typed, AtObject
  PROVE  /\ Object \in ObjectType /\ Object = objects[1] /\ Len(objects) \in Nat /\ Len(objects) > 0
         /\ Tail(objects) \in Seq(ObjectType) /\ Len(Tail(objects)) = Len(objects) - 1
         /\ \A i \in 1 .. Len(Tail(objects)) : Tail(objects)[i] = objects[i + 1]
BY DEF Typed, AtObject, Object

(* The value of a counter's object is the remainder of a natural.          *)
LEMMA CounterObject ==
  ASSUME Typed, Faithful, AtObject, Object.oid # Foreign, IsCounter(Object.oid)
  PROVE  /\ Object.oid \in Counters /\ counter[Object.oid] \in Nat
         /\ Object.value = Rest(counter[Object.oid], Size(Object.oid)) /\ Object.value \in Nat
<1>1. Object \in ObjectType /\ Object = objects[1] /\ 1 \in 1 .. Len(objects)
  BY ObjectAtHead
<1>2. Object.oid \in Counters /\ Shows(Object)
  BY <1>1, Zenon DEF ObjectType, Counters, Faithful
<1>3. counter[Object.oid] \in Nat /\ Object.oid \in Monitor
  BY <1>2 DEF Typed, Counters
<1>4. Object.value = Rest(counter[Object.oid], Size(Object.oid))
  BY <1>2 DEF Shows
<1>5. Rest(counter[Object.oid], Size(Object.oid)) \in 0 .. Size(Object.oid) - 1 /\ Size(Object.oid) \in Nat
  BY <1>3, Sizes, Remainder
<1> QED
  BY <1>2, <1>3, <1>4, <1>5

LEMMA InitInv == Init => IInv
<1> SUFFICES ASSUME Init PROVE IInv
  OBVIOUS
<1>1. CounterMetrics(lastMetrics) /\ CounterMetrics(metrics)
      /\ DOMAIN lastMetrics = {} /\ DOMAIN metrics = {}
  BY DEF Init, CounterMetrics
<1>2. counter \in [Counters -> Nat]
  BY DEF Init, Counters
<1>3. Typed
  BY <1>1, <1>2 DEF Init, Typed
<1> QED
  BY <1>1, <1>3 DEF Init, IInv, Running, Faithful, Fresh, Recent, ResultIsWorst,
     BaselineFromLastExecution, PanicsOnlyWithoutInterval

-----------------------------------------------------------------------------
(***************************************************************************)
(* The steps keep the types.                                               *)
(***************************************************************************)
LEMMA JudgeType ==
  ASSUME Typed, NEW m \in Monitor, NEW v, Judge(m, v)
  PROVE  /\ judged' \subseteq Monitor \X {"OK", "WARN", "CRIT"}
         /\ resultState' \in {"UNKNOWN", "OK", "WARN", "CRIT"}
BY StateOfType DEF Typed, Judge

LEMMA AddMetricType ==
  ASSUME Typed, Faithful, AtObject, Object.oid # Foreign, IsCounter(Object.oid), currentTime \in Nat,
         AddMetric(Object.oid)
  PROVE  CounterMetrics(metrics)'
<1>1. Object.oid \in Counters /\ Metric(Object.oid) \in MetricType
  BY CounterObject DEF Metric, MetricType
<1> QED
  BY <1>1 DEF AddMetric, Typed, CounterMetrics

LEMMA TypedNext == IInv /\ [Next]_vars => Typed'
<1> SUFFICES ASSUME IInv, [Next]_vars PROVE Typed'
  OBVIOUS
<1>i. Typed /\ Running /\ Faithful
  BY DEF IInv
<1>1. CASE Tick
  BY <1>1, <1>i DEF Tick, checkVars, hostVars, runVars, Typed
<1>2. ASSUME NEW steps \in [DOMAIN counter -> 0 .. Size32 - 1], Begin(steps)
      PROVE  Typed'
  <2>1. counter' \in [Counters -> Nat]
    BY <1>2, <1>i, CounterAssumption DEF Begin, Advance, Typed
  <2> QED
    BY <1>2, <1>i, <2>1 DEF Begin, checkVars, Typed
<1>3. CASE GetChunk
  <2>0. PICK level \in GaugeValue : \E packet \in Packets(level) : objects' = objects \o packet
    BY <1>3 DEF GetChunk
  <2>1. PICK packet \in Packets(level) : objects' = objects \o packet
    BY <2>0
  <2>2. packet \in Seq(ObjectType)
    BY <1>3, <1>i, PacketType DEF GetChunk
  <2>3. objects' \in Seq(ObjectType)
    BY <2>1, <2>2, <1>i DEF Typed
  <2>4. offset' \in Nat
    BY <1>3, <1>i, ChunkType DEF GetChunk, Typed
  <2> QED
    BY <1>3, <1>i, <2>3, <2>4 DEF GetChunk, checkVars, hostVars, Typed
<1>4. CASE GetReturns
  BY <1>4, <1>i DEF GetReturns, checkVars, hostVars, Typed
<1>5. CASE Unknown
  <2>1. CounterMetrics(metrics)'
    BY <1>5 DEF Unknown, CounterMetrics
  <2> QED
    BY <1>5, <1>i, <2>1 DEF Unknown, checkVars, hostVars, Typed
<1>6. CASE ObjectNull
  BY <1>6, <1>i, ObjectAtHead DEF ObjectNull, checkVars, hostVars, Typed
<1>7. CASE ObjectCounter
  <2> DEFINE m == Object.oid
  <2>1. AtObject /\ m # Foreign /\ IsCounter(m) /\ AddMetric(m) /\ objects' = Tail(objects)
        /\ UNCHANGED <<now, checkVars, hostVars, pc, currentTime, offset>>
    BY <1>7 DEF ObjectCounter
  <2>2. CounterMetrics(metrics)'
    BY <2>1, <1>i, AddMetricType DEF Running, AtObject
  <2>3. m \in Monitor
    BY <2>1, <1>i, CounterObject DEF Counters
  <2>4. /\ judged' \subseteq Monitor \X {"OK", "WARN", "CRIT"}
        /\ resultState' \in {"UNKNOWN", "OK", "WARN", "CRIT"}
    <3>1. Judge(m, Diff(m) \div Elapsed) \/ UNCHANGED <<resultState, resultReason, judged>>
      BY <1>7, Zenon DEF ObjectCounter
    <3> QED
      BY <3>1, <2>3, <1>i, JudgeType DEF Typed
  <2> QED
    BY <2>1, <2>2, <2>4, <1>i, ObjectAtHead DEF checkVars, hostVars, Typed
<1>8. CASE ObjectPanic
  BY <1>8, <1>i DEF ObjectPanic, checkVars, hostVars, runVars, Typed
<1>9. CASE ObjectGauge
  <2>1. AtObject /\ Object.oid # Foreign /\ Judge(Object.oid, Object.value) /\ objects' = Tail(objects)
        /\ UNCHANGED <<now, checkVars, hostVars, pc, currentTime, offset, metrics>>
    BY <1>9 DEF ObjectGauge
  <2>2. Object.oid \in Monitor
    BY <2>1, <1>i, ObjectAtHead DEF ObjectType
  <2> QED
    BY <2>1, <2>2, <1>i, ObjectAtHead, JudgeType DEF checkVars, hostVars, Typed
<1>10. CASE ObjectsDone
  BY <1>10, <1>i DEF ObjectsDone, checkVars, hostVars, runVars, Typed
<1>11. CASE Publish
  <2>1. CounterMetrics(metrics)' /\ CounterMetrics(lastMetrics)'
    BY <1>11, <1>i DEF Publish, CounterMetrics, Typed
  <2> QED
    BY <1>11, <1>i, <2>1 DEF Publish, hostVars, Typed
<1>12. CASE UNCHANGED vars
  BY <1>12, <1>i DEF vars, checkVars, hostVars, runVars, Typed
<1> QED
  BY <1>1, <1>2, <1>3, <1>4, <1>5, <1>6, <1>7, <1>8, <1>9, <1>10, <1>11, <1>12
     DEF Next, GetFails, ObjectForeign, Terminated

-----------------------------------------------------------------------------
(***************************************************************************)
(* The steps keep the rest of the invariant.                               *)
(***************************************************************************)
LEMMA RunningNext == IInv /\ [Next]_vars => Running'
<1> SUFFICES ASSUME IInv, [Next]_vars PROVE Running'
  OBVIOUS
<1>i. Typed /\ Running
  BY DEF IInv
<1>1. CASE Tick
  BY <1>1, <1>i DEF Tick, checkVars, runVars, Typed, Running
<1>2. ASSUME NEW steps \in [DOMAIN counter -> 0 .. Size32 - 1], Begin(steps)
      PROVE  Running'
  <2>1. lastCheck # Never => lastCheck + IntervalSeconds[chk] * TicksPerSecond <= now
    BY <1>2, <1>i, DueAtType DEF Begin, IsDue, Typed
  <2> QED
    BY <1>2, <1>i, <2>1 DEF Begin, checkVars, Typed, Running
<1>3. CASE GetChunk
  BY <1>3, <1>i DEF GetChunk, checkVars, Running
<1>4. CASE GetReturns
  BY <1>4, <1>i DEF GetReturns, checkVars, Running
<1>5. CASE Unknown /\ pc \in {"get", "object"}
  BY <1>5, <1>i DEF Unknown, checkVars, Running
<1>6. CASE ObjectNull
  BY <1>6, <1>i DEF ObjectNull, AtObject, checkVars, Running
<1>7. CASE ObjectCounter
  BY <1>7, <1>i DEF ObjectCounter, AtObject, checkVars, Running
<1>8. CASE ObjectPanic
  BY <1>8 DEF ObjectPanic, Running
<1>9. CASE ObjectGauge
  BY <1>9, <1>i DEF ObjectGauge, AtObject, checkVars, Running
<1>10. CASE ObjectsDone
  BY <1>10, <1>i DEF ObjectsDone, checkVars, runVars, Running
<1>11. CASE Publish
  BY <1>11, <1>i DEF Publish, Running
<1>12. CASE UNCHANGED vars
  BY <1>12, <1>i DEF vars, checkVars, runVars, Running
<1> QED
  BY <1>1, <1>2, <1>3, <1>4, <1>5, <1>6, <1>7, <1>8, <1>9, <1>10, <1>11, <1>12
     DEF Next, GetFails, ObjectForeign, AtObject, Terminated

(* What Get collects is what the counters say, and the loop only drops     *)
(* objects from the front.                                                 *)
LEMMA FaithfulNext == IInv /\ [Next]_vars => Faithful'
<1> SUFFICES ASSUME IInv, [Next]_vars PROVE Faithful'
  OBVIOUS
<1>i. Typed /\ Running /\ Faithful
  BY DEF IInv
<1>1. CASE UNCHANGED <<objects, counter>>
  BY <1>1, <1>i DEF Faithful, Shows
<1>2. CASE objects = <<>> /\ objects' = <<>>
  BY <1>2 DEF Faithful
<1>3. CASE Unknown
  BY <1>3 DEF Unknown, Faithful
<1>4. CASE GetChunk
  <2>0. PICK level \in GaugeValue : \E packet \in Packets(level) : objects' = objects \o packet
    BY <1>4 DEF GetChunk
  <2>1. PICK packet \in Packets(level) : objects' = objects \o packet
    BY <2>0
  <2>2. packet \in Seq(ObjectType) /\ \A i \in 1 .. Len(packet) : Shows(packet[i])
    BY <1>4, <1>i, PacketType DEF GetChunk
  <2>3. ASSUME NEW i \in 1 .. Len(objects') PROVE Shows(objects'[i])
    <3>1. CASE i <= Len(objects)
      <4>1. i \in 1 .. Len(objects) /\ objects'[i] = objects[i]
        BY <3>1, <2>1, <2>2, <1>i DEF Typed
      <4> QED
        BY <4>1, <1>i DEF Faithful
    <3>2. CASE i > Len(objects)
      <4>1. i - Len(objects) \in 1 .. Len(packet) /\ objects'[i] = packet[i - Len(objects)]
        BY <3>2, <2>1, <2>2, <1>i DEF Typed
      <4> QED
        BY <4>1, <2>2
    <3> QED
      BY <3>1, <3>2, <2>1, <2>2, <1>i DEF Typed
  <2> QED
    BY <1>4, <2>3 DEF GetChunk, hostVars, Faithful, Shows
<1>5. CASE AtObject /\ objects' = Tail(objects) /\ counter' = counter
  <2>1. ASSUME NEW i \in 1 .. Len(Tail(objects)) PROVE Shows(Tail(objects)[i])
    BY <1>i, <1>5, ObjectAtHead DEF Faithful
  <2> QED
    BY <1>5, <2>1 DEF Faithful, Shows
<1> QED
  BY <1>1, <1>2, <1>3, <1>4, <1>5, <1>i
     DEF Next, Tick, Begin, GetReturns, GetFails, ObjectForeign, ObjectNull, ObjectCounter, ObjectPanic,
         ObjectGauge, ObjectsDone, Publish, Terminated, vars, hostVars, runVars, Running

LEMMA FreshNext == IInv /\ [Next]_vars => Fresh'
<1> SUFFICES ASSUME IInv, [Next]_vars PROVE Fresh'
  OBVIOUS
<1>i. Typed /\ Running /\ Faithful /\ Fresh
  BY DEF IInv
<1>1. CASE UNCHANGED <<metrics, counter, currentTime>>
  BY <1>1, <1>i DEF Fresh
<1>2. CASE DOMAIN metrics' = {}
  BY <1>2 DEF Fresh
<1>3. CASE ObjectCounter
  <2> DEFINE m == Object.oid
  <2>1. /\ Object.value = Rest(counter[m], Size(m))
        /\ AddMetric(m) /\ counter' = counter /\ currentTime' = currentTime
    BY <1>3, <1>i, CounterObject DEF ObjectCounter, hostVars
  <2>2. metrics' = [n \in DOMAIN metrics \cup {m} |-> IF n = m THEN Metric(m) ELSE metrics[n]]
    BY <2>1 DEF AddMetric
  <2>3. /\ Metric(m).count = counter[m] /\ Metric(m).began = currentTime
        /\ Metric(m).value = Rest(counter[m], Size(m))
    BY <2>1 DEF Metric
  <2> HIDE DEF m
  <2> QED
    BY <2>1, <2>2, <2>3, <1>i DEF Fresh
<1> QED
  BY <1>1, <1>2, <1>3, <1>i
     DEF Next, Tick, Begin, GetChunk, GetReturns, GetFails, ObjectForeign, Unknown, ObjectNull, ObjectPanic,
         ObjectGauge, ObjectsDone, Publish, Terminated, vars, hostVars, runVars, Running

LEMMA RecentNext == IInv /\ [Next]_vars => Recent'
<1> SUFFICES ASSUME IInv, [Next]_vars PROVE Recent'
  OBVIOUS
<1>i. Typed /\ Fresh /\ Recent
  BY DEF IInv
<1>1. CASE UNCHANGED <<lastMetrics, counter>>
  BY <1>1, <1>i DEF Recent
<1>2. ASSUME NEW steps \in [DOMAIN counter -> 0 .. Size32 - 1], Begin(steps)
      PROVE  Recent'
  <2>1. lastMetrics' = lastMetrics /\ counter' = [m \in DOMAIN counter |-> counter[m] + steps[m]]
    BY <1>2 DEF Begin, Advance, checkVars
  <2>2. ASSUME NEW m \in DOMAIN lastMetrics
        PROVE  lastMetrics[m].count <= counter'[m] /\ counter'[m] - lastMetrics[m].count < Size32
    <3>1. m \in DOMAIN counter /\ counter[m] \in Nat /\ lastMetrics[m].count \in Nat
      BY <1>i DEF Typed, CounterMetrics, MetricType
    <3>2. steps[m] \in Nat /\ counter'[m] = counter[m] + steps[m]
      BY <3>1, <2>1, CounterAssumption
    <3>3. counter[m] + steps[m] - lastMetrics[m].count < Size32
      BY <1>2, <3>1 DEF Begin, Advance
    <3> QED
      BY <3>1, <3>2, <3>3, <1>i, CounterAssumption DEF Recent
  <2> QED
    BY <2>1, <2>2, <1>i DEF Recent
<1>3. CASE Publish
  <2>1. lastMetrics' = metrics /\ counter' = counter
    BY <1>3 DEF Publish, hostVars
  <2>2. ASSUME NEW m \in DOMAIN metrics
        PROVE  metrics[m].count = counter[m] /\ counter[m] \in Nat
    BY <1>i DEF Fresh, Typed, CounterMetrics
  <2> QED
    BY <2>1, <2>2, <1>i, CounterAssumption DEF Recent, Fresh
<1> QED
  BY <1>1, <1>2, <1>3
     DEF Next, Tick, GetChunk, GetReturns, GetFails, ObjectForeign, Unknown, ObjectNull, ObjectCounter,
         ObjectPanic, ObjectGauge, ObjectsDone, Terminated, vars, checkVars, hostVars

(* A state replaces the one so far exactly when it is worse.               *)
LEMMA OverridesIsWorse ==
  ASSUME NEW s \in {"OK", "WARN", "CRIT"}, NEW z \in {"UNKNOWN", "OK", "WARN", "CRIT"}
  PROVE  Overrides(s, z) <=> Severity[s] > Severity[z]
BY DEF Overrides, Severity

LEMMA JudgeKeepsWorst ==
  ASSUME Typed, ResultIsWorst, NEW m \in Monitor, NEW v, Judge(m, v)
  PROVE  ResultIsWorst'
<1> DEFINE state == StateOf(m, v)
<1>1. state \in {"OK", "WARN", "CRIT"} /\ judged' = judged \cup {<<m, state>>}
  BY StateOfType DEF Judge
<1>2. IF Overrides(state, resultState)
      THEN resultState' = state /\ resultReason' = m
      ELSE UNCHANGED <<resultState, resultReason>>
  BY DEF Judge
<1> HIDE DEF state
<1>3. ASSUME NEW j \in judged PROVE j[2] \in {"OK", "WARN", "CRIT"}
  BY DEF Typed
<1>4. CASE Overrides(state, resultState)
  <2>1. \A j \in judged : Severity[j[2]] <= Severity[state]
    BY <1>1, <1>3, <1>4, OverridesIsWorse DEF Typed, ResultIsWorst, Severity
  <2>2. resultState' = state /\ resultReason' = m
    BY <1>2, <1>4
  <2>3. <<m, state>>[2] = state /\ Severity[state] <= Severity[state]
    BY <1>1 DEF Severity
  <2>4. \A j \in judged' : Severity[j[2]] <= Severity[resultState']
    BY <1>1, <2>1, <2>2, <2>3
  <2>5. <<resultReason', resultState'>> \in judged' /\ judged' # {}
    BY <1>1, <2>2
  <2> QED
    BY <2>4, <2>5 DEF ResultIsWorst
<1>5. CASE ~Overrides(state, resultState)
  <2>1. resultState # "UNKNOWN" /\ judged # {} /\ Severity[state] <= Severity[resultState]
    BY <1>1, <1>5 DEF Typed, ResultIsWorst, Overrides, Severity
  <2> QED
    BY <1>1, <1>2, <1>5, <2>1 DEF ResultIsWorst
<1> QED
  BY <1>4, <1>5

LEMMA WorstNext == IInv /\ [Next]_vars => ResultIsWorst'
<1> SUFFICES ASSUME IInv, [Next]_vars PROVE ResultIsWorst'
  OBVIOUS
<1>i. Typed /\ Faithful /\ ResultIsWorst
  BY DEF IInv
<1>1. CASE UNCHANGED <<judged, resultState, resultReason>>
  BY <1>1, <1>i DEF ResultIsWorst
<1>2. CASE judged' = {} /\ resultState' = "UNKNOWN"
  BY <1>2 DEF ResultIsWorst
<1>3. ASSUME AtObject, Object.oid # Foreign, NEW v, Judge(Object.oid, v)
      PROVE  ResultIsWorst'
  BY <1>3, <1>i, ObjectAtHead, JudgeKeepsWorst DEF ObjectType
<1> QED
  BY <1>1, <1>2, <1>3
     DEF Next, Tick, Begin, GetChunk, GetReturns, GetFails, ObjectForeign, Unknown, ObjectNull, ObjectCounter,
         ObjectPanic, ObjectGauge, ObjectsDone, Publish, Terminated, vars, checkVars, hostVars, runVars

LEMMA BaselineNext == IInv /\ [Next]_vars => BaselineFromLastExecution'
<1> SUFFICES ASSUME IInv, [Next]_vars PROVE BaselineFromLastExecution'
  OBVIOUS
<1>i. Running /\ Fresh /\ BaselineFromLastExecution
  BY DEF IInv
<1>1. CASE UNCHANGED <<lastMetrics, lastBegan, lastCheck>>
  BY <1>1, <1>i DEF BaselineFromLastExecution
<1>2. CASE Publish
  BY <1>2, <1>i DEF Publish, Running, Fresh, BaselineFromLastExecution
<1> QED
  BY <1>1, <1>2
     DEF Next, Tick, Begin, GetChunk, GetReturns, GetFails, ObjectForeign, Unknown, ObjectNull, ObjectCounter,
         ObjectPanic, ObjectGauge, ObjectsDone, Terminated, vars, checkVars

(* With an interval, the second in which an execution begins is later than *)
(* the one in which the last execution ended.                              *)
LEMMA ElapsedWithInterval ==
  ASSUME Typed, Running, pc = "object", lastCheck # Never, Elapsed = 0
  PROVE  IntervalSeconds[chk] = 0
<1>1. currentTime \in Nat /\ lastCheck \in Nat /\ chk \in Check
      /\ lastCheck + IntervalSeconds[chk] * TicksPerSecond <= currentTime
  BY DEF Typed, Running
<1>2. IntervalSeconds[chk] \in Nat /\ TicksPerSecond \in Nat
  BY <1>1, ScheduleAssumption
<1>3. Unix(currentTime) \in Nat /\ Unix(lastCheck) \in Nat
  BY <1>1, UnixSpan
<1>4. Unix(currentTime) <= Unix(lastCheck)
  BY <1>3 DEF Elapsed
<1>5. currentTime < lastCheck + TicksPerSecond
  BY <1>1, <1>4, SameSecondOrLower
<1>6. 1 <= IntervalSeconds[chk] => 1 * TicksPerSecond <= IntervalSeconds[chk] * TicksPerSecond
  BY <1>2, ProductMonotone
<1>7. IntervalSeconds[chk] * TicksPerSecond \in Nat
  BY <1>2, ProductMonotone
<1> QED
  BY <1>1, <1>2, <1>5, <1>6, <1>7

LEMMA PanicsNext == IInv /\ [Next]_vars => PanicsOnlyWithoutInterval'
<1> SUFFICES ASSUME IInv, [Next]_vars PROVE PanicsOnlyWithoutInterval'
  OBVIOUS
<1>i. Typed /\ Running /\ PanicsOnlyWithoutInterval
  BY DEF IInv
<1>1. CASE pc' \in {"idle", "get", "object", "publish"}
  BY <1>1 DEF PanicsOnlyWithoutInterval
<1>2. CASE UNCHANGED <<pc, chk>>
  BY <1>2, <1>i DEF PanicsOnlyWithoutInterval
<1>3. CASE ObjectPanic
  BY <1>3, <1>i, ElapsedWithInterval
     DEF ObjectPanic, AtObject, Comparable, PanicsOnlyWithoutInterval, checkVars
<1> QED
  BY <1>1, <1>2, <1>3
     DEF Next, Tick, Begin, GetChunk, GetReturns, GetFails, ObjectForeign, Unknown, ObjectNull, ObjectCounter,
         ObjectGauge, ObjectsDone, Publish, Terminated, vars, checkVars

-----------------------------------------------------------------------------
LEMMA Invariance == Spec => []IInv
<1>1. IInv /\ [Next]_vars => IInv'
  BY TypedNext, RunningNext, FaithfulNext, FreshNext, RecentNext, WorstNext, BaselineNext, PanicsNext
     DEF IInv
<1> QED
  BY InitInv, <1>1, PTL DEF Spec

(* The result of Command.Run has the worst state that any object was       *)
(* judged to have, whatever the order of the objects, their types and the  *)
(* thresholds, and its reason comes from an object in that state.          *)
THEOREM Worst == Spec => []ResultIsWorst
<1>1. IInv => ResultIsWorst
  BY DEF IInv
<1> QED
  BY Invariance, <1>1, PTL

(* Every value that a counter is compared to was read by the execution     *)
(* whose end is LastCheck, which began no later than that.                 *)
THEOREM Baseline == Spec => []BaselineFromLastExecution
<1>1. IInv => BaselineFromLastExecution
  BY DEF IInv
<1> QED
  BY Invariance, <1>1, PTL

(* Dividing by the seconds since the last execution can fail only for a    *)
(* check without an interval, at any resolution of the clock.              *)
THEOREM NoDivisionByZero == Spec => []PanicsOnlyWithoutInterval
<1>1. IInv => PanicsOnlyWithoutInterval
  BY DEF IInv
<1> QED
  BY Invariance, <1>1, PTL

(* CalculateCounterDiff is at most one less than what the host counted,    *)
(* for counters of any widths of which one is at least twice the other,    *)
(* and only when the counter rolled over, unless a Counter32 was read at   *)
(* its maximum.                                                            *)
THEOREM DiffBound == Spec => []DiffWithinOne
<1>1. IInv => DiffWithinOne
  <2> SUFFICES ASSUME IInv, AtCounter,
                      ~(Type[Object.oid] = "Counter32" /\ lastMetrics[Object.oid].value = MaxCounter32)
               PROVE  LET m == Object.oid
                      IN  \/ Diff(m) = Increase(m)
                          \/ Object.value < lastMetrics[m].value /\ Diff(m) = Increase(m) - 1
    BY DEF DiffWithinOne
  <2> DEFINE m == Object.oid
             last == lastMetrics[m].count
  <2>1. m \in Counters /\ counter[m] \in Nat /\ Object.value = Rest(counter[m], Size(m))
    BY CounterObject DEF IInv, AtCounter
  <2>2. /\ last \in Nat /\ last <= counter[m] /\ counter[m] - last < Size32
        /\ lastMetrics[m].value = Rest(last, Size(m))
    BY DEF IInv, AtCounter, HasLastMetric, Typed, CounterMetrics, MetricType, Recent
  <2>3. Diff(m) = CalculateCounterDiff(Rest(last, Size(m)), Rest(counter[m], Size(m)))
    BY <2>1, <2>2 DEF Diff
  <2>4. Increase(m) = counter[m] - last
    BY DEF Increase
  <2>5. CASE Type[m] = "Counter32"
    <3>1. Size(m) = Size32 /\ Rest(last, Size32) # MaxCounter32
      BY <2>2, <2>5 DEF Size
    <3> HIDE DEF m, last
    <3> QED
      BY <2>1, <2>2, <2>3, <2>4, <3>1, Diff32 DEF m
  <2>6. CASE Type[m] = "Counter64"
    <3>1. Size(m) = Size64
      BY <2>6 DEF Size
    <3> HIDE DEF m, last
    <3> QED
      BY <2>1, <2>2, <2>3, <2>4, <3>1, Diff64 DEF m
  <2> QED
    BY <2>1, <2>5, <2>6 DEF Counters, IsCounter
<1> QED
  BY Invariance, <1>1, PTL

=============================================================================
