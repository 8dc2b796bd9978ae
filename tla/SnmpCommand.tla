---------------------------- MODULE SnmpCommand ----------------------------
(***************************************************************************)
(* command/snmp.Command.Run (check/command/snmp/snmp.go) over the life of  *)
(* a check: one execution after the other reads the monitored objects of a *)
(* host, judges gauges by their value and counters by their rate since the *)
(* last execution, and leaves the metrics from which the next one starts.  *)
(*                                                                         *)
(* snmp.GoSnmpGetter.Get (snmp/gosnmp_getter.go) asks for the objects in   *)
(* requests of at most MaxOids each.  The host and gosnmp lie outside: an  *)
(* object comes back with a value, as Null, under an Oid nobody asked for, *)
(* or a packet comes back empty; any request may fail.                     *)
(* The counters of the host advance without being reset, by less than the  *)
(* size of a Counter32 between two readings.                               *)
(***************************************************************************)
EXTENDS Schedule, Counter, Sequences, FiniteSets

CONSTANTS
  Monitors,   \* the Name (and Oid) of Command.OidMonitors, a sequence
  Type,       \* the Asn1BER type of each monitor's object
  Limits,     \* the thresholds of each monitor, and NoLimit for those not set
  NoLimit,
  MaxOids,    \* GoSNMP.MaxOids
  GaugeValue, \* the values a gauge is seen with
  Foreign,    \* an Oid that is in no monitor
  NoTime,     \* no execution is going on
  MaxCount,   \* bound of the model: how far each counter of the host counts
  MaxNow      \* bound of the model: the last instant of the clock

Monitor == {Monitors[i] : i \in 1 .. Len(Monitors)}
IsCounter(m) == Type[m] \in {"Counter32", "Counter64"}
Size(m) == IF Type[m] = "Counter32" THEN Size32 ELSE Size64

ASSUME SnmpCommandAssumption ==
  /\ Type \in [Monitor -> {"Counter32", "Counter64", "Gauge"}]
  /\ Monitors \in Seq(Monitor)
  /\ \A i, j \in 1 .. Len(Monitors) : Monitors[i] = Monitors[j] => i = j
  /\ Foreign \notin Monitor
  /\ MaxOids \in Nat \ {0}
  /\ GaugeValue \subseteq Int
  /\ NoTime \notin Nat

VARIABLES
  chk,          \* the check, fixed
  now,          \* the clock
  lastCheck,    \* Check.LastCheck
  lastMetrics,  \* the counter metrics of Check.LastResult, by label
  counter,      \* how far each counter of the host has counted in truth
  pc,           \* the next step of Run, and Execute's after it
  currentTime,  \* taken before Get
  offset,       \* how many objects Get has asked for
  objects,      \* what Get has collected, and the loop has still to look at
  resultState, resultReason,  \* the state so far and the monitor it is from
  metrics,      \* the counter metrics of resultMetrics, by label
  judged,       \* history: the states the monitors were given in this run
  lastBegan     \* history: the currentTime of the last execution

hostVars  == <<counter>>
checkVars == <<chk, lastCheck, lastMetrics, lastBegan>>
runVars   == <<currentTime, offset, objects, resultState, resultReason, metrics, judged>>
vars      == <<now, checkVars, hostVars, pc, runVars>>

NoReason == Foreign

(***************************************************************************)
(* Result states.                                                          *)
(***************************************************************************)

(* Mutant: a warning does not take the place of OK.                        *)
OverridesUnlessOk(s, z) ==
  \/ s = "OK" /\ z = "UNKNOWN"
  \/ s = "WARN" /\ z = "UNKNOWN"
  \/ s = "CRIT" /\ z \in {"UNKNOWN", "OK", "WARN"}

(* ResultState.Overrides.                                                  *)
Overrides(s, z) ==
  \/ s = "OK" /\ z = "UNKNOWN"
  \/ s = "WARN" /\ z \in {"UNKNOWN", "OK"}
  \/ s = "CRIT" /\ z \in {"UNKNOWN", "OK", "WARN"}

Below(v, limit) == limit # NoLimit /\ v < limit
Above(v, limit) == limit # NoLimit /\ v > limit

(* determineResultStateAndReasonFromResultValue; the values of a status    *)
(* come before the thresholds, the minima before the maxima.               *)
StateOf(m, v) ==
  LET l == Limits[m]
  IN  IF v \in l.critStatus THEN "CRIT"
      ELSE IF v \in l.warnStatus THEN "WARN"
      ELSE IF Below(v, l.critMin) THEN "CRIT"
      ELSE IF Below(v, l.warnMin) THEN "WARN"
      ELSE IF Above(v, l.critMax) THEN "CRIT"
      ELSE IF Above(v, l.warnMax) THEN "WARN" ELSE "OK"

-----------------------------------------------------------------------------
Init ==
  /\ chk \in Check
  /\ now = 0
  /\ lastCheck = Never /\ lastMetrics = [m \in {} |-> 0] /\ lastBegan = NoTime
  /\ counter = [m \in {n \in Monitor : IsCounter(n)} |-> 0]
  /\ pc = "idle"
  /\ currentTime = NoTime
  /\ offset = 0 /\ objects = <<>>
  /\ resultState = "UNKNOWN" /\ resultReason = NoReason
  /\ metrics = [m \in {} |-> 0]
  /\ judged = {}

(* Only the time between executions and that of a whole execution matter.  *)
Tick ==
  /\ pc \in {"idle", "publish"}
  /\ now < MaxNow
  /\ now' = now + 1
  /\ UNCHANGED <<checkVars, hostVars, pc, runVars>>

(* The counters of the host have gone on, though not all the way round     *)
(* since the reading that the check remembers.                             *)
Advance(steps) ==
  /\ \A m \in DOMAIN counter :
       /\ counter[m] + steps[m] <= MaxCount[m]
       /\ m \in DOMAIN lastMetrics => counter[m] + steps[m] - lastMetrics[m].count < Size32
  /\ counter' = [m \in DOMAIN counter |-> counter[m] + steps[m]]

(* Mutant: the check is executed whether or not it is due.                 *)
BeginAnyTime(steps) ==
  /\ pc = "idle"
  /\ Advance(steps)
  /\ currentTime' = now
  /\ pc' = "get"
  /\ UNCHANGED <<now, checkVars, offset, objects, resultState, resultReason, metrics, judged>>

(* The server executes a check when it is due.                             *)
Begin(steps) ==
  /\ pc = "idle"
  /\ IsDue(chk, lastCheck, now)
  /\ Advance(steps)
  /\ currentTime' = now
  /\ pc' = "get"
  /\ UNCHANGED <<now, checkVars, offset, objects, resultState, resultReason, metrics, judged>>

Value(m, level) == IF IsCounter(m) THEN counter[m] % Size(m) ELSE level

(***************************************************************************)
(* Get.                                                                    *)
(***************************************************************************)
(* The Oids of the next request: MaxOids, or those that are left.          *)
Chunk ==
  LET left == Len(Monitors) - offset
  IN  SubSeq(Monitors, offset + 1, offset + (IF left < MaxOids THEN left ELSE MaxOids))

(* The packet for a chunk: every object as asked, gauges showing level, or *)
(* one of them not as asked, or none at all.                               *)
Packets(level) ==
  LET asAsked == [i \in 1 .. Len(Chunk) |->
                    [oid |-> Chunk[i], null |-> FALSE, value |-> Value(Chunk[i], level)]]
  IN  {asAsked, <<>>}
        \cup {[asAsked EXCEPT ![i].null = TRUE] : i \in 1 .. Len(Chunk)}
        \cup {[asAsked EXCEPT ![i].oid = Foreign] : i \in 1 .. Len(Chunk)}

GetChunk ==
  /\ pc = "get"
  /\ offset < Len(Monitors)
  /\ \E level \in GaugeValue : \E packet \in Packets(level) : objects' = objects \o packet
  /\ offset' = offset + Len(Chunk)
  /\ UNCHANGED <<now, checkVars, hostVars, pc, currentTime, resultState, resultReason, metrics,
                 judged>>

GetReturns ==
  /\ pc = "get"
  /\ offset = Len(Monitors) /\ (offset > 0 => objects # <<>>)
  /\ offset' = 0
  /\ pc' = "object"
  /\ UNCHANGED <<now, checkVars, hostVars, currentTime, objects, resultState, resultReason,
                 metrics, judged>>

(* CONNECTION_ERROR or CMD_FAILURE: an UNKNOWN result without metrics.     *)
Unknown ==
  /\ offset' = 0 /\ objects' = <<>>
  /\ resultState' = "UNKNOWN" /\ resultReason' = NoReason
  /\ metrics' = [m \in {} |-> 0]
  /\ judged' = {}
  /\ pc' = "publish"
  /\ UNCHANGED <<now, checkVars, hostVars, currentTime>>

(* A request fails, or none of them has brought an object.                 *)
GetFails ==
  /\ pc = "get"
  /\ offset < Len(Monitors) \/ (offset > 0 /\ objects = <<>>)
  /\ Unknown

(***************************************************************************)
(* The loop over the objects.                                              *)
(***************************************************************************)
Object == Head(objects)

AtObject == pc = "object" /\ objects # <<>>

ObjectForeign ==
  /\ AtObject
  /\ Object.oid = Foreign
  /\ Unknown

ObjectNull ==
  /\ AtObject
  /\ Object.oid # Foreign /\ Object.null
  /\ objects' = Tail(objects)
  /\ UNCHANGED <<now, checkVars, hostVars, pc, currentTime, offset, resultState, resultReason, metrics,
                 judged>>

Judge(m, v) ==
  /\ judged' = judged \cup {<<m, StateOf(m, v)>>}
  /\ IF Overrides(StateOf(m, v), resultState)
     THEN resultState' = StateOf(m, v) /\ resultReason' = m
     ELSE UNCHANGED <<resultState, resultReason>>

(* The metric of a counter, with what the host had counted by then and     *)
(* when the execution began (both history).                                *)
Metric(m) == [value |-> Object.value, count |-> counter[m], began |-> currentTime]

AddMetric(m) ==
  metrics' = [n \in DOMAIN metrics \cup {m} |-> IF n = m THEN Metric(m) ELSE metrics[n]]

Elapsed == Unix(currentTime) - Unix(lastCheck)

Diff(m) == CalculateCounterDiff(lastMetrics[m].value, Object.value)

(* getChecksLastResultMetricByLabel is not nil.                            *)
HasLastMetric(m) == m \in DOMAIN lastMetrics

(* Nothing is worse than CRIT, so a counter is not judged any more then;   *)
(* nor can it be without a last value.                                     *)
Comparable(m) == resultState # "CRIT" /\ HasLastMetric(m) /\ lastCheck # Never

ObjectCounter ==
  LET m == Object.oid
  IN  /\ AtObject
      /\ m # Foreign /\ ~Object.null /\ IsCounter(m)
      /\ IF Comparable(m)
         THEN Elapsed # 0 /\ Judge(m, Diff(m) \div Elapsed)
         ELSE UNCHANGED <<resultState, resultReason, judged>>
      /\ AddMetric(m)
      /\ objects' = Tail(objects)
      /\ UNCHANGED <<now, checkVars, hostVars, pc, currentTime, offset>>

(* big.Int.Div by zero.                                                    *)
ObjectPanic ==
  /\ AtObject
  /\ Object.oid # Foreign /\ ~Object.null /\ IsCounter(Object.oid)
  /\ Comparable(Object.oid)
  /\ Elapsed = 0
  /\ pc' = "panicked"
  /\ UNCHANGED <<now, checkVars, hostVars, runVars>>

(* The metric of a gauge is not read by any later execution; it is left    *)
(* out of metrics.                                                         *)
ObjectGauge ==
  LET m == Object.oid
  IN  /\ AtObject
      /\ m # Foreign /\ ~Object.null /\ ~IsCounter(m)
      /\ Judge(m, Object.value)
      /\ objects' = Tail(objects)
      /\ UNCHANGED <<now, checkVars, hostVars, pc, currentTime, offset, metrics>>

ObjectsDone ==
  /\ pc = "object" /\ objects = <<>>
  /\ pc' = "publish"
  /\ UNCHANGED <<now, checkVars, hostVars, runVars>>

(* Mutant: the metrics an execution did not get are kept from before.      *)
PublishMerged ==
  /\ pc = "publish"
  /\ lastCheck' = now
  /\ lastMetrics' = [m \in DOMAIN metrics \cup DOMAIN lastMetrics |->
                       IF m \in DOMAIN metrics THEN metrics[m] ELSE lastMetrics[m]]
  /\ lastBegan' = currentTime
  /\ currentTime' = NoTime
  /\ resultState' = "UNKNOWN" /\ resultReason' = NoReason
  /\ metrics' = [m \in {} |-> 0] /\ judged' = {}
  /\ pc' = "idle"
  /\ UNCHANGED <<chk, now, hostVars, offset, objects>>

(* The end of Check.Execute, after the handlers.                           *)
Publish ==
  /\ pc = "publish"
  /\ lastCheck' = now
  /\ lastMetrics' = metrics
  /\ lastBegan' = currentTime
  /\ currentTime' = NoTime
  /\ resultState' = "UNKNOWN" /\ resultReason' = NoReason
  /\ metrics' = [m \in {} |-> 0] /\ judged' = {}
  /\ pc' = "idle"
  /\ UNCHANGED <<chk, now, hostVars, offset, objects>>

(* The panic has ended the process, or the clock of the model has ended.   *)
Terminated ==
  /\ pc = "panicked" \/ (pc = "idle" /\ now = MaxNow)
  /\ UNCHANGED vars

Next ==
  \/ Tick
  \/ \E steps \in [DOMAIN counter -> 0 .. Size32 - 1] : Begin(steps)
  \/ GetChunk
  \/ GetReturns
  \/ GetFails
  \/ ObjectForeign \/ ObjectNull \/ ObjectCounter \/ ObjectPanic \/ ObjectGauge
  \/ ObjectsDone
  \/ Publish
  \/ Terminated

Spec == Init /\ [][Next]_vars
-----------------------------------------------------------------------------
(***************************************************************************)
(* Properties.                                                             *)
(***************************************************************************)
Severity == [UNKNOWN |-> 0, OK |-> 1, WARN |-> 2, CRIT |-> 3]

(* The result has the worst state that any object was given, whatever the  *)
(* order of the objects, and its reason comes from an object in that       *)
(* state; it is UNKNOWN exactly when no object could be judged.            *)
ResultIsWorst ==
  IF judged = {} THEN resultState = "UNKNOWN"
  ELSE /\ <<resultReason, resultState>> \in judged
       /\ \A j \in judged : Severity[j[2]] <= Severity[resultState]

(* The values a counter is compared to were read by the execution that     *)
(* LastCheck is the end of, not by one before it: value and time of the    *)
(* rate belong together, also after a Null, a failed Get or an unknown Oid. *)
BaselineFromLastExecution ==
  \A m \in DOMAIN lastMetrics :
    lastMetrics[m].began = lastBegan /\ lastBegan <= lastCheck

AtCounter ==
  /\ AtObject /\ Object.oid # Foreign /\ ~Object.null
  /\ IsCounter(Object.oid) /\ HasLastMetric(Object.oid)

Increase(m) == counter[m] - lastMetrics[m].count

(* The difference of two readings is what the host counted between them,   *)
(* or one less when the counter rolled over, save for a Counter32 that was *)
(* read at its very maximum and is taken for a Counter64.                  *)
DiffWithinOne ==
  AtCounter =>
    LET m == Object.oid
    IN  \/ Type[m] = "Counter32" /\ lastMetrics[m].value = MaxCounter32
        \/ Diff(m) = Increase(m)
        \/ Object.value < lastMetrics[m].value /\ Diff(m) = Increase(m) - 1

(* The rate divides by the whole seconds since LastCheck.  A schedule of a *)
(* second or more keeps two executions of a check out of one second, so    *)
(* that only a check without an interval can divide by zero.               *)
PanicsOnlyWithoutInterval ==
  pc = "panicked" => IntervalSeconds[chk] = 0

(* check/result.go:131-132, the comment of ResultMetricCounter: "an        *)
(* ever-incrementing integer that rolls over at its inherent integer size  *)
(* and restarts to 0."  The code adds the largest value of that size, not  *)
(* the size, so that the difference across a rollover is one too small.    *)
DiffIsIncrease ==
  AtCounter => Diff(Object.oid) = Increase(Object.oid)
=============================================================================
