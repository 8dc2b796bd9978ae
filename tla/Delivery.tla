------------------------------ MODULE Delivery ------------------------------
(***************************************************************************)
(* What becomes of the results of checks that have the rrdcached or the    *)
(* statsd handler: the command judges what it sees, and the handler        *)
(* processes the result (check/handler).  A check may have both: they share*)
(* nothing but the result, which neither writes.                           *)
(*                                                                         *)
(* All checks of the model have a command of the same kind, and write the  *)
(* same data sources: each to a file of its own, and perhaps to one that   *)
(* they share.  rrdcached, go-rrd, statsd and the network are external.    *)
(***************************************************************************)
EXTENDS Commands, FiniteSets

CONSTANTS
  Check,
  SharedFile,    \* the name of the file that several checks may write
  MaxNow,        \* bound of the model: seconds
  MaxExecutions  \* bound of the model: how often the checks are executed

ASSUME DeliveryAssumption ==
  SharedFile \notin Check /\ MaxNow \in Nat \ {0} /\ MaxExecutions \in Nat

File == Check \cup {SharedFile}

VARIABLES
  kind,        \* the kind of the commands, fixed
  handler,     \* the handler of the checks, fixed
  mapped,      \* whether there are DataSourceToMetricMappings, fixed
  now,         \* the second
  executions,  \* how many executions have begun
  pc,          \* the step of Execute of each check
  judged,      \* the outcome of the command and what to make of it
  result,      \* the labels of the metrics (<<>> is nil), their value, its time
  rrd,         \* Process of the rrdcached handler: step, files, index, err
  statsd,      \* Process of the statsd handler: step, err
  files,       \* the files of rrdcached: existence, last time, rows
  network,     \* the datagrams on the way to statsd
  gauge,       \* what statsd holds of each check's metrics
  sent,        \* history: the values of each check's results
  kept         \* history: the rows that a Process without error has handed over

fixedVars == <<kind, handler, mapped>>
vars == <<fixedVars, now, executions, pc, judged, result, rrd, statsd, files, network, gauge,
          sent, kept>>

NotJudged == [state |-> "none", healthy |-> FALSE, critical |-> FALSE, disputable |-> FALSE]
NoResult  == [metrics |-> <<>>, value |-> 0, time |-> 0]
RrdOff    == [at |-> "off", defs |-> <<>>, index |-> 0, err |-> FALSE]
StatsdOff == [at |-> "off", err |-> FALSE]

(* Mappings matter only for metrics whose labels are not names of a DS.    *)
Init ==
  /\ kind \in Kind
  /\ handler \in {"rrdcached", "statsd"}
  /\ mapped \in IF handler = "rrdcached" /\ kind = "snmp" THEN BOOLEAN ELSE {FALSE}
  /\ now = 1
  /\ executions = 0
  /\ pc = [c \in Check |-> "idle"]
  /\ judged = [c \in Check |-> NotJudged]
  /\ result = [c \in Check |-> NoResult]
  /\ rrd = [c \in Check |-> RrdOff]
  /\ statsd = [c \in Check |-> StatsdOff]
  /\ files = [f \in File |-> [exists |-> FALSE, last |-> 0, rows |-> {}]]
  /\ network = {}
  /\ gauge = [c \in Check |-> 0]
  /\ sent = [c \in Check |-> {}]
  /\ kept = {}

Tick ==
  /\ now < MaxNow
  /\ now' = now + 1
  /\ UNCHANGED <<fixedVars, executions, pc, judged, result, rrd, statsd, files, network, gauge,
                 sent, kept>>

-----------------------------------------------------------------------------
(***************************************************************************)
(* The command.                                                            *)
(***************************************************************************)
(* The value of an snmp metric may be negative (statsd minds), and the     *)
(* metric of an object that is Null is left out (rrdcached minds).         *)
Values == IF kind = "snmp" /\ handler = "statsd" THEN {now, -now} ELSE {now}
Metrics ==
  IF kind = "snmp" /\ handler = "rrdcached" THEN {Labels(kind), Tail(Labels(kind))} ELSE {Labels(kind)}

(* The outcome for each thing a command can see, and what to make of it.   *)
Verdicts ==
  [k \in Kind |->
     {[outcome |-> Outcome(k, s),
       judged |-> [state |-> Outcome(k, s).state, healthy |-> Healthy(k, s),
                   critical |-> Critical(k, s), disputable |-> FalseAlarm(k, s)]] : s \in Seen(k)}]

RunCommand(c) ==
  /\ pc[c] = "idle" /\ executions < MaxExecutions
  /\ \E verdict \in Verdicts[kind], v \in Values, m \in Metrics :
       /\ judged' = [judged EXCEPT ![c] = verdict.judged]
       /\ result' = [result EXCEPT ![c] =
            IF verdict.outcome.measured THEN [metrics |-> m, value |-> v, time |-> now]
            ELSE [NoResult EXCEPT !.time = now]]
       /\ pc' = [pc EXCEPT ![c] = IF verdict.outcome.state = "PANIC" THEN "panicked" ELSE "judged"]
  /\ executions' = executions + 1
  /\ UNCHANGED <<fixedVars, now, rrd, statsd, files, network, gauge, sent, kept>>

(* GetRrdFileDefs may be nil, or return nil, no file or some files.        *)
FileDefs(c) == {<<>>, <<c>>, <<SharedFile, c>>}

Handle(c) ==
  /\ pc[c] = "judged"
  /\ pc' = [pc EXCEPT ![c] = "handling"]
  /\ judged' = [judged EXCEPT ![c] = NotJudged]
  /\ IF handler = "rrdcached"
     THEN /\ \/ rrd' = [rrd EXCEPT ![c].at = "done"]
             \/ \E defs \in FileDefs(c) : rrd' = [rrd EXCEPT ![c].at = "dial", ![c].defs = defs]
          /\ UNCHANGED <<statsd, sent>>
     ELSE /\ statsd' = [statsd EXCEPT ![c].at = IF result[c].metrics = <<>> THEN "done" ELSE "dial"]
          /\ sent' = [sent EXCEPT ![c] = @ \cup {result[c].value}]
          /\ UNCHANGED rrd
  /\ UNCHANGED <<fixedVars, now, executions, result, files, network, gauge, kept>>

Finish(c) ==
  /\ pc[c] = "handling" /\ "done" \in {rrd[c].at, statsd[c].at}
  /\ pc' = [pc EXCEPT ![c] = "idle"]
  /\ result' = [result EXCEPT ![c] = NoResult]
  /\ rrd' = [rrd EXCEPT ![c] = RrdOff]
  /\ statsd' = [statsd EXCEPT ![c] = StatsdOff]
  /\ UNCHANGED <<fixedVars, now, executions, judged, files, network, gauge, sent, kept>>

-----------------------------------------------------------------------------
(***************************************************************************)
(* Process of the rrdcached handler.                                       *)
(***************************************************************************)
(* NewDS strips what is not a letter, a digit or an underscore.            *)
Cleaned(name) == IF name = "in.octets" THEN "inoctets" ELSE name

(* The data sources of every file: one for each metric of the command, in  *)
(* an order of their own; and the label under which each finds its value.  *)
DataSources == LET all == Labels(kind) IN [i \in DOMAIN all |-> all[Len(all) + 1 - i]]

Looked == [i \in DOMAIN DataSources |->
             IF mapped THEN DataSources[i] ELSE Cleaned(DataSources[i])]

(* Mutant: the values in the order of the metrics.                         *)
RowUnnamed(r) == [time |-> r.time, values |-> r.metrics]

(* The data sources of which the result has the metric.                    *)
Found(r) == {i \in DOMAIN Looked : \E j \in DOMAIN r.metrics : r.metrics[j] = Looked[i]}

(* One row of an update: values are given by the labels of their metrics.  *)
(* A metric that the result lacks is left out.                             *)
Row(r) == [time |-> r.time, values |-> [i \in Found(r) |-> Looked[i]]]

RrdDone(err) == [RrdOff EXCEPT !.at = "done", !.err = err]

RrdStep(c, to) == rrd' = [rrd EXCEPT ![c] = to]

RrdUnchanged == UNCHANGED <<fixedVars, now, executions, pc, judged, result, statsd, network, gauge, sent>>

RrdDial(c) ==
  /\ rrd[c].at = "dial"
  /\ \/ RrdStep(c, [rrd[c] EXCEPT !.at = "files", !.index = 1])
     \/ RrdStep(c, RrdDone(TRUE))
  /\ RrdUnchanged /\ UNCHANGED <<files, kept>>

(* An error return, after which only the deferred Close is left.           *)
RrdFails(c) == RrdStep(c, [RrdOff EXCEPT !.at = "close", !.err = TRUE])

AtFile(c) == rrd[c].at = "files" /\ rrd[c].index <= Len(rrd[c].defs)

(* Mutant: any failure of Last means that the file does not exist.         *)
LastFailsIsMissing(c) ==
  /\ AtFile(c)
  /\ RrdStep(c, [rrd[c] EXCEPT !.at = "create"])
  /\ RrdUnchanged /\ UNCHANGED <<files, kept>>

(* The request or the answer is lost.                                      *)
LastFails(c) ==
  /\ AtFile(c)
  /\ RrdFails(c)
  /\ RrdUnchanged /\ UNCHANGED <<files, kept>>

Last(c) ==
  /\ AtFile(c)
  /\ RrdStep(c, IF files[rrd[c].defs[rrd[c].index]].exists
                THEN [rrd[c] EXCEPT !.index = @ + 1]
                ELSE [rrd[c] EXCEPT !.at = "create"])
  /\ RrdUnchanged /\ UNCHANGED <<files, kept>>

(* A CREATE, which replaces a file that has come to exist in between; it,  *)
(* or only its answer, may be lost.                                        *)
Create(c) ==
  LET f == rrd[c].defs[rrd[c].index] IN
  /\ rrd[c].at = "create"
  /\ \/ /\ files' = [files EXCEPT ![f] = [exists |-> TRUE, last |-> 0, rows |-> {}]]
        /\ RrdStep(c, [rrd[c] EXCEPT !.at = "files", !.index = @ + 1]) \/ RrdFails(c)
     \/ RrdFails(c) /\ UNCHANGED files
  /\ RrdUnchanged /\ UNCHANGED kept

(***************************************************************************)
(* The daemon takes a row that is newer than the last one of its file, and *)
(* stores it if it has a value for every data source; it may refuse a      *)
(* shorter one, or drop it when it writes the file.                        *)
(***************************************************************************)
Complete(row) == Cardinality(DOMAIN row.values) = Len(DataSources)

Taken(f, row) ==
  [files[f] EXCEPT !.last = row.time, !.rows = IF Complete(row) THEN @ \cup {row} ELSE @]

Targets(c) == {rrd[c].defs[i] : i \in DOMAIN rrd[c].defs}

Acceptable(c) == {f \in Targets(c) : files[f].exists /\ files[f].last < Row(result[c]).time}

UpdateFiles(c, taken) ==
  files' = [f \in File |-> IF f \in taken THEN Taken(f, Row(result[c])) ELSE files[f]]

AllFilesSeen(c) == rrd[c].at = "files" /\ rrd[c].index > Len(rrd[c].defs)

(* No update commands without files.                                       *)
Batch(c) ==
  /\ AllFilesSeen(c)
  /\ Targets(c) = Acceptable(c)
  /\ UpdateFiles(c, Targets(c))
  /\ RrdStep(c, [rrd[c] EXCEPT !.at = "close", !.index = 0])
  /\ RrdUnchanged /\ UNCHANGED kept

(* Updates are refused or lost, or only the answer to them is.             *)
BatchFails(c) ==
  /\ AllFilesSeen(c) /\ rrd[c].defs # <<>>
  /\ \E taken \in SUBSET Acceptable(c) : UpdateFiles(c, taken)
  /\ RrdFails(c)
  /\ RrdUnchanged /\ UNCHANGED kept

(* The deferred Close, whose error counts unless there is one already.     *)
RrdClose(c) ==
  /\ rrd[c].at = "close"
  /\ \E errC \in BOOLEAN :
       /\ RrdStep(c, RrdDone(rrd[c].err \/ errC))
       /\ kept' = IF rrd[c].err \/ errC \/ ~Complete(Row(result[c])) THEN kept
                  ELSE kept \cup {[file |-> f, row |-> Row(result[c])] : f \in Targets(c) \ {SharedFile}}
  /\ RrdUnchanged /\ UNCHANGED files

Rrdcached(c) ==
  \/ RrdDial(c) \/ Last(c) \/ LastFails(c) \/ Create(c) \/ Batch(c) \/ BatchFails(c) \/ RrdClose(c)

-----------------------------------------------------------------------------
(***************************************************************************)
(* Process of the statsd handler.                                          *)
(***************************************************************************)
(* Mutant: the sign of a value is not looked at.                           *)
UnsignedMessage(value) == <<value>>

(* The lines of buildProtocolMessage for a metric: a gauge is set to a     *)
(* value without a sign, and a value with one is added to it.              *)
ProtocolMessage(value) == IF value < 0 THEN <<0, value>> ELSE <<value>>

StatsdUnchanged == UNCHANGED <<fixedVars, now, executions, pc, judged, result, rrd, files, sent, kept>>

StatsdDial(c) ==
  /\ statsd[c].at = "dial"
  /\ \/ statsd' = [statsd EXCEPT ![c].at = "write"]
     \/ statsd' = [statsd EXCEPT ![c] = [at |-> "done", err |-> TRUE]]
  /\ StatsdUnchanged /\ UNCHANGED <<network, gauge>>

(* SetWriteDeadline and the write of the one datagram, either of which may *)
(* fail.                                                                   *)
StatsdWrite(c) ==
  /\ statsd[c].at = "write"
  /\ \E err \in BOOLEAN :
       /\ statsd' = [statsd EXCEPT ![c] = [at |-> "close", err |-> err]]
       /\ network' = IF err THEN network
                     ELSE network \cup {[check |-> c, lines |-> ProtocolMessage(result[c].value)]}
  /\ StatsdUnchanged /\ UNCHANGED gauge

(* The deferred Close replaces the error by its own, nil included.         *)
StatsdClose(c) ==
  /\ statsd[c].at = "close"
  /\ \E errC \in BOOLEAN : statsd' = [statsd EXCEPT ![c] = [at |-> "done", err |-> errC]]
  /\ StatsdUnchanged /\ UNCHANGED <<network, gauge>>

Statsd(c) == StatsdDial(c) \/ StatsdWrite(c) \/ StatsdClose(c)

SetGauge(old, line) == IF line < 0 THEN old + line ELSE line

(* A datagram arrives, in any order, perhaps again, or never.              *)
Arrives(d) ==
  /\ gauge' = [gauge EXCEPT ![d.check] =
       IF Len(d.lines) = 1 THEN SetGauge(@, d.lines[1])
       ELSE SetGauge(SetGauge(@, d.lines[1]), d.lines[2])]
  /\ network' \in {network, network \ {d}}
  /\ StatsdUnchanged /\ UNCHANGED statsd

-----------------------------------------------------------------------------
(* A panic ends the process, with all its checks.                          *)
Alive == \A c \in Check : pc[c] # "panicked"

Terminated ==
  /\ \/ ~Alive
     \/ executions = MaxExecutions /\ \A c \in Check : pc[c] = "idle"
  /\ UNCHANGED vars

Next ==
  \/ /\ Alive
     /\ \/ Tick
        \/ \E c \in Check : RunCommand(c) \/ Handle(c) \/ Finish(c) \/ Rrdcached(c) \/ Statsd(c)
  \/ \E d \in network : Arrives(d)
  \/ Terminated

Spec == Init /\ [][Next]_vars

-----------------------------------------------------------------------------
(***************************************************************************)
(* Properties.                                                             *)
(***************************************************************************)
(* A command reports OK only if its answer came and was in order.  It      *)
(* reports worse than that only where two quirks are, understates a        *)
(* critical quantity only in the two commands where an earlier quantity at *)
(* WARN hides it, and panics only in the two that divide what an agent     *)
(* sent.                                                                   *)
OutcomeIsEarned ==
  \A c \in Check : LET j == judged[c] IN pc[c] \in {"judged", "panicked"} =>
    /\ j.state = "OK" => j.healthy
    /\ j.healthy /\ j.state # "OK" => j.disputable
    /\ j.critical => \/ j.state = "CRIT"
                     \/ j.state = "WARN" /\ kind \in {"ping", "ciscoresources"}
                     \/ j.state = "PANIC"
    /\ j.state = "PANIC" => kind \in {"junsubpool", "ciscoresources"}

(* What a backend holds was reported: in every stored row each column has  *)
(* the value of the metric of its name, however many metrics were missing, *)
(* and a gauge of statsd is a value that its check has reported, whichever *)
(* datagrams were lost, repeated or overtaken.                             *)
StoredIsReported ==
  /\ \A f \in File : \A row \in files[f].rows : row.values = DataSources
  /\ \A c \in Check : gauge[c] \in sent[c] \cup {0}

(* A row that Process handed over without an error stays in the check's    *)
(* file: no later execution creates the file anew, whatever requests or    *)
(* answers are lost.                                                       *)
AcceptedIsStored == \A k \in kept : k.row \in files[k.file].rows
=============================================================================
