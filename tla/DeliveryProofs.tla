--------------------------- MODULE DeliveryProofs ---------------------------
(***************************************************************************)
(* Proofs about modules Delivery and Commands, for any number of checks    *)
(* and executions, any measurements, thresholds and amounts, and whichever *)
(* quotients big.Float rounds.                                             *)
(***************************************************************************)
EXTENDS Delivery, FiniteSetTheorems, TLAPS

AnyLabel == {"resp", "avg", "jitter", "loss", "total_pool_usage", "cpu", "memory", "in.octets", "errors"}

ResultType == [metrics : Seq(AnyLabel), value : Int, time : Nat]
StatsdType == [at : {"off", "dial", "write", "close", "done"}, err : BOOLEAN]
RrdType(c) == [at : {"off", "dial", "files", "create", "close", "done"}, defs : FileDefs(c),
               index : Nat, err : BOOLEAN]

(* What a file may hold: rows in which every column has the value of the   *)
(* metric of its name.                                                     *)
FileType == [exists : BOOLEAN, last : Nat, rows : SUBSET [time : Nat, values : {DataSources}]]

Typed ==
  /\ kind \in Kind /\ mapped \in BOOLEAN /\ now \in Nat
  /\ DOMAIN pc = Check /\ DOMAIN judged = Check
  /\ result \in [Check -> ResultType]
  /\ DOMAIN rrd = Check /\ \A c \in Check : rrd[c] \in RrdType(c)
  /\ statsd \in [Check -> StatsdType]
  /\ files \in [File -> FileType]
  /\ gauge \in [Check -> Int] /\ sent \in [Check -> SUBSET Int]

(* A result stays as it is while a handler processes it.                   *)
Handling ==
  \A c \in Check : rrd[c].at # "off" \/ statsd[c].at # "off" => pc[c] = "handling"

(* A check creates its own file only where there is none, which no other   *)
(* check changes; and what Process is about to answer for is stored.       *)
StoringAt(c) ==
  /\ rrd[c].at = "files" => rrd[c].index > 0
  /\ rrd[c].at = "create" =>
       /\ rrd[c].index \in DOMAIN rrd[c].defs
       /\ rrd[c].defs[rrd[c].index] = c => ~files[c].exists
  /\ rrd[c].at = "close" /\ ~rrd[c].err /\ Complete(Row(result[c])) =>
       \A f \in Targets(c) \ {SharedFile} : Row(result[c]) \in files[f].rows

Storing ==
  /\ \A f \in File : ~files[f].exists => files[f].rows = {}
  /\ \A c \in Check : StoringAt(c)

KeptFiles == \A k \in kept : k.file \in Check

(* A datagram on the way carries a value that its check has reported.      *)
Sending ==
  /\ \A c \in Check : statsd[c].at # "off" => result[c].value \in sent[c]
  /\ \A d \in network : d.check \in Check /\ \E v \in sent[d.check] : d.lines = ProtocolMessage(v)

(* The inductive invariant.                                                *)
IInv ==
  /\ Typed /\ Handling /\ Storing /\ KeptFiles /\ Sending
  /\ OutcomeIsEarned /\ StoredIsReported /\ AcceptedIsStored

-----------------------------------------------------------------------------
(***************************************************************************)
(* Rows.                                                                   *)
(***************************************************************************)
LEMMA LabelsType ==
  ASSUME NEW k \in Kind
  PROVE  /\ Labels(k) \in Seq(AnyLabel) /\ Len(Labels(k)) \in Nat /\ Labels(k) # <<>>
         /\ Tail(Labels(k)) \in Seq(AnyLabel)
<1>1. /\ <<"resp">> \in Seq(AnyLabel) /\ <<"avg", "jitter", "loss">> \in Seq(AnyLabel)
      /\ <<"total_pool_usage">> \in Seq(AnyLabel) /\ <<"cpu", "memory">> \in Seq(AnyLabel)
      /\ <<"in.octets", "errors">> \in Seq(AnyLabel)
  BY DEF AnyLabel
<1>2. Labels(k) \in Seq(AnyLabel) /\ Labels(k) # <<>>
  BY <1>1 DEF Labels, Kind
<1> QED
  BY <1>2

LEMMA DataSourcesType ==
  ASSUME kind \in Kind
  PROVE  \E n \in Nat : DataSources \in [1 .. n -> AnyLabel] /\ Len(DataSources) = n
                        /\ Looked = [i \in 1 .. n |-> Looked[i]]
<1> DEFINE all == Labels(kind)
<1>1. all \in Seq(AnyLabel) /\ Len(all) \in Nat
  BY LabelsType
<1>2. DataSources = [i \in 1 .. Len(all) |-> all[Len(all) + 1 - i]]
  BY <1>1 DEF DataSources
<1> HIDE DEF all
<1>3. DataSources \in [1 .. Len(all) -> AnyLabel]
  BY <1>1, <1>2
<1>4. Len(DataSources) = Len(all) /\ DOMAIN DataSources = 1 .. Len(all)
  BY <1>1, <1>3
<1>5. Looked = [i \in 1 .. Len(all) |-> Looked[i]]
  BY <1>4 DEF Looked
<1> QED
  BY <1>1, <1>3, <1>4, <1>5

(* A row has as many values as there are data sources only if every one of *)
(* them found its metric, under its own name.                              *)
LEMMA CompleteRow ==
  ASSUME kind \in Kind, mapped \in BOOLEAN, NEW r \in ResultType, Complete(Row(r))
  PROVE  Row(r) \in [time : Nat, values : {DataSources}]
<1>1. PICK n \in Nat : DataSources \in [1 .. n -> AnyLabel] /\ Len(DataSources) = n
                       /\ Looked = [i \in 1 .. n |-> Looked[i]]
  BY DataSourcesType
<1>2. DOMAIN Looked = 1 .. n
  BY <1>1
<1>3. Found(r) \subseteq 1 .. n
  BY <1>2 DEF Found
<1>4. Cardinality(Found(r)) = n
  BY <1>1 DEF Complete, Row
<1>5. Found(r) = 1 .. n
  <2>1. IsFiniteSet(1 .. n) /\ Cardinality(1 .. n) = n
    BY FS_Interval
  <2> QED
    BY <2>1, <1>3, <1>4, FS_Subset
<1>6. ASSUME NEW i \in 1 .. n PROVE Looked[i] = DataSources[i]
  <2>1. DataSources[i] \in AnyLabel /\ i \in DOMAIN DataSources
    BY <1>1
  <2>2. Looked[i] = IF mapped THEN DataSources[i] ELSE Cleaned(DataSources[i])
    BY <2>1 DEF Looked
  <2>3. PICK j \in DOMAIN r.metrics : r.metrics[j] = Looked[i]
    BY <1>5 DEF Found
  <2>4. Looked[i] \in AnyLabel
    BY <2>3 DEF ResultType
  <2> QED
    BY <2>1, <2>2, <2>4 DEF Cleaned, AnyLabel
<1>7. [i \in Found(r) |-> Looked[i]] = DataSources
  BY <1>1, <1>5, <1>6
<1> QED
  BY <1>7 DEF Row, ResultType

LEMMA RowTime == ASSUME NEW r \in ResultType PROVE Row(r).time \in Nat
BY DEF Row, ResultType

(* The daemon's files after an update of some of a check's targets.        *)
LEMMA UpdateFilesEffect ==
  ASSUME Typed, Storing, NEW c \in Check, NEW taken \in SUBSET Acceptable(c), UpdateFiles(c, taken)
  PROVE  /\ files' \in [File -> FileType]
         /\ \A f \in File : files[f].rows \subseteq files'[f].rows /\ files'[f].exists = files[f].exists
         /\ \A f \in File : ~files'[f].exists => files'[f].rows = {}
         /\ \A f \in taken : Complete(Row(result[c])) => Row(result[c]) \in files'[f].rows
<1> DEFINE row == Row(result[c])
<1>1. /\ row.time \in Nat
      /\ Complete(row) => row \in [time : Nat, values : {DataSources}]
  BY RowTime, CompleteRow DEF Typed
<1>2. /\ files' = [f \in File |-> IF f \in taken THEN Taken(f, row) ELSE files[f]]
      /\ \A f \in taken : files[f].exists
  BY DEF UpdateFiles, Acceptable
<1>3. taken \subseteq File
  <2>1. rrd[c].defs \in FileDefs(c)
    BY DEF Typed, RrdType
  <2> QED
    BY <2>1 DEF Acceptable, Targets, FileDefs, File
<1> HIDE DEF row
<1>4. ASSUME NEW f \in File
      PROVE  /\ Taken(f, row) \in FileType
             /\ Taken(f, row).exists = files[f].exists
             /\ files[f].rows \subseteq Taken(f, row).rows
             /\ Complete(row) => row \in Taken(f, row).rows
  BY <1>1 DEF Typed, FileType, Taken
<1>5. files' \in [File -> FileType]
  BY <1>2, <1>4 DEF Typed
<1>6. \A f \in File : files[f].rows \subseteq files'[f].rows /\ files'[f].exists = files[f].exists
  BY <1>2, <1>4
<1>7. \A f \in File : ~files'[f].exists => files'[f].rows = {}
  BY <1>2, <1>4 DEF Storing
<1>8. \A f \in taken : Complete(row) => row \in files'[f].rows
  BY <1>2, <1>3, <1>4
<1> QED
  BY <1>5, <1>6, <1>7, <1>8 DEF row

-----------------------------------------------------------------------------
LEMMA FixedNext ==
  [Next]_vars => /\ UNCHANGED <<kind, handler, mapped>>
                 /\ DataSources' = DataSources /\ Looked' = Looked
<1> SUFFICES ASSUME [Next]_vars PROVE UNCHANGED <<kind, handler, mapped>>
  BY DEF DataSources, Looked
<1> QED
  BY DEF Next, Tick, RunCommand, Handle, Finish, Rrdcached, Statsd, Arrives, Terminated, vars, fixedVars,
         RrdDial, Last, LastFails, Create, Batch, BatchFails, RrdClose, RrdUnchanged,
         StatsdDial, StatsdWrite, StatsdClose, StatsdUnchanged

LEMMA RrdStepType ==
  ASSUME Typed, NEW c \in Check, NEW to \in RrdType(c), RrdStep(c, to)
  PROVE  DOMAIN rrd' = Check /\ \A d \in Check : rrd'[d] \in RrdType(d)
BY DEF Typed, RrdStep

(* What each step of Process makes of its own state.                       *)
LEMMA RrdStates ==
  ASSUME Typed, NEW c \in Check
  PROVE  /\ [rrd[c] EXCEPT !.at = "files", !.index = 1] \in RrdType(c)
         /\ [rrd[c] EXCEPT !.index = @ + 1] \in RrdType(c)
         /\ [rrd[c] EXCEPT !.at = "create"] \in RrdType(c)
         /\ [rrd[c] EXCEPT !.at = "files", !.index = @ + 1] \in RrdType(c)
         /\ [rrd[c] EXCEPT !.at = "close", !.index = 0] \in RrdType(c)
         /\ [RrdOff EXCEPT !.at = "close", !.err = TRUE] \in RrdType(c)
         /\ \A err \in BOOLEAN : RrdDone(err) \in RrdType(c)
         /\ RrdOff \in RrdType(c)
         /\ [rrd[c] EXCEPT !.at = "done"] \in RrdType(c)
         /\ \A defs \in FileDefs(c) : [rrd[c] EXCEPT !.at = "dial", !.defs = defs] \in RrdType(c)
<1>1. <<>> \in FileDefs(c)
  BY DEF FileDefs
<1>2. RrdOff \in RrdType(c)
  BY <1>1 DEF RrdType, RrdOff
<1>3. rrd[c] \in RrdType(c)
  BY DEF Typed
<1>4. ASSUME NEW r \in RrdType(c), NEW at \in {"files", "create", "close", "done"}
      PROVE  /\ [r EXCEPT !.at = at] \in RrdType(c)
             /\ \A err \in BOOLEAN : [r EXCEPT !.at = at, !.err = err] \in RrdType(c)
  BY DEF RrdType
<1>5. ASSUME NEW r \in RrdType(c), NEW at \in {"files", "create", "close", "done"}, NEW i \in Nat
      PROVE  [r EXCEPT !.at = at, !.index = i] \in RrdType(c) /\ [r EXCEPT !.index = i] \in RrdType(c)
  BY DEF RrdType
<1>6. ASSUME NEW r \in RrdType(c), NEW defs \in FileDefs(c)
      PROVE  [r EXCEPT !.at = "dial", !.defs = defs] \in RrdType(c)
  BY DEF RrdType
<1>7. rrd[c].index + 1 \in Nat
  BY <1>3 DEF RrdType
<1> QED
  BY <1>2, <1>3, <1>4, <1>5, <1>6, <1>7 DEF RrdDone

LEMMA InitInv == Init => IInv
<1> SUFFICES ASSUME Init PROVE IInv
  OBVIOUS
<1>1. \A c \in Check : RrdOff \in RrdType(c)
  BY DEF RrdOff, RrdType, FileDefs
<1>2. NoResult \in ResultType
  BY DEF NoResult, ResultType
<1>3. [exists |-> FALSE, last |-> 0, rows |-> {}] \in FileType
  BY DEF FileType
<1>4. /\ kind \in Kind /\ mapped \in BOOLEAN /\ now \in Nat
      /\ DOMAIN pc = Check /\ DOMAIN judged = Check
      /\ DOMAIN rrd = Check /\ \A c \in Check : rrd[c] \in RrdType(c)
  BY <1>1 DEF Init
<1>5. result \in [Check -> ResultType] /\ files \in [File -> FileType]
  BY <1>2, <1>3 DEF Init
<1>6. statsd \in [Check -> StatsdType]
  BY DEF Init, StatsdType, StatsdOff
<1>7. gauge \in [Check -> Int] /\ sent \in [Check -> SUBSET Int]
  BY DEF Init
<1>8. Typed
  BY <1>4, <1>5, <1>6, <1>7 DEF Typed
<1> QED
  BY <1>8 DEF Init, IInv, Handling, Storing, StoringAt, KeptFiles, Sending, OutcomeIsEarned, StoredIsReported,
     AcceptedIsStored, RrdOff, StatsdOff

-----------------------------------------------------------------------------
(***************************************************************************)
(* The steps of the rrdcached handler.                                     *)
(***************************************************************************)
(* What they keep: all but rrd, files and kept, and of those what belongs  *)
(* to other checks.                                                        *)
LEMMA RrdFrame ==
  ASSUME NEW c \in Check, Rrdcached(c)
  PROVE  /\ UNCHANGED <<fixedVars, now, executions, pc, judged, result, statsd, network, gauge, sent>>
         /\ \E to : RrdStep(c, to)
BY DEF Rrdcached, RrdDial, Last, LastFails, Create, Batch, BatchFails, RrdClose, RrdFails, RrdUnchanged

LEMMA CreateTarget ==
  ASSUME Typed, Storing, NEW c \in Check, rrd[c].at = "create"
  PROVE  /\ rrd[c].defs[rrd[c].index] \in {SharedFile, c}
         /\ rrd[c].defs[rrd[c].index] \in File
<1>1. rrd[c].defs \in FileDefs(c) /\ rrd[c].index \in DOMAIN rrd[c].defs
  BY DEF Typed, RrdType, Storing, StoringAt
<1> QED
  BY <1>1 DEF FileDefs, File

LEMMA RrdTyped ==
  ASSUME Typed, Storing, NEW c \in Check, Rrdcached(c)
  PROVE  DOMAIN rrd' = Check /\ (\A d \in Check : rrd'[d] \in RrdType(d)) /\ files' \in [File -> FileType]
<1>1. CASE RrdDial(c)
  BY <1>1, RrdStates, RrdStepType DEF RrdDial, Typed
<1>2. CASE Last(c)
  <2>1. files' = files /\ \E to \in RrdType(c) : RrdStep(c, to)
    BY <1>2, RrdStates DEF Last
  <2> QED
    BY <2>1, RrdStepType DEF Typed
<1>3. CASE LastFails(c)
  BY <1>3, RrdStates, RrdStepType DEF LastFails, RrdFails, Typed
<1>4. CASE Create(c)
  <2>1. \E to \in RrdType(c) : RrdStep(c, to)
    BY <1>4, RrdStates DEF Create, RrdFails
  <2>2. [exists |-> TRUE, last |-> 0, rows |-> {}] \in FileType
    BY DEF FileType
  <2>3. files' \in [File -> FileType]
    BY <1>4, <2>2 DEF Create, Typed
  <2> QED
    BY <2>1, <2>3, RrdStepType
<1>5. CASE Batch(c)
  BY <1>5, RrdStates, RrdStepType, UpdateFilesEffect DEF Batch
<1>6. CASE BatchFails(c)
  <2>1. files' \in [File -> FileType]
    BY <1>6, UpdateFilesEffect DEF BatchFails
  <2> QED
    BY <1>6, <2>1, RrdStates, RrdStepType DEF BatchFails, RrdFails
<1>7. CASE RrdClose(c)
  <2>1. \E to \in RrdType(c) : RrdStep(c, to)
    <3>1. rrd[c].err \in BOOLEAN
      BY DEF Typed, RrdType
    <3> QED
      BY <1>7, <3>1, RrdStates DEF RrdClose
  <2> QED
    BY <1>7, <2>1, RrdStepType DEF RrdClose, Typed
<1> QED
  BY <1>1, <1>2, <1>3, <1>4, <1>5, <1>6, <1>7 DEF Rrdcached

(* No step takes a row from the file of a check, or makes the file of      *)
(* another check.                                                          *)
LEMMA RrdFiles ==
  ASSUME Typed, Storing, NEW c \in Check, Rrdcached(c)
  PROVE  /\ \A f \in File : ~files'[f].exists => files'[f].rows = {}
         /\ \A d \in Check : files[d].rows \subseteq files'[d].rows
         /\ \A d \in Check \ {c} : files'[d].exists = files[d].exists
<1>c. Check \subseteq File
  BY DEF File
<1>1. CASE files' = files
  BY <1>1 DEF Storing
<1>2. CASE Create(c)
  <2> DEFINE f == rrd[c].defs[rrd[c].index]
             new == [exists |-> TRUE, last |-> 0, rows |-> {}]
  <2>1. f \in {SharedFile, c} /\ f \in File
    BY <1>2, CreateTarget DEF Create
  <2>2. f = c => files[c].rows = {}
    BY <1>2, <1>c DEF Create, Storing, StoringAt
  <2>3. f # c => f \notin Check
    BY <2>1, DeliveryAssumption
  <2>4. files' = [files EXCEPT ![f] = new] \/ files' = files
    BY <1>2 DEF Create
  <2> HIDE DEF f
  <2>5. CASE files' = [files EXCEPT ![f] = new]
    <3>1. \A g \in File : files'[g] = IF g = f THEN new ELSE files[g]
      BY <2>1, <2>5 DEF Typed
    <3>2. \A d \in Check : files[d].rows \subseteq files'[d].rows
      BY <3>1, <2>2, <2>3, <1>c
    <3>3. \A d \in Check \ {c} : files'[d].exists = files[d].exists
      BY <3>1, <2>1, <2>3, <1>c
    <3>4. \A g \in File : ~files'[g].exists => files'[g].rows = {}
      BY <3>1 DEF Storing
    <3> QED
      BY <3>2, <3>3, <3>4
  <2> QED
    BY <2>4, <2>5, <1>1
<1>3. CASE Batch(c)
  <2>1. UpdateFiles(c, Targets(c)) /\ Targets(c) \in SUBSET Acceptable(c)
    BY <1>3 DEF Batch
  <2> QED
    BY <2>1, <1>c, UpdateFilesEffect
<1>4. CASE BatchFails(c)
  <2>1. PICK taken \in SUBSET Acceptable(c) : UpdateFiles(c, taken)
    BY <1>4 DEF BatchFails
  <2> QED
    BY <2>1, <1>c, UpdateFilesEffect
<1> QED
  BY <1>1, <1>2, <1>3, <1>4 DEF Rrdcached, RrdDial, Last, LastFails, RrdClose

(* The check that takes the step.                                          *)
LEMMA RrdStoringSelf ==
  ASSUME Typed, Storing, NEW c \in Check, Rrdcached(c)
  PROVE  StoringAt(c)'
<1>t. /\ rrd[c] \in RrdType(c) /\ DOMAIN rrd = Check
      /\ StoringAt(c)
  BY DEF Typed, Storing
<1>1. CASE RrdDial(c)
  <2>1. rrd'[c] = [rrd[c] EXCEPT !.at = "files", !.index = 1] \/ rrd'[c] = RrdDone(TRUE)
    BY <1>1, <1>t DEF RrdDial, RrdStep
  <2>2. (rrd'[c].at = "files" /\ rrd'[c].index = 1) \/ rrd'[c].at = "done"
    BY <2>1, <1>t DEF RrdDone, RrdOff, RrdType
  <2> QED
    BY <2>2 DEF StoringAt
<1>2. CASE Last(c)
  <2>1. CASE files[rrd[c].defs[rrd[c].index]].exists
    <3>1. rrd'[c] = [rrd[c] EXCEPT !.index = @ + 1] /\ rrd[c].at = "files"
      BY <1>2, <2>1, <1>t DEF Last, AtFile, RrdStep
    <3> QED
      BY <3>1, <1>t DEF StoringAt, RrdType
  <2>2. CASE ~files[rrd[c].defs[rrd[c].index]].exists
    <3>1. /\ rrd'[c] = [rrd[c] EXCEPT !.at = "create"] /\ files' = files
          /\ rrd[c].at = "files" /\ rrd[c].index <= Len(rrd[c].defs)
      BY <1>2, <2>2, <1>t DEF Last, AtFile, RrdStep
    <3>2. rrd[c].index \in DOMAIN rrd[c].defs
      BY <3>1, <1>t DEF StoringAt, RrdType, FileDefs
    <3> QED
      BY <3>1, <3>2, <2>2, <1>t DEF StoringAt, RrdType
  <2> QED
    BY <2>1, <2>2
<1>3. CASE rrd'[c] = [RrdOff EXCEPT !.at = "close", !.err = TRUE]
  BY <1>3 DEF StoringAt, RrdOff
<1>4. CASE Create(c)
  <2>1. rrd'[c] = [rrd[c] EXCEPT !.at = "files", !.index = @ + 1]
        \/ rrd'[c] = [RrdOff EXCEPT !.at = "close", !.err = TRUE]
    BY <1>4, <1>t DEF Create, RrdFails, RrdStep
  <2>2. CASE rrd'[c] = [rrd[c] EXCEPT !.at = "files", !.index = @ + 1]
    <3>1. rrd'[c].at = "files" /\ rrd'[c].index > 0
      BY <2>2, <1>t DEF RrdType
    <3> QED
      BY <3>1 DEF StoringAt
  <2> QED
    BY <2>1, <2>2, <1>3
<1>5. CASE Batch(c)
  <2>1. /\ rrd'[c] = [rrd[c] EXCEPT !.at = "close", !.index = 0]
        /\ result' = result /\ UNCHANGED fixedVars
        /\ UpdateFiles(c, Targets(c)) /\ Targets(c) \in SUBSET Acceptable(c)
    BY <1>5, <1>t DEF Batch, RrdStep, RrdUnchanged
  <2>2. Row(result[c])' = Row(result[c]) /\ Complete(Row(result[c]))' = Complete(Row(result[c]))
    BY <2>1 DEF fixedVars, Row, Found, Looked, DataSources, Complete
  <2>3. Targets(c)' = Targets(c)
    BY <2>1, <1>t DEF Targets, RrdType
  <2>4. \A f \in Targets(c) : Complete(Row(result[c])) => Row(result[c]) \in files'[f].rows
    BY <2>1, UpdateFilesEffect
  <2> QED
    BY <2>1, <2>2, <2>3, <2>4, <1>t DEF StoringAt, RrdType
<1>6. CASE RrdClose(c)
  BY <1>6, <1>t DEF RrdClose, RrdStep, RrdDone, RrdOff, StoringAt
<1> QED
  BY <1>1, <1>2, <1>3, <1>4, <1>5, <1>6, <1>t DEF Rrdcached, LastFails, BatchFails, RrdFails, RrdStep

LEMMA RrdStoring ==
  ASSUME Typed, Storing, KeptFiles, AcceptedIsStored, NEW c \in Check, Rrdcached(c)
  PROVE  Storing' /\ KeptFiles' /\ AcceptedIsStored'
<1>1. UNCHANGED <<fixedVars, result>> /\ \A d \in Check \ {c} : rrd'[d] = rrd[d]
  BY RrdFrame DEF RrdStep, Typed
<1>2. ASSUME NEW d \in Check, d # c PROVE StoringAt(d)'
  <2>1. StoringAt(d) /\ rrd'[d] = rrd[d] /\ files'[d].exists = files[d].exists
        /\ files[d].rows \subseteq files'[d].rows
    BY <1>1, <1>2, RrdFiles DEF Storing
  <2>2. Row(result[d])' = Row(result[d]) /\ Complete(Row(result[d]))' = Complete(Row(result[d]))
    BY <1>1 DEF fixedVars, Row, Found, Looked, DataSources, Complete
  <2>3. Targets(d)' = Targets(d) /\ Targets(d) \ {SharedFile} \subseteq {d}
    <3>1. rrd[d].defs \in FileDefs(d)
      BY DEF Typed, RrdType
    <3> QED
      BY <3>1, <2>1 DEF Targets, FileDefs
  <2> QED
    BY <2>1, <2>2, <2>3 DEF StoringAt
<1>3. Storing'
  BY <1>2, RrdFiles, RrdStoringSelf DEF Storing
<1>4. KeptFiles' /\ AcceptedIsStored'
  <2>1. CASE kept' = kept
    BY <2>1, RrdFiles DEF KeptFiles, AcceptedIsStored
  <2>2. CASE RrdClose(c)
    <3>1. /\ files' = files
          /\ \/ kept' = kept
             \/ /\ rrd[c].at = "close" /\ ~rrd[c].err /\ Complete(Row(result[c]))
                /\ kept' = kept \cup {[file |-> f, row |-> Row(result[c])] : f \in Targets(c) \ {SharedFile}}
      <4>1. PICK errC \in BOOLEAN :
              kept' = IF rrd[c].err \/ errC \/ ~Complete(Row(result[c])) THEN kept
                      ELSE kept \cup {[file |-> f, row |-> Row(result[c])] : f \in Targets(c) \ {SharedFile}}
        BY <2>2, Zenon DEF RrdClose
      <4>2. rrd[c].at = "close" /\ files' = files
        BY <2>2, Zenon DEF RrdClose
      <4> QED
        BY <4>1, <4>2, Zenon
    <3>2. Targets(c) \ {SharedFile} \subseteq Check
      <4>1. rrd[c].defs \in FileDefs(c)
        BY DEF Typed, RrdType
      <4> QED
        BY <4>1 DEF Targets, FileDefs
    <3>3. StoringAt(c)
      BY DEF Storing
    <3> QED
      BY <3>1, <3>2, <3>3, <2>1 DEF StoringAt, KeptFiles, AcceptedIsStored
  <2> QED
    BY <2>1, <2>2 DEF Rrdcached, RrdDial, Last, LastFails, Create, Batch, BatchFails
<1> QED
  BY <1>3, <1>4

-----------------------------------------------------------------------------
(***************************************************************************)
(* The steps of the statsd handler and of its datagrams.                   *)
(***************************************************************************)
LEMMA StatsdFrame ==
  ASSUME Typed, NEW c \in Check, Statsd(c)
  PROVE  /\ UNCHANGED <<fixedVars, now, executions, pc, judged, result, rrd, files, sent, kept, gauge>>
         /\ statsd[c].at \in {"dial", "write", "close"}
         /\ \E to \in StatsdType : to.at # "off" /\ statsd' = [statsd EXCEPT ![c] = to]
         /\ \/ network' = network
            \/ network' = network \cup {[check |-> c, lines |-> ProtocolMessage(result[c].value)]}
<1>1. CASE StatsdDial(c)
  <2>1. [statsd[c] EXCEPT !.at = "write"] \in StatsdType /\ [at |-> "done", err |-> TRUE] \in StatsdType
        /\ [statsd[c] EXCEPT !.at = "write"].at # "off" /\ [at |-> "done", err |-> TRUE].at # "off"
    BY DEF Typed, StatsdType
  <2>2. statsd' = [statsd EXCEPT ![c] = [statsd[c] EXCEPT !.at = "write"]]
        \/ statsd' = [statsd EXCEPT ![c] = [at |-> "done", err |-> TRUE]]
    BY <1>1 DEF StatsdDial
  <2>3. \E to \in StatsdType : to.at # "off" /\ statsd' = [statsd EXCEPT ![c] = to]
    BY <2>1, <2>2, Zenon
  <2> QED
    BY <1>1, <2>3 DEF StatsdDial, StatsdUnchanged
<1>2. CASE StatsdWrite(c)
  BY <1>2 DEF StatsdWrite, StatsdUnchanged, StatsdType
<1>3. CASE StatsdClose(c)
  BY <1>3 DEF StatsdClose, StatsdUnchanged, StatsdType
<1> QED
  BY <1>1, <1>2, <1>3 DEF Statsd

(* A datagram sets the gauge to the value it was made from, whatever the   *)
(* gauge was.                                                              *)
LEMMA ArrivesEffect ==
  ASSUME Typed, Sending, NEW d \in network, Arrives(d)
  PROVE  \E v \in sent[d.check] : gauge' = [gauge EXCEPT ![d.check] = v]
<1>1. PICK v \in sent[d.check] : d.lines = ProtocolMessage(v)
  BY DEF Sending
<1>2. d.check \in Check /\ v \in Int /\ gauge[d.check] \in Int
  BY DEF Sending, Typed
<1>3. gauge' = [gauge EXCEPT ![d.check] =
                  IF Len(d.lines) = 1 THEN SetGauge(@, d.lines[1])
                  ELSE SetGauge(SetGauge(@, d.lines[1]), d.lines[2])]
  BY DEF Arrives
<1>4. CASE v < 0
  <2>1. d.lines = <<0, v>> /\ Len(d.lines) = 2 /\ d.lines[1] = 0 /\ d.lines[2] = v
    BY <1>1, <1>4 DEF ProtocolMessage
  <2>2. \A old \in Int : SetGauge(SetGauge(old, 0), v) = v
    BY <1>2, <1>4 DEF SetGauge
  <2>3. gauge' = [gauge EXCEPT ![d.check] = SetGauge(SetGauge(@, 0), v)]
    BY <1>3, <2>1
  <2> QED
    BY <1>2, <2>2, <2>3
<1>5. CASE ~(v < 0)
  <2>1. d.lines = <<v>> /\ Len(d.lines) = 1 /\ d.lines[1] = v
    BY <1>1, <1>5 DEF ProtocolMessage
  <2> QED
    BY <1>2, <1>3, <1>5, <2>1 DEF SetGauge, Typed
<1> QED
  BY <1>4, <1>5

-----------------------------------------------------------------------------
(***************************************************************************)
(* The steps of Execute.                                                   *)
(***************************************************************************)
LEMMA RunCommandResult ==
  ASSUME Typed, NEW c \in Check, RunCommand(c)
  PROVE  result' \in [Check -> ResultType]
<1>1. PICK verdict \in Verdicts[kind], v \in Values, m \in Metrics :
        result' = [result EXCEPT ![c] =
                     IF verdict.outcome.measured THEN [metrics |-> m, value |-> v, time |-> now]
                     ELSE [NoResult EXCEPT !.time = now]]
  BY DEF RunCommand
<1>2. m \in Seq(AnyLabel)
  BY LabelsType DEF Metrics, Typed
<1>3. v \in Int
  BY DEF Values, Typed
<1>4. [metrics |-> m, value |-> v, time |-> now] \in ResultType
      /\ [NoResult EXCEPT !.time = now] \in ResultType
  <2>1. [NoResult EXCEPT !.time = now] = [metrics |-> <<>>, value |-> 0, time |-> now]
        /\ <<>> \in Seq(AnyLabel) /\ now \in Nat
    BY DEF NoResult, Typed
  <2>2. [metrics |-> m, value |-> v, time |-> now] \in ResultType
    BY <1>2, <1>3, <2>1 DEF ResultType
  <2>3. [metrics |-> <<>>, value |-> 0, time |-> now] \in ResultType
    BY <2>1 DEF ResultType
  <2> QED
    BY <2>1, <2>2, <2>3
<1> QED
  BY <1>1, <1>4 DEF Typed

LEMMA TypedNext == IInv /\ [Next]_vars => Typed'
<1> SUFFICES ASSUME IInv, [Next]_vars PROVE Typed'
  OBVIOUS
<1>i. Typed /\ Storing /\ Sending
  BY DEF IInv
<1>f. UNCHANGED <<kind, handler, mapped>> /\ FileType' = FileType
      /\ \A c \in Check : RrdType(c)' = RrdType(c)
  BY FixedNext DEF FileType, RrdType, FileDefs
<1>1. CASE Tick
  BY <1>1, <1>i, <1>f DEF Tick, Typed
<1>2. ASSUME NEW c \in Check, RunCommand(c) PROVE Typed'
  <2>1. result' \in [Check -> ResultType]
    BY <1>2, <1>i, RunCommandResult
  <2>2. DOMAIN pc' = Check /\ DOMAIN judged' = Check
    BY <1>2, <1>i DEF RunCommand, Typed
  <2>3. UNCHANGED <<now, rrd, statsd, files, gauge, sent>>
    BY <1>2 DEF RunCommand
  <2> QED
    BY <2>1, <2>2, <2>3, <1>i, <1>f DEF Typed
<1>3. ASSUME NEW c \in Check, Handle(c) PROVE Typed'
  <2>1. UNCHANGED <<now, result, files, gauge>> /\ DOMAIN pc' = Check /\ DOMAIN judged' = Check
    BY <1>3, <1>i DEF Handle, Typed
  <2>2. CASE handler = "rrdcached"
    <3>1. (\E to \in RrdType(c) : RrdStep(c, to)) /\ UNCHANGED <<statsd, sent>>
      BY <1>3, <1>i, <2>2, RrdStates DEF Handle, RrdStep, Typed
    <3> QED
      BY <2>1, <3>1, <1>i, <1>f, RrdStepType DEF Typed
  <2>3. CASE handler # "rrdcached"
    <3>1. /\ statsd' = [statsd EXCEPT ![c].at = IF result[c].metrics = <<>> THEN "done" ELSE "dial"]
          /\ sent' = [sent EXCEPT ![c] = @ \cup {result[c].value}]
          /\ UNCHANGED rrd
      BY <1>3, <2>3 DEF Handle
    <3>2. statsd' \in [Check -> StatsdType]
      BY <3>1, <1>i DEF Typed, StatsdType
    <3>3. sent' \in [Check -> SUBSET Int]
      BY <3>1, <1>i DEF Typed, ResultType
    <3> QED
      BY <2>1, <3>1, <3>2, <3>3, <1>i, <1>f DEF Typed
  <2> QED
    BY <2>2, <2>3
<1>4. ASSUME NEW c \in Check, Finish(c) PROVE Typed'
  <2>1. UNCHANGED <<now, files, gauge, sent, judged>> /\ DOMAIN pc' = Check /\ RrdStep(c, RrdOff)
    BY <1>4, <1>i DEF Finish, Typed, RrdStep
  <2>2. result' \in [Check -> ResultType] /\ statsd' \in [Check -> StatsdType]
    BY <1>4, <1>i DEF Finish, Typed, NoResult, ResultType, StatsdOff, StatsdType
  <2> QED
    BY <2>1, <2>2, <1>i, <1>f, RrdStates, RrdStepType DEF Typed
<1>5. ASSUME NEW c \in Check, Rrdcached(c) PROVE Typed'
  BY <1>5, <1>i, <1>f, RrdFrame, RrdTyped DEF Typed
<1>6. ASSUME NEW c \in Check, Statsd(c) PROVE Typed'
  <2>1. UNCHANGED <<now, pc, judged, result, rrd, files, sent, gauge>>
        /\ \E to \in StatsdType : statsd' = [statsd EXCEPT ![c] = to]
    BY <1>6, <1>i, StatsdFrame
  <2> QED
    BY <2>1, <1>i, <1>f DEF Typed
<1>7. ASSUME NEW d \in network, Arrives(d) PROVE Typed'
  <2>1. PICK v \in sent[d.check] : gauge' = [gauge EXCEPT ![d.check] = v]
    BY <1>7, <1>i, ArrivesEffect
  <2>2. d.check \in Check
    BY <1>i DEF Sending
  <2>3. gauge' \in [Check -> Int]
    BY <2>1, <2>2, <1>i DEF Typed
  <2> QED
    BY <1>7, <2>3, <1>i, <1>f DEF Arrives, StatsdUnchanged, Typed
<1>8. CASE UNCHANGED vars
  BY <1>8, <1>i, <1>f DEF vars, Typed
<1> QED
  BY <1>1, <1>2, <1>3, <1>4, <1>5, <1>6, <1>7, <1>8 DEF Next, Terminated

LEMMA HandlingNext == IInv /\ [Next]_vars => Handling'
<1> SUFFICES ASSUME IInv, [Next]_vars PROVE Handling'
  OBVIOUS
<1>i. Typed /\ Handling
  BY DEF IInv
<1>1. ASSUME NEW c \in Check, RunCommand(c) PROVE Handling'
  BY <1>1, <1>i DEF RunCommand, Typed, Handling
<1>2. ASSUME NEW c \in Check, Handle(c) PROVE Handling'
  <2>1. pc' = [pc EXCEPT ![c] = "handling"]
    BY <1>2 DEF Handle
  <2>2. \A d \in Check \ {c} : rrd'[d] = rrd[d] /\ statsd'[d] = statsd[d]
    BY <1>2, <1>i DEF Handle, Typed
  <2> QED
    BY <2>1, <2>2, <1>i DEF Handling, Typed
<1>3. ASSUME NEW c \in Check, Finish(c) PROVE Handling'
  <2>1. /\ pc' = [pc EXCEPT ![c] = "idle"]
        /\ rrd' = [rrd EXCEPT ![c] = RrdOff] /\ statsd' = [statsd EXCEPT ![c] = StatsdOff]
    BY <1>3 DEF Finish
  <2> QED
    BY <2>1, <1>i DEF Handling, Typed, RrdOff, StatsdOff
<1>4. ASSUME NEW c \in Check, Rrdcached(c) PROVE Handling'
  <2>1. UNCHANGED <<pc, statsd>> /\ rrd[c].at # "off" /\ \A d \in Check \ {c} : rrd'[d] = rrd[d]
    <3>1. \E to : RrdStep(c, to)
      BY <1>4, RrdFrame
    <3>2. rrd[c].at # "off"
      BY <1>4 DEF Rrdcached, RrdDial, Last, LastFails, Create, Batch, BatchFails, RrdClose, AtFile, AllFilesSeen
    <3>3. UNCHANGED <<pc, statsd>>
      BY <1>4, RrdFrame
    <3> QED
      BY <3>1, <3>2, <3>3, <1>i DEF RrdStep, Typed
  <2> QED
    BY <2>1, <1>i DEF Handling
<1>5. ASSUME NEW c \in Check, Statsd(c) PROVE Handling'
  BY <1>5, <1>i, StatsdFrame DEF Handling, Typed
<1>6. CASE UNCHANGED <<pc, rrd, statsd>>
  BY <1>6, <1>i DEF Handling
<1> QED
  BY <1>1, <1>2, <1>3, <1>4, <1>5, <1>6
     DEF Next, Tick, Arrives, StatsdUnchanged, Terminated, vars

(* A check whose own part of the state and whose files do not change.      *)
LEMMA StoringAtStutter ==
  ASSUME NEW d \in Check, StoringAt(d), UNCHANGED <<kind, mapped, files>>,
         rrd'[d] = rrd[d], result'[d] = result[d]
  PROVE  StoringAt(d)'
<1>1. Row(result[d])' = Row(result[d]) /\ Complete(Row(result[d]))' = Complete(Row(result[d]))
  BY DEF Row, Found, Looked, DataSources, Complete
<1>2. Targets(d)' = Targets(d)
  BY DEF Targets
<1> QED
  BY <1>1, <1>2 DEF StoringAt

LEMMA StoringNext == IInv /\ [Next]_vars => Storing' /\ KeptFiles' /\ AcceptedIsStored'
<1> SUFFICES ASSUME IInv, [Next]_vars PROVE Storing' /\ KeptFiles' /\ AcceptedIsStored'
  OBVIOUS
<1>i. Typed /\ Handling /\ Storing /\ KeptFiles /\ AcceptedIsStored
  BY DEF IInv
<1>f. UNCHANGED <<kind, mapped>>
  BY FixedNext
<1>s. ASSUME UNCHANGED <<files, kept>>,
             \A d \in Check : (rrd'[d] = rrd[d] /\ result'[d] = result[d]) \/ rrd'[d].at \in {"off", "dial", "done"}
      PROVE  Storing' /\ KeptFiles' /\ AcceptedIsStored'
  <2>1. ASSUME NEW d \in Check PROVE StoringAt(d)'
    <3>1. CASE rrd'[d] = rrd[d] /\ result'[d] = result[d]
      BY <1>s, <1>i, <1>f, <3>1, StoringAtStutter DEF Storing
    <3>2. CASE rrd'[d].at \in {"off", "dial", "done"}
      BY <3>2 DEF StoringAt
    <3> QED
      BY <1>s, <3>1, <3>2
  <2> QED
    BY <1>s, <1>i, <2>1 DEF Storing, KeptFiles, AcceptedIsStored
<1>1. ASSUME NEW c \in Check, RunCommand(c) PROVE Storing' /\ KeptFiles' /\ AcceptedIsStored'
  <2>1. /\ UNCHANGED <<files, kept, rrd>> /\ rrd[c].at = "off"
        /\ \A d \in Check \ {c} : result'[d] = result[d]
    BY <1>1, <1>i DEF RunCommand, Typed, Handling
  <2> QED
    BY <2>1, <1>s
<1>2. ASSUME NEW c \in Check, Handle(c) PROVE Storing' /\ KeptFiles' /\ AcceptedIsStored'
  <2>1. UNCHANGED <<files, kept, result>>
    BY <1>2 DEF Handle
  <2>2. CASE rrd' = rrd
    BY <2>1, <2>2, <1>s
  <2>3. CASE rrd' = [rrd EXCEPT ![c].at = "done"]
    BY <2>1, <2>3, <1>i, <1>s DEF Typed, RrdType
  <2>4. ASSUME NEW defs \in FileDefs(c), rrd' = [rrd EXCEPT ![c].at = "dial", ![c].defs = defs]
        PROVE  Storing' /\ KeptFiles' /\ AcceptedIsStored'
    <3>1. \A d \in Check \ {c} : rrd'[d] = rrd[d]
      BY <2>4, <1>i DEF Typed
    <3>2. rrd'[c] = [rrd[c] EXCEPT !.at = "dial", !.defs = defs]
      BY <2>4, <1>i DEF Typed
    <3>3. rrd'[c].at = "dial"
      BY <3>2, <1>i DEF Typed, RrdType
    <3> QED
      BY <2>1, <3>1, <3>3, <1>s
  <2> QED
    BY <1>2, <2>2, <2>3, <2>4 DEF Handle
<1>3. ASSUME NEW c \in Check, Finish(c) PROVE Storing' /\ KeptFiles' /\ AcceptedIsStored'
  <2>1. /\ UNCHANGED <<files, kept>> /\ rrd' = [rrd EXCEPT ![c] = RrdOff]
        /\ result' = [result EXCEPT ![c] = NoResult]
    BY <1>3 DEF Finish
  <2>2. \A d \in Check \ {c} : rrd'[d] = rrd[d] /\ result'[d] = result[d]
    BY <2>1, <1>i DEF Typed
  <2>3. rrd'[c].at = "off"
    BY <2>1, <1>i DEF Typed, RrdOff
  <2> QED
    BY <2>1, <2>2, <2>3, <1>s
<1>4. ASSUME NEW c \in Check, Rrdcached(c) PROVE Storing' /\ KeptFiles' /\ AcceptedIsStored'
  BY <1>4, <1>i, RrdStoring
<1>5. ASSUME NEW c \in Check, Statsd(c) PROVE Storing' /\ KeptFiles' /\ AcceptedIsStored'
  BY <1>5, <1>i, <1>s, StatsdFrame
<1>6. CASE UNCHANGED <<files, kept, rrd, result>>
  BY <1>6, <1>s
<1> QED
  BY <1>1, <1>2, <1>3, <1>4, <1>5, <1>6
     DEF Next, Tick, Arrives, StatsdUnchanged, Terminated, vars

LEMMA SendingNext == IInv /\ [Next]_vars => Sending'
<1> SUFFICES ASSUME IInv, [Next]_vars PROVE Sending'
  OBVIOUS
<1>i. Typed /\ Handling /\ Sending
  BY DEF IInv
<1>1. ASSUME NEW c \in Check, RunCommand(c) PROVE Sending'
  <2>1. /\ UNCHANGED <<statsd, sent, network>> /\ statsd[c].at = "off"
        /\ \A d \in Check \ {c} : result'[d] = result[d]
    BY <1>1, <1>i DEF RunCommand, Typed, Handling
  <2> QED
    BY <2>1, <1>i DEF Sending
<1>2. ASSUME NEW c \in Check, Handle(c) PROVE Sending'
  <2>1. UNCHANGED <<network, result>>
    BY <1>2 DEF Handle
  <2>2. CASE handler = "rrdcached"
    BY <1>2, <2>1, <2>2, <1>i DEF Handle, Sending
  <2>3. CASE handler # "rrdcached"
    <3>1. /\ \A d \in Check \ {c} : statsd'[d] = statsd[d]
          /\ sent' = [sent EXCEPT ![c] = @ \cup {result[c].value}]
      BY <1>2, <2>3, <1>i DEF Handle, Typed
    <3>2. result[c].value \in sent'[c] /\ \A d \in Check : sent[d] \subseteq sent'[d]
      BY <3>1, <1>i DEF Typed
    <3> QED
      BY <2>1, <3>1, <3>2, <1>i DEF Sending
  <2> QED
    BY <2>2, <2>3
<1>3. ASSUME NEW c \in Check, Finish(c) PROVE Sending'
  <2>1. UNCHANGED <<network, sent>> /\ statsd'[c].at = "off"
    BY <1>3, <1>i DEF Finish, Typed, StatsdOff
  <2>2. \A d \in Check \ {c} : statsd'[d] = statsd[d] /\ result'[d] = result[d]
    BY <1>3, <1>i DEF Finish, Typed
  <2> QED
    BY <2>1, <2>2, <1>i DEF Sending
<1>4. ASSUME NEW c \in Check, Rrdcached(c) PROVE Sending'
  BY <1>4, <1>i, RrdFrame DEF Sending
<1>5. ASSUME NEW c \in Check, Statsd(c) PROVE Sending'
  <2>1. /\ UNCHANGED <<result, sent>> /\ statsd[c].at # "off"
        /\ \A d \in Check \ {c} : statsd'[d] = statsd[d]
    BY <1>5, <1>i, StatsdFrame DEF Typed
  <2>2. network' = network
        \/ network' = network \cup {[check |-> c, lines |-> ProtocolMessage(result[c].value)]}
    BY <1>5, <1>i, StatsdFrame
  <2>3. result[c].value \in sent[c]
    BY <2>1, <1>i DEF Sending
  <2> QED
    BY <2>1, <2>2, <2>3, <1>i DEF Sending
<1>6. ASSUME NEW d \in network, Arrives(d) PROVE Sending'
  <2>1. UNCHANGED <<result, sent, statsd>> /\ network' \subseteq network
    BY <1>6 DEF Arrives, StatsdUnchanged
  <2> QED
    BY <2>1, <1>i DEF Sending
<1>7. CASE UNCHANGED <<statsd, sent, network, result>>
  BY <1>7, <1>i DEF Sending
<1> QED
  BY <1>1, <1>2, <1>3, <1>4, <1>5, <1>6, <1>7 DEF Next, Tick, Terminated, vars

LEMMA StoredNext == IInv /\ [Next]_vars => StoredIsReported'
<1> SUFFICES ASSUME IInv, [Next]_vars PROVE StoredIsReported'
  OBVIOUS
<1>i. Typed /\ Sending /\ StoredIsReported
  BY DEF IInv
<1>1. \A f \in File : \A row \in files'[f].rows : row.values = DataSources'
  <2>1. files' \in [File -> FileType']
    BY TypedNext DEF Typed
  <2> QED
    BY <2>1 DEF FileType
<1>2. \A c \in Check : gauge'[c] \in sent'[c] \cup {0}
  <2>1. ASSUME NEW d \in network, Arrives(d) PROVE \A c \in Check : gauge'[c] \in sent'[c] \cup {0}
    <3>1. PICK v \in sent[d.check] : gauge' = [gauge EXCEPT ![d.check] = v]
      BY <2>1, <1>i, ArrivesEffect
    <3>2. sent' = sent
      BY <2>1 DEF Arrives, StatsdUnchanged
    <3> QED
      BY <3>1, <3>2, <1>i DEF Typed, StoredIsReported
  <2>2. ASSUME NEW c \in Check, Handle(c) PROVE \A d \in Check : gauge'[d] \in sent'[d] \cup {0}
    <3>1. gauge' = gauge /\ \A d \in Check : sent[d] \subseteq sent'[d]
      BY <2>2, <1>i DEF Handle, Typed
    <3> QED
      BY <3>1, <1>i DEF StoredIsReported
  <2>3. CASE UNCHANGED <<gauge, sent>>
    BY <2>3, <1>i DEF StoredIsReported
  <2> QED
    BY <2>1, <2>2, <2>3, <1>i, RrdFrame, StatsdFrame DEF Next, Tick, RunCommand, Finish, Terminated, vars
<1> QED
  BY <1>1, <1>2 DEF StoredIsReported

-----------------------------------------------------------------------------
(***************************************************************************)
(* What the commands report of what they see.                              *)
(***************************************************************************)
(* OutcomeIsEarned of one verdict.                                         *)
Earned(k, state, healthy, critical, disputable) ==
  /\ state = "OK" => healthy
  /\ healthy /\ state # "OK" => disputable
  /\ critical => \/ state = "CRIT"
                 \/ state = "WARN" /\ k \in {"ping", "ciscoresources"}
                 \/ state = "PANIC"
  /\ state = "PANIC" => k \in {"junsubpool", "ciscoresources"}

EarnedSeen(k, s) == Earned(k, Outcome(k, s).state, Healthy(k, s), Critical(k, s), FalseAlarm(k, s))

LEMMA LeastChosen ==
  ASSUME NEW S \in SUBSET Int, NEW m \in S, \A j \in S : m <= j
  PROVE  (CHOOSE i \in S : \A j \in S : i <= j) = m
<1> DEFINE least == CHOOSE i \in S : \A j \in S : i <= j
<1>1. least \in S /\ \A j \in S : least <= j
  BY Zenon
<1> HIDE DEF least
<1>2. least = m
  BY <1>1
<1> QED
  BY <1>2 DEF least

(* The first of two or of three levels that is not OK.                     *)
LEMMA FirstOfTwo ==
  ASSUME NEW a, NEW b
  PROVE  FirstNotOk(<<a, b>>) = IF a # "OK" THEN a ELSE b
<1> DEFINE levels == <<a, b>>
           bad == {i \in DOMAIN levels : levels[i] # "OK"}
<1>1. FirstNotOk(levels) = IF bad = {} THEN "OK" ELSE levels[CHOOSE i \in bad : \A j \in bad : i <= j]
  BY DEF FirstNotOk
<1>2. levels[1] = a /\ levels[2] = b
  OBVIOUS
<1>3. bad \subseteq {1, 2} /\ (1 \in bad <=> a # "OK") /\ (2 \in bad <=> b # "OK")
  OBVIOUS
<1> HIDE DEF levels, bad
<1>4. CASE a # "OK"
  <2>1. 1 \in bad /\ \A j \in bad : 1 <= j
    BY <1>3, <1>4
  <2>2. (CHOOSE i \in bad : \A j \in bad : i <= j) = 1
    BY <1>3, <2>1, LeastChosen
  <2> QED
    BY <1>1, <1>2, <1>4, <2>1, <2>2 DEF levels
<1>5. CASE a = "OK" /\ b # "OK"
  <2>1. 2 \in bad /\ \A j \in bad : 2 <= j
    BY <1>3, <1>5
  <2>2. (CHOOSE i \in bad : \A j \in bad : i <= j) = 2
    BY <1>3, <2>1, LeastChosen
  <2> QED
    BY <1>1, <1>2, <1>5, <2>1, <2>2 DEF levels
<1>6. CASE a = "OK" /\ b = "OK"
  <2>1. bad = {}
    BY <1>3, <1>6
  <2> QED
    BY <1>1, <1>6, <2>1 DEF levels
<1> QED
  BY <1>4, <1>5, <1>6

LEMMA FirstOfThree ==
  ASSUME NEW a, NEW b, NEW c
  PROVE  FirstNotOk(<<a, b, c>>) = IF a # "OK" THEN a ELSE IF b # "OK" THEN b ELSE c
<1> DEFINE levels == <<a, b, c>>
           bad == {i \in DOMAIN levels : levels[i] # "OK"}
<1>1. FirstNotOk(levels) = IF bad = {} THEN "OK" ELSE levels[CHOOSE i \in bad : \A j \in bad : i <= j]
  BY DEF FirstNotOk
<1>2. levels[1] = a /\ levels[2] = b /\ levels[3] = c
  OBVIOUS
<1>3. bad \subseteq {1, 2, 3} /\ (1 \in bad <=> a # "OK") /\ (2 \in bad <=> b # "OK") /\ (3 \in bad <=> c # "OK")
  OBVIOUS
<1> HIDE DEF levels, bad
<1>4. CASE a # "OK"
  <2>1. 1 \in bad /\ \A j \in bad : 1 <= j
    BY <1>3, <1>4
  <2>2. (CHOOSE i \in bad : \A j \in bad : i <= j) = 1
    BY <1>3, <2>1, LeastChosen
  <2> QED
    BY <1>1, <1>2, <1>4, <2>1, <2>2 DEF levels
<1>5. CASE a = "OK" /\ b # "OK"
  <2>1. 2 \in bad /\ \A j \in bad : 2 <= j
    BY <1>3, <1>5
  <2>2. (CHOOSE i \in bad : \A j \in bad : i <= j) = 2
    BY <1>3, <2>1, LeastChosen
  <2> QED
    BY <1>1, <1>2, <1>5, <2>1, <2>2 DEF levels
<1>6. CASE a = "OK" /\ b = "OK" /\ c # "OK"
  <2>1. 3 \in bad /\ \A j \in bad : 3 <= j
    BY <1>3, <1>6
  <2>2. (CHOOSE i \in bad : \A j \in bad : i <= j) = 3
    BY <1>3, <2>1, LeastChosen
  <2> QED
    BY <1>1, <1>2, <1>6, <2>1, <2>2 DEF levels
<1>7. CASE a = "OK" /\ b = "OK" /\ c = "OK"
  <2>1. bad = {}
    BY <1>3, <1>7
  <2> QED
    BY <1>1, <1>7, <2>1 DEF levels
<1> QED
  BY <1>4, <1>5, <1>6, <1>7

LEMMA MeasuredType == Measured \subseteq [value : Int, warn : Nat, crit : Nat]
BY CommandsAssumption DEF Measured

LEMMA EarnedDns == ASSUME NEW s \in Seen("dns") PROVE EarnedSeen("dns", s)
<1>1. s \in [query : {"Host, TXT or PTR", "CNAME or MX"}, got : {"answer", "timeout", "error"},
             expected : {"anything", "listed", "unlisted"}, resp : Measured]
  BY DEF Seen
<1>2. s.resp \in Measured
  BY <1>1
<1>3. Outcome("dns", s) = DnsOutcome(s)
  BY DEF Outcome
<1>4. (Healthy("dns", s) <=> s.got = "answer" /\ s.expected # "unlisted" /\ Within(s.resp, FALSE))
      /\ (Critical("dns", s) <=> s.got = "answer" /\ s.resp.value > s.resp.crit)
  BY DEF Healthy, Critical
<1>5. FalseAlarm("dns", s) <=> s.query = "CNAME or MX" /\ s.expected = "listed"
  BY DEF FalseAlarm
<1>6. CASE s.got # "answer"
  <2>1. DnsOutcome(s).state \in {"CRIT", "UNKNOWN"}
    BY <1>1, <1>6 DEF DnsOutcome, Failed
  <2> QED
    BY <1>3, <1>4, <1>6, <2>1 DEF EarnedSeen, Earned
<1>7. CASE s.got = "answer"
  <2>1. DnsOutcome(s).state = IF ~Matches(s) THEN "CRIT" ELSE Over(s.resp)
    BY <1>7 DEF DnsOutcome, RespOutcome, Judged
  <2>2. Over(s.resp) \in {"CRIT", "WARN", "OK"}
        /\ (Over(s.resp) = "OK" <=> Within(s.resp, FALSE))
        /\ (s.resp.value > s.resp.crit => Over(s.resp) = "CRIT")
    BY <1>2, MeasuredType DEF Over, Within
  <2>3. Matches(s) => s.expected # "unlisted"
    BY DEF Matches
  <2>4. s.expected # "unlisted" /\ ~Matches(s) => s.query = "CNAME or MX" /\ s.expected = "listed"
    BY <1>1 DEF Matches
  <2> QED
    BY <1>3, <1>4, <1>5, <1>7, <2>1, <2>2, <2>3, <2>4 DEF EarnedSeen, Earned
<1> QED
  BY <1>6, <1>7

LEMMA EarnedHttp == ASSUME NEW s \in Seen("http") PROVE EarnedSeen("http", s)
<1>1. s \in [got : {"answer", "badRequest", "deadline", "badCertificate", "error"},
             expected : BOOLEAN, resp : Measured]
  BY DEF Seen
<1>2. s.resp \in Measured
  BY <1>1
<1>3. Outcome("http", s) = HttpOutcome(s)
  BY DEF Outcome
<1>4. (Healthy("http", s) <=> s.got = "answer" /\ s.expected /\ Within(s.resp, FALSE))
      /\ (Critical("http", s) <=> s.got = "answer" /\ s.resp.value > s.resp.crit)
  BY DEF Healthy, Critical
<1>5. s.resp \in [value : Int, warn : Nat, crit : Nat]
  BY <1>2, MeasuredType
<1> QED
  BY <1>1, <1>3, <1>4, <1>5
     DEF EarnedSeen, Earned, HttpOutcome, RespOutcome, Judged, Failed, Over, Within, FalseAlarm

LEMMA EarnedSnmp == ASSUME NEW s \in Seen("snmp") PROVE EarnedSeen("snmp", s)
<1>1. s \in [got : {"objects", "error"}, state : {"OK", "WARN", "CRIT"}]
  BY DEF Seen
<1>2. Outcome("snmp", s) = IF s.got = "error" THEN Failed("UNKNOWN", TRUE) ELSE Judged(s.state)
  BY DEF Outcome
<1>3. (Healthy("snmp", s) <=> s.got = "objects" /\ s.state = "OK")
      /\ (Critical("snmp", s) <=> s.got = "objects" /\ s.state = "CRIT")
  BY DEF Healthy, Critical
<1> QED
  BY <1>1, <1>2, <1>3 DEF EarnedSeen, Earned, Judged, Failed

LEMMA OverFacts ==
  ASSUME NEW m \in [value : Int, warn : Int, crit : Int]
  PROVE  /\ Over(m) \in {"CRIT", "WARN", "OK"}
         /\ Over(m) = "OK" <=> Within(m, FALSE)
         /\ m.value > m.crit => Over(m) = "CRIT"
BY DEF Over, Within

LEMMA OverIfSetFacts ==
  ASSUME NEW m \in Measured
  PROVE  /\ OverIfSet(m) \in {"CRIT", "WARN", "OK"}
         /\ OverIfSet(m) = "OK" <=> Within(m, TRUE)
         /\ m.crit > 0 /\ m.value > m.crit => OverIfSet(m) = "CRIT"
BY MeasuredType DEF OverIfSet, Within

LEMMA EarnedPing == ASSUME NEW s \in Seen("ping") PROVE EarnedSeen("ping", s)
<1>1. s \in [got : {"stats", "error"}, loss : Measured, rtt : Measured, jitter : Measured]
  BY DEF Seen
<1>2. s.loss \in Measured /\ s.rtt \in Measured /\ s.jitter \in Measured /\ s.got \in {"stats", "error"}
  BY <1>1
<1>3. Outcome("ping", s) = PingOutcome(s)
  BY DEF Outcome
<1>4. /\ Healthy("ping", s) <=> /\ s.got = "stats" /\ s.loss.value # Full /\ Within(s.loss, FALSE)
                                /\ Within(s.rtt, TRUE) /\ Within(s.jitter, TRUE)
      /\ Critical("ping", s) <=> /\ s.got = "stats"
                                 /\ \/ s.loss.value = Full \/ s.loss.value > s.loss.crit
                                    \/ \E m \in {s.rtt, s.jitter} : m.crit > 0 /\ m.value > m.crit
  BY DEF Healthy, Critical
<1>5. CASE s.got = "error"
  BY <1>3, <1>4, <1>5 DEF EarnedSeen, Earned, PingOutcome, Failed
<1>6. CASE s.got = "stats"
  <2> DEFINE loss == IF s.loss.value = Full THEN "CRIT" ELSE Over(s.loss)
             rtt == OverIfSet(s.rtt)
             jitter == OverIfSet(s.jitter)
  <2>1. PingOutcome(s).state = FirstNotOk(<<loss, rtt, jitter>>)
    BY <1>6 DEF PingOutcome, PingLevels, Judged
  <2>2. s.loss \in [value : Int, warn : Int, crit : Int]
    BY <1>2, MeasuredType
  <2>3. /\ loss \in {"CRIT", "WARN", "OK"}
        /\ loss = "OK" <=> s.loss.value # Full /\ Within(s.loss, FALSE)
        /\ s.loss.value = Full \/ s.loss.value > s.loss.crit => loss # "OK"
    BY <2>2, OverFacts
  <2>4. /\ rtt \in {"CRIT", "WARN", "OK"} /\ (rtt = "OK" <=> Within(s.rtt, TRUE))
        /\ s.rtt.crit > 0 /\ s.rtt.value > s.rtt.crit => rtt # "OK"
    BY <1>2, OverIfSetFacts
  <2>5. /\ jitter \in {"CRIT", "WARN", "OK"} /\ (jitter = "OK" <=> Within(s.jitter, TRUE))
        /\ s.jitter.crit > 0 /\ s.jitter.value > s.jitter.crit => jitter # "OK"
    BY <1>2, OverIfSetFacts
  <2> HIDE DEF loss, rtt, jitter
  <2>6. PingOutcome(s).state = IF loss # "OK" THEN loss ELSE IF rtt # "OK" THEN rtt ELSE jitter
    BY <2>1, FirstOfThree
  <2>7. Healthy("ping", s) <=> loss = "OK" /\ rtt = "OK" /\ jitter = "OK"
    BY <1>4, <1>6, <2>3, <2>4, <2>5
  <2>8. Critical("ping", s) => ~(loss = "OK" /\ rtt = "OK" /\ jitter = "OK")
    BY <1>4, <2>3, <2>4, <2>5
  <2> QED
    BY <1>3, <2>3, <2>4, <2>5, <2>6, <2>7, <2>8 DEF EarnedSeen, Earned
<1> QED
  BY <1>2, <1>5, <1>6

LEMMA EarnedPool == ASSUME NEW s \in Seen("junsubpool") PROVE EarnedSeen("junsubpool", s)
<1>1. s \in [got : {"objects", "error"}, total : Amount, used : Amount, warn : Percent, crit : Percent]
  BY DEF Seen
<1>2. /\ s.total \in Nat /\ s.used \in Nat /\ s.warn \in Nat /\ s.crit \in Nat
      /\ s.got \in {"objects", "error"}
  BY <1>1, CommandsAssumption
<1>3. Outcome("junsubpool", s) = PoolOutcome(s)
  BY DEF Outcome
<1>4. /\ Healthy("junsubpool", s) <=> /\ s.got = "objects" /\ s.total > 0
                                      /\ \A t \in {s.warn, s.crit} : s.used * 100 <= t * s.total
      /\ Critical("junsubpool", s) <=> s.got = "objects" /\ s.used * 100 > s.crit * s.total
      /\ FalseAlarm("junsubpool", s) <=> /\ <<s.used, s.total>> \in RoundedUp
                                         /\ \E t \in {s.warn, s.crit} : s.used * 100 = t * s.total
  BY DEF Healthy, Critical, FalseAlarm
<1>5. CASE s.got = "error"
  BY <1>3, <1>4, <1>5 DEF EarnedSeen, Earned, PoolOutcome, Failed
<1>6. CASE s.got = "objects" /\ s.total = 0 /\ s.used = 0
  BY <1>3, <1>4, <1>6 DEF EarnedSeen, Earned, PoolOutcome, Panic, Failed
<1>7. CASE s.got = "objects" /\ ~(s.total = 0 /\ s.used = 0)
  <2> DEFINE up == <<s.used, s.total>> \in RoundedUp
             m == [value |-> 200 * s.used + (IF up THEN 1 ELSE 0),
                   warn |-> 2 * s.warn * s.total, crit |-> 2 * s.crit * s.total]
             w == s.warn * s.total
             c == s.crit * s.total
  <2>1. PoolOutcome(s).state = Over(m)
    BY <1>7 DEF PoolOutcome, PoolLevel, Judged
  <2>2. w \in Nat /\ c \in Nat /\ 2 * s.warn * s.total = 2 * w /\ 2 * s.crit * s.total = 2 * c
    BY <1>2
  <2>3. s.total = 0 => w = 0 /\ c = 0
    BY <1>2
  <2>4. m.value = 200 * s.used + (IF up THEN 1 ELSE 0) /\ m.warn = 2 * w /\ m.crit = 2 * c
    BY <2>2
  <2>5. m \in [value : Int, warn : Int, crit : Int]
    BY <1>2, <2>2
  <2> HIDE DEF m, w, c, up
  <2>6. /\ Over(m) \in {"CRIT", "WARN", "OK"}
        /\ Over(m) = "OK" <=> m.value <= m.warn /\ m.value <= m.crit
        /\ m.value > m.crit => Over(m) = "CRIT"
    BY <2>5, OverFacts DEF Within
  <2>7. /\ Healthy("junsubpool", s) <=> s.total > 0 /\ s.used * 100 <= w /\ s.used * 100 <= c
        /\ Critical("junsubpool", s) <=> s.used * 100 > c
    BY <1>4, <1>7 DEF w, c
  <2>8. Over(m) = "OK" => Healthy("junsubpool", s)
    BY <1>2, <1>7, <2>2, <2>3, <2>4, <2>6, <2>7
  <2>9. Healthy("junsubpool", s) /\ Over(m) # "OK" => up /\ (s.used * 100 = w \/ s.used * 100 = c)
    BY <1>2, <2>2, <2>4, <2>6, <2>7
  <2>10. Critical("junsubpool", s) => Over(m) = "CRIT"
    BY <1>2, <2>2, <2>4, <2>6, <2>7
  <2> QED
    BY <1>3, <1>4, <2>1, <2>6, <2>8, <2>9, <2>10 DEF EarnedSeen, Earned, up, w, c
<1> QED
  BY <1>2, <1>5, <1>6, <1>7

(* The whole percentage that the code compares exceeds a threshold just    *)
(* when the memory does.                                                   *)
LEMMA Quotient ==
  ASSUME NEW a \in Nat, NEW k \in Nat \ {0}
  PROVE  a \div k \in Nat /\ (a \div k) * k <= a /\ a < (a \div k) * k + k
OBVIOUS

LEMMA QuotientExact ==
  ASSUME NEW a \in Nat, NEW k \in Nat \ {0}, a % k = 0
  PROVE  (a \div k) * k = a
OBVIOUS

LEMMA QuotientCompare ==
  ASSUME NEW a \in Nat, NEW k \in Nat \ {0}, NEW t \in Nat
  PROVE  /\ a \div k <= t <=> a < (t + 1) * k
         /\ a % k = 0 => (a \div k - 1 <= t <=> a <= (t + 1) * k)
<1> DEFINE q == a \div k
<1>1. q \in Nat /\ q * k <= a /\ a < q * k + k
  BY Quotient
<1>2. a % k = 0 => q * k = a
  BY QuotientExact
<1> HIDE DEF q
<1>3. ASSUME NEW x \in Nat, NEW y \in Nat, x <= y
      PROVE  x * k <= y * k /\ x * k \in Nat /\ y * k \in Nat
  BY <1>3
<1>4. (q + 1) * k = q * k + k /\ (t + 1) * k \in Nat /\ q * k \in Nat
  BY <1>1
<1>5. ASSUME q <= t PROVE a < (t + 1) * k
  <2>1. (q + 1) * k <= (t + 1) * k
    BY <1>1, <1>3, <1>5
  <2> QED
    BY <1>1, <1>4, <2>1
<1>6. ASSUME ~(q <= t) PROVE (t + 1) * k <= a
  <2>1. (t + 1) * k <= q * k
    BY <1>1, <1>3, <1>6
  <2> QED
    BY <1>1, <1>4, <2>1
<1>7. ASSUME a % k = 0, q - 1 <= t PROVE a <= (t + 1) * k
  <2>1. q * k <= (t + 1) * k
    BY <1>1, <1>3, <1>7
  <2> QED
    BY <1>2, <1>7, <2>1
<1>8. ASSUME a % k = 0, ~(q - 1 <= t) PROVE (t + 1) * k < a
  <2>1. (t + 2) * k <= q * k /\ (t + 2) * k = (t + 1) * k + k
    BY <1>1, <1>3, <1>8
  <2> QED
    BY <1>2, <1>4, <1>8, <2>1
<1>9. q <= t <=> a < (t + 1) * k
  BY <1>4, <1>5, <1>6
<1>10. a % k = 0 => (q - 1 <= t <=> a <= (t + 1) * k)
  BY <1>4, <1>7, <1>8
<1> QED
  BY <1>9, <1>10 DEF q

LEMMA MemoryOverPercent ==
  ASSUME NEW s, s.used \in Nat, s.free \in Nat, s.used + s.free # 0
  PROVE  /\ MemoryPercent(s) \in Int
         /\ \A t \in Nat : MemoryPercent(s) <= t <=> ~MemoryOver(s, t)
<1>1. PICK a \in Nat, k \in Nat \ {0} : a = s.used * 100 /\ k = s.used + s.free
  OBVIOUS
<1>2. <<s.used, k>> \in RoundedDown => a % k = 0
  BY <1>1, CommandsAssumption
<1>3. a \div k \in Nat
  BY Quotient
<1>4. MemoryPercent(s) = a \div k - (IF <<s.used, k>> \in RoundedDown THEN 1 ELSE 0)
  BY <1>1 DEF MemoryPercent
<1>5. \A t : MemoryOver(s, t) <=>
        a >= (t + 1) * k /\ (<<s.used, k>> \in RoundedDown => a # (t + 1) * k)
  BY <1>1 DEF MemoryOver
<1>6. ASSUME NEW t \in Nat PROVE MemoryPercent(s) <= t <=> ~MemoryOver(s, t)
  <2>1. (t + 1) * k \in Nat
    BY <1>1
  <2>2. CASE <<s.used, k>> \in RoundedDown
    <3>1. MemoryPercent(s) = a \div k - 1 /\ (a \div k - 1 <= t <=> a <= (t + 1) * k)
      BY <1>2, <1>4, <2>2, QuotientCompare
    <3>2. ~MemoryOver(s, t) <=> a <= (t + 1) * k
      BY <1>5, <2>1, <2>2
    <3> QED
      BY <3>1, <3>2
  <2>3. CASE <<s.used, k>> \notin RoundedDown
    <3>0. a \div k <= t <=> a < (t + 1) * k
      BY QuotientCompare
    <3>1. MemoryPercent(s) = a \div k
      BY <1>3, <1>4, <2>3
    <3>2. ~MemoryOver(s, t) <=> a < (t + 1) * k
      BY <1>5, <2>1, <2>3
    <3> QED
      BY <3>0, <3>1, <3>2
  <2> QED
    BY <2>2, <2>3
<1> QED
  BY <1>3, <1>4, <1>6

LEMMA EarnedCisco == ASSUME NEW s \in Seen("ciscoresources") PROVE EarnedSeen("ciscoresources", s)
<1>1. s \in [got : {"objects", "foreign", "notThree", "error"}, cpu : Measured,
             used : Amount, free : Amount, warn : Percent, crit : Percent]
  BY DEF Seen
<1>2. /\ s.cpu \in Measured /\ s.used \in Nat /\ s.free \in Nat /\ s.warn \in Nat
      /\ s.crit \in Nat /\ s.got \in {"objects", "foreign", "notThree", "error"}
  BY <1>1, CommandsAssumption
<1>3. Outcome("ciscoresources", s) = CiscoOutcome(s)
  BY DEF Outcome
<1>4. /\ Healthy("ciscoresources", s) <=>
           /\ s.got = "objects" /\ s.used + s.free > 0 /\ Within(s.cpu, FALSE)
           /\ ~MemoryOver(s, s.warn) /\ ~MemoryOver(s, s.crit)
      /\ Critical("ciscoresources", s) <=>
           s.got = "objects" /\ (s.cpu.value > s.cpu.crit \/ MemoryOver(s, s.crit))
  BY DEF Healthy, Critical
<1>5. CASE s.got # "objects"
  <2>1. CiscoOutcome(s).state \in {"UNKNOWN", "PANIC"}
    BY <1>2, <1>5 DEF CiscoOutcome, Failed, Panic
  <2> QED
    BY <1>3, <1>4, <1>5, <2>1 DEF EarnedSeen, Earned
<1>6. CASE s.got = "objects" /\ s.used + s.free = 0
  <2>1. CiscoOutcome(s).state = "PANIC"
    <3>1. s.got \notin {"error", "notThree"}
      BY <1>6
    <3>2. CiscoOutcome(s) = Panic
      BY <1>6, <3>1, Zenon DEF CiscoOutcome
    <3> QED
      BY <3>2 DEF Panic, Failed
  <2>2. ~Healthy("ciscoresources", s)
    <3>1. ~(s.used + s.free > 0)
      BY <1>2, <1>6
    <3> QED
      BY <1>4, <3>1, Zenon
  <2> QED
    BY <1>3, <2>1, <2>2 DEF EarnedSeen, Earned
<1>7. CASE s.got = "objects" /\ s.used + s.free # 0
  <2> DEFINE m == [value |-> MemoryPercent(s), warn |-> s.warn, crit |-> s.crit]
             cpu == Over(s.cpu)
             mem == Over(m)
  <2>1. CiscoOutcome(s).state = FirstNotOk(<<cpu, mem>>)
    BY <1>7 DEF CiscoOutcome, CiscoLevels, Judged
  <2>2. s.cpu \in [value : Int, warn : Int, crit : Int]
    BY <1>2, MeasuredType
  <2>3. /\ cpu \in {"CRIT", "WARN", "OK"} /\ (cpu = "OK" <=> Within(s.cpu, FALSE))
        /\ s.cpu.value > s.cpu.crit => cpu # "OK"
    BY <2>2, OverFacts
  <2>4. /\ MemoryPercent(s) \in Int
        /\ \A t \in Nat : MemoryPercent(s) <= t <=> ~MemoryOver(s, t)
    BY <1>2, <1>7, MemoryOverPercent
  <2>5. m \in [value : Int, warn : Int, crit : Int]
        /\ m.value = MemoryPercent(s) /\ m.warn = s.warn /\ m.crit = s.crit
    BY <1>2, <2>4
  <2> HIDE DEF m
  <2>6. /\ mem \in {"CRIT", "WARN", "OK"}
        /\ mem = "OK" <=> MemoryPercent(s) <= s.warn /\ MemoryPercent(s) <= s.crit
    BY <2>5, OverFacts DEF Within
  <2> HIDE DEF cpu, mem
  <2>7. CiscoOutcome(s).state = IF cpu # "OK" THEN cpu ELSE mem
    BY <2>1, FirstOfTwo
  <2>8. Healthy("ciscoresources", s) <=> cpu = "OK" /\ mem = "OK"
    <3>1. s.used + s.free > 0
      BY <1>2, <1>7
    <3> QED
      BY <1>2, <1>4, <1>7, <2>3, <2>4, <2>6, <3>1
  <2>9. Critical("ciscoresources", s) => ~(cpu = "OK" /\ mem = "OK")
    BY <1>2, <1>4, <2>3, <2>4, <2>6
  <2> QED
    BY <1>3, <2>3, <2>6, <2>7, <2>8, <2>9 DEF EarnedSeen, Earned
<1> QED
  BY <1>5, <1>6, <1>7

LEMMA VerdictEarned ==
  ASSUME NEW k \in Kind, NEW verdict \in Verdicts[k]
  PROVE  Earned(k, verdict.judged.state, verdict.judged.healthy, verdict.judged.critical,
                verdict.judged.disputable)
<1>1. PICK s \in Seen(k) :
        verdict = [outcome |-> Outcome(k, s),
                   judged |-> [state |-> Outcome(k, s).state, healthy |-> Healthy(k, s),
                               critical |-> Critical(k, s), disputable |-> FalseAlarm(k, s)]]
  BY DEF Verdicts
<1>2. EarnedSeen(k, s)
  BY EarnedDns, EarnedHttp, EarnedPing, EarnedPool, EarnedCisco, EarnedSnmp DEF Kind
<1>3. /\ verdict.judged.state = Outcome(k, s).state
      /\ verdict.judged.healthy = Healthy(k, s)
      /\ verdict.judged.critical = Critical(k, s)
      /\ verdict.judged.disputable = FalseAlarm(k, s)
  BY <1>1
<1> QED
  BY <1>2, <1>3, Zenon DEF EarnedSeen

LEMMA EarnedNext == IInv /\ [Next]_vars => OutcomeIsEarned'
<1> SUFFICES ASSUME IInv, [Next]_vars PROVE OutcomeIsEarned'
  OBVIOUS
<1>i. Typed /\ Handling /\ OutcomeIsEarned
  BY DEF IInv
<1>f. kind' = kind
  BY FixedNext
<1>1. ASSUME NEW c \in Check, RunCommand(c) PROVE OutcomeIsEarned'
  <2>1. PICK verdict \in Verdicts[kind] : judged' = [judged EXCEPT ![c] = verdict.judged]
    BY <1>1 DEF RunCommand
  <2>2. \A d \in Check \ {c} : judged'[d] = judged[d] /\ pc'[d] = pc[d]
    BY <1>1, <2>1, <1>i DEF RunCommand, Typed
  <2>3. judged'[c] = verdict.judged
    BY <2>1, <1>i DEF Typed
  <2>4. Earned(kind, verdict.judged.state, verdict.judged.healthy, verdict.judged.critical,
               verdict.judged.disputable)
    BY VerdictEarned, <1>i DEF Typed
  <2> QED
    BY <2>2, <2>3, <2>4, <1>i, <1>f DEF OutcomeIsEarned, Earned
<1>2. ASSUME NEW c \in Check, Handle(c) PROVE OutcomeIsEarned'
  BY <1>2, <1>i, <1>f DEF Handle, Typed, OutcomeIsEarned
<1>3. ASSUME NEW c \in Check, Finish(c) PROVE OutcomeIsEarned'
  BY <1>3, <1>i, <1>f DEF Finish, Typed, OutcomeIsEarned
<1>4. CASE UNCHANGED <<pc, judged>>
  BY <1>4, <1>i, <1>f DEF OutcomeIsEarned
<1> QED
  BY <1>1, <1>2, <1>3, <1>4, <1>i, RrdFrame, StatsdFrame
     DEF Next, Tick, Arrives, StatsdUnchanged, Terminated, vars

-----------------------------------------------------------------------------
LEMMA Invariance == Spec => []IInv
<1>1. IInv /\ [Next]_vars => IInv'
  BY TypedNext, HandlingNext, StoringNext, SendingNext, StoredNext, EarnedNext DEF IInv
<1> QED
  BY InitInv, <1>1, PTL DEF Spec

(* Of what it sees each command reports OK only what is in order, worse    *)
(* than it is only what two quirks touch, less than critical only what an  *)
(* earlier quantity at WARN hides, and panics only where it divides what   *)
(* an agent sent.                                                          *)
THEOREM Earning == Spec => []OutcomeIsEarned
<1>1. IInv => OutcomeIsEarned
  BY DEF IInv
<1> QED
  BY Invariance, <1>1, PTL

(* In every stored row each column has the value of the metric of its      *)
(* name, and every gauge of statsd has a value that its check reported,    *)
(* for any number of checks, files and datagrams.                          *)
THEOREM Faithful == Spec => []StoredIsReported
<1>1. IInv => StoredIsReported
  BY DEF IInv
<1> QED
  BY Invariance, <1>1, PTL

(* A row that Process of the rrdcached handler gave up without an error    *)
(* stays in the file of its check: the next execution's CREATE cannot      *)
(* replace the file.                                                       *)
THEOREM Accepted == Spec => []AcceptedIsStored
<1>1. IInv => AcceptedIsStored
  BY DEF IInv
<1> QED
  BY Invariance, <1>1, PTL
=============================================================================
