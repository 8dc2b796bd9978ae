---------------------------- MODULE ExecuteProofs ----------------------------
(***************************************************************************)
(* Proofs about module Execute, for any number of handlers and any number  *)
(* of incidents.                                                           *)
(***************************************************************************)
EXTENDS Execute, FiniteSetTheorems, TLAPS

(* The goroutines that wg still counts.                                    *)
Running == {h \in Handler : procPc[h] \in {"processing", "sending", "wgDone"}}

(* TypeOK but for the upper bound of wg, which needs the count.            *)
Typed ==
  /\ suppress \in BOOLEAN /\ executed \in BOOLEAN /\ hasRun \in BOOLEAN
  /\ handlers \in 0 .. MaxHandlers /\ mutated \in 0 .. handlers
  /\ lastResult \in ResultState \cup {NoResult} /\ result \in ResultState \cup {NoResult}
  /\ raised \in Seq([from : ResultState, to : ResultState, resolved : BOOLEAN])
  /\ incident \in 0 .. Len(raised) /\ newIncident \in 0 .. Len(raised)
  /\ pc \in Steps
  /\ procPc \in [Handler -> ProcSteps] /\ procErr \subseteq Handler
  /\ wg \in Int
  /\ errClosed \in BOOLEAN
  /\ errs \subseteq Handler \cup {0}

(* What is local to one execution is there from the step that computes it  *)
(* to the end of Execute.                                                  *)
Local ==
  /\ IF pc = "idle" THEN result = NoResult ELSE result \in ResultState
  /\ pc \in {"idle", "incident"} => newIncident = Nil /\ mutated = 0
  /\ pc \in {"process", "collect", "publish"} => mutated = handlers

(* The goroutines of the handlers live while Execute collects errors; an   *)
(* error that is not collected yet is one a goroutine is still sending.    *)
Goroutines ==
  /\ pc \notin {"collect", "publish"} =>
       ~errClosed /\ procErr = {} /\ \A h \in Handler : procPc[h] = "off"
  /\ errClosed \/ pc = "publish" => \A h \in Handler : procPc[h] \in {"off", "ended"}
  /\ procErr = (errs \ {0}) \cup {h \in Handler : procPc[h] = "sending"}

Counted == wg = Cardinality(Running)

(* The incident that the check will have when this execution ends.         *)
Current == IF newIncident # Nil THEN newIncident ELSE incident

(* Before the incident is decided, the check's incident is about its last  *)
(* result; after that, the current incident is about the new result.       *)
About(i, state) ==
  /\ Open(i) => state # "OK" /\ raised[i].to = state
  /\ ~suppress /\ state # "OK" => i # Nil /\ raised[i].to = state

Judged ==
  /\ suppress => raised = <<>>
  /\ pc \in {"idle", "incident"} /\ lastResult # NoResult => About(incident, lastResult)
  /\ pc \notin {"idle", "incident"} => About(Current, result)

(* The inductive invariant.                                                *)
IInv == Typed /\ Local /\ Goroutines /\ Counted /\ OneOpenIncident /\ Judged

-----------------------------------------------------------------------------
LEMMA TypedInit == Init => Typed
<1> SUFFICES ASSUME Init PROVE Typed
  OBVIOUS
<1> USE ExecuteAssumption DEF Init, Handler, Nil
<1>1. raised \in Seq([from : ResultState, to : ResultState, resolved : BOOLEAN])
  OBVIOUS
<1>2. incident \in 0 .. Len(raised) /\ newIncident \in 0 .. Len(raised)
  OBVIOUS
<1>3. procPc \in [Handler -> ProcSteps]
  BY DEF ProcSteps
<1>4. handlers \in 0 .. MaxHandlers /\ mutated \in 0 .. handlers /\ pc \in Steps
  BY DEF Steps
<1>5. /\ suppress \in BOOLEAN /\ executed \in BOOLEAN /\ hasRun \in BOOLEAN
      /\ errClosed \in BOOLEAN
  OBVIOUS
<1>6. lastResult \in ResultState \cup {NoResult} /\ result \in ResultState \cup {NoResult}
  OBVIOUS
<1>7. procErr \subseteq Handler /\ wg \in Int /\ errs \subseteq Handler \cup {0}
  OBVIOUS
<1> QED
  BY <1>1, <1>2, <1>3, <1>4, <1>5, <1>6, <1>7, Zenon DEF Typed

(* Appending an incident and resolving one keep raised a sequence of       *)
(* incidents; nothing else changes any of them.                            *)
Made == IF JustifiesNewIncident THEN Append(raised, IncidentFromResults) ELSE raised

LEMMA DecideEffect ==
  ASSUME Typed, Local, DecideIncident
  PROVE  /\ Made \in Seq([from : ResultState, to : ResultState, resolved : BOOLEAN])
         /\ Len(Made) = IF JustifiesNewIncident THEN Len(raised) + 1 ELSE Len(raised)
         /\ \A i \in 1 .. Len(raised) : Made[i] = raised[i]
         /\ JustifiesNewIncident => Made[Len(raised) + 1] = IncidentFromResults
         /\ IF incident # Nil /\ (result = "OK" \/ JustifiesNewIncident)
            THEN IF ~raised[incident].resolved
                 THEN raised' = [Made EXCEPT ![incident].resolved = TRUE] /\ incident' = incident
                 ELSE raised' = Made /\ incident' = Nil
            ELSE raised' = Made /\ incident' = incident
         /\ newIncident' = IF JustifiesNewIncident THEN Len(raised) + 1 ELSE Nil
         /\ raised' \in Seq([from : ResultState, to : ResultState, resolved : BOOLEAN])
         /\ Len(raised') = Len(Made)
<1> DEFINE Incident == [from : ResultState, to : ResultState, resolved : BOOLEAN]
<1>1. raised \in Seq(Incident) /\ result \in ResultState /\ incident \in 0 .. Len(raised)
  BY DEF Typed, Local, DecideIncident
<1>2. IncidentFromResults \in Incident
  BY <1>1 DEF IncidentFromResults, Typed, ResultState
<1> HIDE DEF Incident
<1>3. /\ Made \in Seq(Incident)
      /\ Len(Made) = IF JustifiesNewIncident THEN Len(raised) + 1 ELSE Len(raised)
      /\ \A i \in 1 .. Len(raised) : Made[i] = raised[i]
      /\ JustifiesNewIncident => Made[Len(raised) + 1] = IncidentFromResults
  BY <1>1, <1>2 DEF Made
<1>4. /\ IF incident # Nil /\ (result = "OK" \/ JustifiesNewIncident)
         THEN IF ~raised[incident].resolved
              THEN raised' = [Made EXCEPT ![incident].resolved = TRUE] /\ incident' = incident
              ELSE raised' = Made /\ incident' = Nil
         ELSE raised' = Made /\ incident' = incident
      /\ newIncident' = IF JustifiesNewIncident THEN Len(raised) + 1 ELSE Nil
  BY DEF DecideIncident, ResolveOrDiscard, Made
<1>5. raised' \in Seq(Incident) /\ Len(raised') = Len(Made)
  <2>1. CASE raised' = Made
    BY <1>3, <2>1
  <2>2. CASE incident # Nil /\ raised' = [Made EXCEPT ![incident].resolved = TRUE]
    <3>1. incident \in 1 .. Len(Made)
      BY <1>1, <1>3, <2>2 DEF Nil
    <3>2. Made[incident] \in Incident
      BY <1>3, <3>1
    <3>3. [Made[incident] EXCEPT !.resolved = TRUE] \in Incident
      BY <3>2 DEF Incident
    <3> QED
      BY <1>3, <2>2, <3>1, <3>3
  <2> QED
    BY <1>4, <2>1, <2>2
<1> QED
  BY <1>3, <1>4, <1>5 DEF Incident

(* What becomes of the incidents: the previous one is resolved when it has  *)
(* to be, and the rest stay what they are.                                 *)
LEMMA DecideIncidents ==
  ASSUME Typed, Local, DecideIncident
  PROVE  /\ \A i \in 1 .. Len(raised) : i # incident => raised'[i] = raised[i]
         /\ \A i \in 1 .. Len(raised) : raised'[i].to = raised[i].to
         /\ incident # Nil => (raised[incident].resolved => raised'[incident].resolved)
         /\ incident # Nil /\ (result = "OK" \/ JustifiesNewIncident) =>
              raised'[incident].resolved
         /\ JustifiesNewIncident => raised'[Len(raised) + 1] = IncidentFromResults
<1> DEFINE Incident == [from : ResultState, to : ResultState, resolved : BOOLEAN]
<1>1. raised \in Seq(Incident) /\ incident \in 0 .. Len(raised)
  BY DEF Typed
<1>2. /\ Made \in Seq(Incident)
      /\ Len(Made) = IF JustifiesNewIncident THEN Len(raised) + 1 ELSE Len(raised)
      /\ \A i \in 1 .. Len(raised) : Made[i] = raised[i]
      /\ JustifiesNewIncident => Made[Len(raised) + 1] = IncidentFromResults
  BY DecideEffect
<1> HIDE DEF Incident
<1>3. CASE raised' = Made /\ ~(/\ incident # Nil
                               /\ result = "OK" \/ JustifiesNewIncident
                               /\ ~raised[incident].resolved)
  BY <1>1, <1>2, <1>3 DEF Nil
<1>4. CASE /\ incident # Nil
           /\ result = "OK" \/ JustifiesNewIncident
           /\ raised' = [Made EXCEPT ![incident].resolved = TRUE]
  <2>1. incident \in 1 .. Len(raised) /\ incident \in 1 .. Len(Made)
    BY <1>1, <1>2, <1>4 DEF Nil
  <2>2. Made[incident] \in Incident
    BY <1>2, <2>1
  <2>3. \A i \in 1 .. Len(Made) :
          raised'[i] = IF i = incident THEN [Made[i] EXCEPT !.resolved = TRUE] ELSE Made[i]
    <3>1. DOMAIN Made = 1 .. Len(Made)
      BY <1>2
    <3>2. raised' = [Made EXCEPT ![incident] = [Made[incident] EXCEPT !.resolved = TRUE]]
      BY <1>4
    <3> QED
      BY <2>1, <3>1, <3>2
  <2>4. raised'[incident].resolved /\ raised'[incident].to = Made[incident].to
    BY <2>1, <2>2, <2>3 DEF Incident
  <2>5. \A i \in 1 .. Len(raised) : i \in 1 .. Len(Made)
    BY <1>1, <1>2
  <2>6. \A i \in 1 .. Len(raised) : i # incident => raised'[i] = raised[i]
    BY <1>2, <2>3, <2>5
  <2>7. JustifiesNewIncident => raised'[Len(raised) + 1] = IncidentFromResults
    <3>1. JustifiesNewIncident => Len(raised) + 1 \in 1 .. Len(Made) /\ Len(raised) + 1 # incident
      BY <1>1, <1>2, <2>1
    <3> QED
      BY <1>2, <2>3, <3>1
  <2>8. raised'[incident].to = raised[incident].to
    BY <1>2, <2>1, <2>4
  <2> QED
    BY <1>4, <2>4, <2>6, <2>7, <2>8
<1> QED
  BY <1>3, <1>4, DecideEffect

LEMMA TypedNext == Typed /\ Local /\ [Next]_vars => Typed'
<1> SUFFICES ASSUME Typed, Local, [Next]_vars PROVE Typed'
  OBVIOUS
<1> USE ExecuteAssumption DEF Handler, Nil
<1>1. CASE Reload
  BY <1>1 DEF Reload, Typed, procVars
<1>2. ASSUME NEW state \in ResultState, NEW failed \in BOOLEAN, RunCommand(state, failed)
      PROVE  Typed'
  BY <1>2 DEF RunCommand, Typed, Steps, procVars
<1>3. CASE DecideIncident
  <2>1. incident' \in 0 .. Len(raised') /\ newIncident' \in 0 .. Len(raised')
    BY <1>3, DecideEffect DEF Typed
  <2>2. raised' \in Seq([from : ResultState, to : ResultState, resolved : BOOLEAN])
    BY <1>3, DecideEffect
  <2>3. pc' \in Steps /\ UNCHANGED <<suppress, handlers, executed, hasRun, lastResult, result,
                                     mutated, procPc, procErr, wg, errClosed, errs>>
    BY <1>3 DEF DecideIncident, Steps, procVars
  <2> QED
    BY <2>1, <2>2, <2>3 DEF Typed
<1>4. CASE Mutate
  BY <1>4 DEF Mutate, Typed, checkVars, procVars
<1>5. CASE MutateEnd
  BY <1>5 DEF MutateEnd, Typed, Steps, checkVars, procVars
<1>6. CASE ProcessNone
  BY <1>6 DEF ProcessNone, Typed, Steps, checkVars, procVars
<1>7. CASE ProcessSpawn
  BY <1>7 DEF ProcessSpawn, Typed, Steps, ProcSteps, checkVars
<1>8. CASE CollectEnd
  BY <1>8 DEF CollectEnd, Typed, Steps, checkVars, procVars
<1>9. CASE Publish
  <2>1. /\ hasRun' \in BOOLEAN /\ errClosed' \in BOOLEAN
        /\ lastResult' \in ResultState \cup {NoResult} /\ result' \in ResultState \cup {NoResult}
    BY <1>9 DEF Publish, Typed
  <2>2. incident' \in 0 .. Len(raised') /\ newIncident' \in 0 .. Len(raised')
    BY <1>9 DEF Publish, Typed
  <2>3. pc' \in Steps /\ mutated' \in 0 .. handlers'
    BY <1>9 DEF Publish, Typed, Steps
  <2>4. procPc' \in [Handler -> ProcSteps] /\ procErr' \subseteq Handler
        /\ errs' \subseteq Handler \cup {0}
    BY <1>9 DEF Publish, ProcSteps
  <2>5. UNCHANGED <<suppress, handlers, executed, raised, wg>>
    BY <1>9 DEF Publish
  <2> QED
    BY <2>1, <2>2, <2>3, <2>4, <2>5 DEF Typed
<1>10. ASSUME NEW h \in Handler, ProcessStep(h) PROVE Typed'
  <2>1. ASSUME NEW failed \in BOOLEAN, ProcessReturn(h, failed) PROVE Typed'
    BY <2>1 DEF ProcessReturn, Typed, ProcSteps, checkVars
  <2>2. CASE SendError(h)
    BY <2>2 DEF SendError, Typed, ProcSteps, checkVars
  <2>3. CASE ProcessDone(h)
    BY <2>3 DEF ProcessDone, Typed, ProcSteps, checkVars
  <2> QED
    BY <1>10, <2>1, <2>2, <2>3 DEF ProcessStep
<1>11. CASE CloseErrors
  BY <1>11 DEF CloseErrors, Typed, checkVars
<1>12. CASE UNCHANGED vars
  BY <1>12 DEF vars, Typed, checkVars, procVars
<1> QED
  BY <1>1, <1>2, <1>3, <1>4, <1>5, <1>6, <1>7, <1>8, <1>9, <1>10, <1>11, <1>12
  DEF Next, ExecuteStep, Exhausted

-----------------------------------------------------------------------------
LEMMA LocalInit == Init => Local
BY DEF Init, Local

LEMMA LocalNext == Typed /\ Local /\ [Next]_vars => Local'
<1> SUFFICES ASSUME Typed, Local, [Next]_vars PROVE Local'
  OBVIOUS
<1> USE DEF Local
<1>1. CASE Reload
  BY <1>1 DEF Reload
<1>2. ASSUME NEW state \in ResultState, NEW failed \in BOOLEAN, RunCommand(state, failed)
      PROVE  Local'
  BY <1>2 DEF RunCommand
<1>3. CASE DecideIncident \/ Mutate \/ MutateEnd
  BY <1>3 DEF DecideIncident, Mutate, MutateEnd, checkVars
<1>4. CASE ProcessNone \/ ProcessSpawn \/ CollectEnd
  BY <1>4 DEF ProcessNone, ProcessSpawn, CollectEnd, checkVars
<1>5. CASE Publish
  BY <1>5 DEF Publish
<1>6. ASSUME NEW h \in Handler, ProcessStep(h) PROVE Local'
  BY <1>6 DEF ProcessStep, ProcessReturn, SendError, ProcessDone, checkVars
<1>7. CASE CloseErrors \/ UNCHANGED vars
  BY <1>7 DEF CloseErrors, vars, checkVars
<1> QED
  BY <1>1, <1>2, <1>3, <1>4, <1>5, <1>6, <1>7 DEF Next, ExecuteStep, Exhausted

-----------------------------------------------------------------------------
(* wg counts the goroutines that have not ended.                           *)
LEMMA RunningFinite ==
  /\ IsFiniteSet(Handler)
  /\ IsFiniteSet(Running) /\ Cardinality(Running) \in Nat
  /\ Cardinality(Running) <= MaxHandlers
  /\ Cardinality(Running) = 0 <=> Running = {}
<1>1. IsFiniteSet(Handler) /\ Cardinality(Handler) = MaxHandlers
  BY FS_Interval, ExecuteAssumption DEF Handler
<1>2. Running \subseteq Handler
  BY DEF Running
<1> QED
  BY <1>1, <1>2, FS_Subset, FS_CardinalityType, FS_EmptySet

LEMMA CountedInit == Init => Counted
<1> SUFFICES ASSUME Init PROVE Counted
  OBVIOUS
<1>1. Running = {}
  BY DEF Init, Running
<1> QED
  BY <1>1, FS_EmptySet DEF Init, Counted

LEMMA CountedNext == Typed /\ Goroutines /\ Counted /\ [Next]_vars => Counted'
<1> SUFFICES ASSUME Typed, Goroutines, Counted, [Next]_vars PROVE Counted'
  OBVIOUS
<1>1. CASE UNCHANGED <<procPc, wg>>
  <2>1. Running' = Running
    BY <1>1 DEF Running
  <2> QED
    BY <1>1, <2>1 DEF Counted
<1>2. CASE ProcessSpawn
  <2>1. Running' = 1 .. handlers
    BY <1>2, ExecuteAssumption DEF ProcessSpawn, Running, Handler, Typed
  <2>2. Cardinality(1 .. handlers) = handlers
    BY FS_Interval, ExecuteAssumption DEF Typed
  <2> QED
    BY <1>2, <2>1, <2>2 DEF ProcessSpawn, Counted
<1>3. ASSUME NEW h \in Handler, NEW failed \in BOOLEAN, ProcessReturn(h, failed)
      PROVE  Counted'
  <2>1. Running' = Running
    BY <1>3 DEF ProcessReturn, Running, Typed
  <2> QED
    BY <1>3, <2>1 DEF ProcessReturn, Counted
<1>4. ASSUME NEW h \in Handler, SendError(h) PROVE Counted'
  <2>1. Running' = Running
    BY <1>4 DEF SendError, Running, Typed
  <2> QED
    BY <1>4, <2>1 DEF SendError, Counted
<1>5. ASSUME NEW h \in Handler, ProcessDone(h) PROVE Counted'
  <2>1. h \in Running /\ Running' = Running \ {h}
    BY <1>5 DEF ProcessDone, Running, Typed
  <2>2. Cardinality(Running') = Cardinality(Running) - 1
    BY <2>1, RunningFinite, FS_RemoveElement
  <2> QED
    BY <1>5, <2>2 DEF ProcessDone, Counted
<1>6. CASE Publish
  <2>1. Running = {} /\ Running' = {}
    BY <1>6 DEF Publish, Running, Goroutines
  <2> QED
    BY <1>6, <2>1 DEF Publish, Counted
<1>7. CASE DecideIncident \/ Mutate \/ MutateEnd \/ ProcessNone \/ CollectEnd
  BY <1>1, <1>7 DEF DecideIncident, Mutate, MutateEnd, ProcessNone, CollectEnd, procVars
<1>8. CASE Reload \/ CloseErrors \/ UNCHANGED vars
  BY <1>1, <1>8 DEF Reload, CloseErrors, vars, procVars
<1>9. ASSUME NEW state \in ResultState, NEW failed \in BOOLEAN, RunCommand(state, failed)
      PROVE  Counted'
  BY <1>1, <1>9 DEF RunCommand, procVars
<1> QED
  BY <1>2, <1>3, <1>4, <1>5, <1>6, <1>7, <1>8, <1>9
  DEF Next, ExecuteStep, ProcessStep, Exhausted

-----------------------------------------------------------------------------
LEMMA GoroutinesInit == Init => Goroutines
BY DEF Init, Goroutines

LEMMA GoroutinesNext == Typed /\ Goroutines /\ Counted /\ [Next]_vars => Goroutines'
<1> SUFFICES ASSUME Typed, Goroutines, Counted, [Next]_vars PROVE Goroutines'
  OBVIOUS
<1>1. CASE Reload
  BY <1>1 DEF Reload, Goroutines, procVars
<1>2. ASSUME NEW state \in ResultState, NEW failed \in BOOLEAN, RunCommand(state, failed)
      PROVE  Goroutines'
  BY <1>2 DEF RunCommand, Goroutines, procVars
<1>3. CASE DecideIncident \/ Mutate \/ MutateEnd
  <2>1. UNCHANGED <<procPc, procErr, errClosed, errs>>
        /\ pc \notin {"collect", "publish"} /\ pc' \notin {"collect", "publish"}
    BY <1>3 DEF DecideIncident, Mutate, MutateEnd, procVars
  <2> QED
    BY <2>1 DEF Goroutines
<1>4. CASE ProcessNone \/ CollectEnd
  BY <1>4 DEF ProcessNone, CollectEnd, Goroutines, procVars
<1>5. CASE ProcessSpawn
  <2>1. \A h \in Handler : procPc'[h] \in {"off", "processing"}
    BY <1>5 DEF ProcessSpawn
  <2>2. procErr' = {} /\ errs' \ {0} = {} /\ ~errClosed' /\ pc' = "collect"
    BY <1>5 DEF ProcessSpawn, Goroutines
  <2> QED
    BY <2>1, <2>2 DEF Goroutines
<1>6. CASE Publish
  BY <1>6 DEF Publish, Goroutines
<1>7. ASSUME NEW h \in Handler PROVE procPc[h] \in {"processing", "sending", "wgDone"} =>
                                       pc = "collect" /\ ~errClosed
  BY DEF Goroutines, Typed, Steps
<1>8. ASSUME NEW h \in Handler, NEW failed \in BOOLEAN, ProcessReturn(h, failed)
      PROVE  Goroutines'
  <2>1. pc' = "collect" /\ ~errClosed' /\ errs' = errs
    BY <1>7, <1>8 DEF ProcessReturn
  <2>2. {g \in Handler : procPc'[g] = "sending"} =
          {g \in Handler : procPc[g] = "sending"} \cup IF failed THEN {h} ELSE {}
    BY <1>8 DEF ProcessReturn, Typed
  <2>3. procErr' = procErr \cup IF failed THEN {h} ELSE {}
    BY <1>8 DEF ProcessReturn
  <2> QED
    BY <2>1, <2>2, <2>3 DEF Goroutines
<1>9. ASSUME NEW h \in Handler, SendError(h) PROVE Goroutines'
  <2>1. pc' = "collect" /\ ~errClosed' /\ errs' = errs \cup {h} /\ procErr' = procErr
    BY <1>7, <1>9 DEF SendError
  <2>2. {g \in Handler : procPc'[g] = "sending"} = {g \in Handler : procPc[g] = "sending"} \ {h}
    BY <1>9 DEF SendError, Typed
  <2>3. h \in {g \in Handler : procPc[g] = "sending"} /\ h # 0
    BY <1>9, ExecuteAssumption DEF SendError, Handler
  <2> QED
    BY <2>1, <2>2, <2>3 DEF Goroutines
<1>10. ASSUME NEW h \in Handler, ProcessDone(h) PROVE Goroutines'
  <2>1. pc' = "collect" /\ ~errClosed' /\ errs' = errs /\ procErr' = procErr
    BY <1>7, <1>10 DEF ProcessDone
  <2>2. {g \in Handler : procPc'[g] = "sending"} = {g \in Handler : procPc[g] = "sending"}
    BY <1>10 DEF ProcessDone, Typed
  <2> QED
    BY <2>1, <2>2 DEF Goroutines
<1>11. CASE CloseErrors
  <2>1. Running = {}
    BY <1>11, RunningFinite DEF CloseErrors, Counted
  <2>2. \A h \in Handler : procPc[h] \in {"off", "ended"}
    BY <2>1 DEF Running, Typed, ProcSteps
  <2> QED
    BY <1>11, <2>2 DEF CloseErrors, Goroutines
<1>12. CASE UNCHANGED vars
  BY <1>12 DEF vars, procVars, Goroutines
<1> QED
  BY <1>1, <1>2, <1>3, <1>4, <1>5, <1>6, <1>8, <1>9, <1>10, <1>11, <1>12
  DEF Next, ExecuteStep, ProcessStep, Exhausted

-----------------------------------------------------------------------------
(* About and Open look at no more of the state than this.                  *)
LEMMA UnjudgedStep ==
  ASSUME UNCHANGED <<suppress, lastResult, incident, raised, result, newIncident>>
  PROVE  /\ OneOpenIncident => OneOpenIncident'
         /\ About(incident, lastResult)' <=> About(incident, lastResult)
         /\ About(Current, result)' <=> About(Current, result)
BY DEF OneOpenIncident, About, Open, Current, Incidents

LEMMA OneOpenInit == Init => OneOpenIncident
BY DEF Init, OneOpenIncident, Incidents

LEMMA OneOpenNext == Typed /\ Local /\ OneOpenIncident /\ [Next]_vars => OneOpenIncident'
<1> SUFFICES ASSUME Typed, Local, OneOpenIncident, [Next]_vars PROVE OneOpenIncident'
  OBVIOUS
<1>1. CASE DecideIncident
  <2>1. newIncident = Nil /\ incident \in 0 .. Len(raised)
    BY <1>1 DEF DecideIncident, Local, Typed
  <2>2. \A i \in 1 .. Len(raised) : ~raised[i].resolved => i = incident
    BY <2>1, ExecuteAssumption DEF OneOpenIncident, Incidents, Open, Nil
  <2>3. \A i \in 1 .. Len(raised) : i # incident => raised'[i] = raised[i]
    BY <1>1, DecideIncidents
  <2>4. CASE JustifiesNewIncident
    <3>1. /\ Len(raised') = Len(raised) + 1
          /\ newIncident' = Len(raised) + 1
      BY <1>1, <2>4, DecideEffect
    <3>2. ASSUME incident # Nil PROVE raised'[incident].resolved
      BY <1>1, <2>4, <3>2, DecideIncidents
    <3>3. \A i \in 1 .. Len(raised) : raised'[i].resolved
      BY <2>2, <2>3, <3>2 DEF Nil
    <3>4. \A i \in 1 .. Len(raised') : ~raised'[i].resolved => i = Len(raised) + 1
      BY <2>1, <3>1, <3>3, DecideEffect, <1>1 DEF Typed
    <3> QED
      BY <3>1, <3>4 DEF OneOpenIncident, Incidents, Open, Nil, Typed
  <2>5. CASE ~JustifiesNewIncident
    <3>1. Len(raised') = Len(raised) /\ newIncident' = Nil
      BY <1>1, <2>5, DecideEffect
    <3>2. CASE incident' = incident
      BY <2>2, <2>3, <3>1, <3>2 DEF OneOpenIncident, Incidents, Open, Nil
    <3>3. CASE incident' # incident
      <4>1. raised' = raised /\ raised[incident].resolved
        BY <1>1, <2>5, <3>3, DecideEffect DEF Made
      <4> QED
        BY <2>2, <3>1, <4>1 DEF OneOpenIncident, Incidents, Open
    <3> QED
      BY <3>2, <3>3
  <2> QED
    BY <2>4, <2>5
<1>2. CASE Publish
  <2>1. raised' = raised /\ newIncident' = Nil /\ incident' = Current
    BY <1>2 DEF Publish, Current
  <2> QED
    BY <2>1 DEF OneOpenIncident, Incidents, Open, Current
<1>3. CASE UNCHANGED <<raised, incident, newIncident>>
  BY <1>3 DEF OneOpenIncident, Incidents, Open
<1>4. CASE Reload \/ Mutate \/ MutateEnd \/ ProcessNone \/ ProcessSpawn \/ CollectEnd
  BY <1>3, <1>4 DEF Reload, Mutate, MutateEnd, ProcessNone, ProcessSpawn, CollectEnd, checkVars
<1>5. ASSUME NEW state \in ResultState, NEW failed \in BOOLEAN, RunCommand(state, failed)
      PROVE  OneOpenIncident'
  BY <1>3, <1>5 DEF RunCommand
<1>6. ASSUME NEW h \in Handler, ProcessStep(h) PROVE OneOpenIncident'
  BY <1>3, <1>6 DEF ProcessStep, ProcessReturn, SendError, ProcessDone, checkVars
<1>7. CASE CloseErrors \/ UNCHANGED vars
  BY <1>3, <1>7 DEF CloseErrors, vars, checkVars
<1> QED
  BY <1>1, <1>2, <1>4, <1>5, <1>6, <1>7 DEF Next, ExecuteStep, Exhausted

-----------------------------------------------------------------------------
(* A new incident is about a result that differs from the last one.        *)
LEMMA JustifiedIsChange ==
  ASSUME Typed, Local, Judged, pc = "incident", JustifiesNewIncident
  PROVE  result # lastResult
<1> SUFFICES ASSUME result = lastResult PROVE FALSE
  OBVIOUS
<1>1. lastResult # NoResult
  BY NoResultAssumption DEF Local
<1>2. ~suppress /\ result # "OK"
  BY DEF JustifiesNewIncident
<1>3. incident # Nil /\ raised[incident].to = result
  BY <1>1, <1>2 DEF Judged, About
<1> QED
  BY <1>3 DEF JustifiesNewIncident

LEMMA JudgedInit == Init => Judged
BY DEF Init, Judged

LEMMA JudgedNext == Typed /\ Local /\ Judged /\ [Next]_vars => Judged'
<1> SUFFICES ASSUME Typed, Local, Judged, [Next]_vars PROVE Judged'
  OBVIOUS
<1>1. CASE DecideIncident
  <2>1. /\ pc = "incident" /\ pc' = "mutate"
        /\ UNCHANGED <<suppress, lastResult, result>>
    BY <1>1 DEF DecideIncident
  <2>2. incident \in 0 .. Len(raised) /\ Len(raised) \in Nat
    BY DEF Typed
  <2>3. CASE JustifiesNewIncident
    <3>1. Current' = Len(raised) + 1
      BY <1>1, <2>2, <2>3, DecideEffect DEF Current, Nil
    <3>2. raised'[Len(raised) + 1].to = result /\ result # "OK" /\ ~suppress
      BY <1>1, <2>3, DecideIncidents DEF IncidentFromResults, JustifiesNewIncident
    <3> QED
      BY <2>1, <2>2, <3>1, <3>2 DEF Judged, About, Nil
  <2>4. CASE ~JustifiesNewIncident
    <3>1. /\ Current' = incident' /\ incident' \in {incident, Nil}
          /\ incident' # incident => result = "OK"
          /\ Len(raised') = Len(raised)
      BY <1>1, <2>4, DecideEffect DEF Current
    <3>2. suppress => raised' = <<>>
      <4>1. suppress => raised = <<>> /\ incident = Nil
        BY <2>2 DEF Judged, Nil
      <4> QED
        BY <1>1, <2>4, <4>1, DecideEffect DEF Made
    <3>3. CASE result = "OK"
      <4>1. ~Open(incident)'
        BY <1>1, <3>1, <3>3, DecideIncidents DEF Open
      <4> QED
        BY <2>1, <3>1, <3>2, <3>3, <4>1 DEF Judged, About, Open
    <3>4. CASE suppress
      <4>1. incident' = Nil
        BY <2>2, <3>1, <3>4 DEF Judged, Nil
      <4> QED
        BY <2>1, <3>1, <3>2, <3>4, <4>1 DEF Judged, About, Open
    <3>5. CASE ~suppress /\ result # "OK"
      <4>1. incident # Nil /\ raised[incident].to = result
        <5>1. CASE incident # Nil
          BY <2>4, <3>5, <5>1 DEF JustifiesNewIncident
        <5>2. CASE incident = Nil
          <6>1. lastResult # NoResult /\ lastResult = result
            BY <2>4, <3>5, <5>2 DEF JustifiesNewIncident
          <6> QED
            BY <2>1, <3>5, <6>1 DEF Judged, About
        <5> QED
          BY <5>1, <5>2
      <4>2. incident' = incident /\ raised'[incident].to = result
        BY <1>1, <2>2, <3>1, <3>5, <4>1, DecideIncidents DEF Nil
      <4> QED
        BY <2>1, <3>1, <3>2, <3>5, <4>1, <4>2 DEF Judged, About, Open
    <3> QED
      BY <3>3, <3>4, <3>5
  <2> QED
    BY <2>3, <2>4
<1>2. CASE Publish
  <2>1. /\ pc = "publish" /\ pc' = "idle" /\ lastResult' = result
        /\ raised' = raised /\ suppress' = suppress /\ incident' = Current
    BY <1>2 DEF Publish, Current
  <2> QED
    BY <2>1 DEF Judged, About, Open
<1>3. CASE Reload
  BY <1>3 DEF Reload, Judged, About, Open
<1>4. ASSUME NEW state \in ResultState, NEW failed \in BOOLEAN, RunCommand(state, failed)
      PROVE  Judged'
  BY <1>4 DEF RunCommand, Judged, About, Open
<1>5. CASE /\ UNCHANGED <<suppress, lastResult, incident, raised, result, newIncident>>
           /\ pc' \in {"idle", "incident"} <=> pc \in {"idle", "incident"}
  BY <1>5, UnjudgedStep DEF Judged
<1>6. CASE Mutate \/ MutateEnd \/ ProcessNone \/ ProcessSpawn \/ CollectEnd
  BY <1>5, <1>6 DEF Mutate, MutateEnd, ProcessNone, ProcessSpawn, CollectEnd, checkVars
<1>7. ASSUME NEW h \in Handler, ProcessStep(h) PROVE Judged'
  BY <1>5, <1>7 DEF ProcessStep, ProcessReturn, SendError, ProcessDone, checkVars
<1>8. CASE CloseErrors \/ UNCHANGED vars
  BY <1>5, <1>8 DEF CloseErrors, vars, checkVars
<1> QED
  BY <1>1, <1>2, <1>3, <1>4, <1>6, <1>7, <1>8 DEF Next, ExecuteStep, Exhausted

-----------------------------------------------------------------------------
LEMMA IInvInit == Init => IInv
BY TypedInit, LocalInit, GoroutinesInit, CountedInit, OneOpenInit, JudgedInit DEF IInv

LEMMA IInvNext == IInv /\ [Next]_vars => IInv'
BY TypedNext, LocalNext, GoroutinesNext, CountedNext, OneOpenNext, JudgedNext DEF IInv

LEMMA Invariance == Spec => []IInv
BY IInvInit, IInvNext, PTL DEF Spec

(* Every variable has its type and no pointer dangles: no execution, with  *)
(* however many handlers, points at an incident that was never made.       *)
THEOREM Typing == Spec => []TypeOK
<1>1. IInv => TypeOK
  BY RunningFinite, ExecuteAssumption DEF IInv, Typed, Counted, TypeOK
<1> QED
  BY <1>1, Invariance, PTL

(* However long a check runs, at most one of its incidents is open, and it *)
(* is the one the check or the execution in progress has.                  *)
THEOREM OneOpen == Spec => []OneOpenIncident
<1>1. IInv => OneOpenIncident
  BY DEF IInv
<1> QED
  BY <1>1, Invariance, PTL

(* Between executions an open incident is about the state of the check.    *)
THEOREM OpenMatches == Spec => []OpenIncidentMatches
<1>1. IInv => OpenIncidentMatches
  BY DEF IInv, Judged, About, OpenIncidentMatches
<1> QED
  BY <1>1, Invariance, PTL

(* A check that ended up not OK has an incident for that state.            *)
THEOREM NotOkIncident == Spec => []NotOkHasIncident
<1>1. IInv => NotOkHasIncident
  BY DEF IInv, Judged, About, NotOkHasIncident
<1> QED
  BY <1>1, Invariance, PTL

(* No goroutine of a handler is left when Execute goes on, and it has      *)
(* collected the error of every handler that failed.                       *)
THEOREM Containment == Spec => []ProcessingContained
<1>1. IInv => ProcessingContained
  <2> SUFFICES ASSUME IInv PROVE ProcessingContained
    OBVIOUS
  <2>1. (\E h \in Handler : procPc[h] # "off") => mutated = handlers /\ pc \in {"collect", "publish"}
    BY DEF IInv, Local, Goroutines
  <2>2. ASSUME pc = "publish" PROVE errs \ {0} = procErr
    <3>1. \A h \in Handler : procPc[h] \in {"off", "ended"}
      BY <2>2 DEF IInv, Goroutines
    <3>2. {h \in Handler : procPc[h] = "sending"} = {}
      BY <3>1
    <3> QED
      BY <3>2 DEF IInv, Goroutines
  <2> QED
    BY <2>1, <2>2 DEF IInv, Goroutines, ProcessingContained
<1> QED
  BY <1>1, Invariance, PTL

(* While a handler processes, no step writes what the handlers read.       *)
THEOREM Unwritten == Spec => NothingWrittenWhileProcessing
<1>1. IInv /\ [Next]_vars =>
        [(\E h \in Handler : procPc[h] = "processing") =>
           UNCHANGED <<checkVars, raised, result, newIncident>>]_vars
  <2> SUFFICES ASSUME IInv, [Next]_vars, NEW h \in Handler, procPc[h] = "processing"
               PROVE  UNCHANGED <<checkVars, raised, result, newIncident>>
    OBVIOUS
  <2>1. pc = "collect"
    BY DEF IInv, Typed, Goroutines, Steps
  <2> QED
    BY <2>1 DEF Next, ExecuteStep, ProcessStep, Exhausted, Reload, RunCommand, DecideIncident,
                Mutate, MutateEnd, ProcessNone, ProcessSpawn, CollectEnd, Publish,
                ProcessReturn, SendError, ProcessDone, CloseErrors, vars
<1> QED
  BY <1>1, Invariance, PTL DEF Spec, NothingWrittenWhileProcessing

(* An incident is made only by an execution whose result differs from the  *)
(* last one, whatever became of the incidents before it.                   *)
THEOREM RaisedOnlyOnChange == Spec => RaisedOnChange
<1>1. IInv /\ [Next]_vars => [Len(raised') > Len(raised) => result # lastResult]_vars
  <2> SUFFICES ASSUME IInv, [Next]_vars, Len(raised') > Len(raised)
               PROVE  result # lastResult
    OBVIOUS
  <2>1. Len(raised) \in Nat
    BY DEF IInv, Typed
  <2>2. raised' # raised
    BY <2>1
  <2>3. DecideIncident
    BY <2>2 DEF Next, ExecuteStep, ProcessStep, Exhausted, Reload, RunCommand, Mutate,
                MutateEnd, ProcessNone, ProcessSpawn, CollectEnd, Publish, ProcessReturn,
                SendError, ProcessDone, CloseErrors, vars
  <2>4. JustifiesNewIncident
    BY <2>1, <2>3, DecideEffect DEF IInv
  <2> QED
    BY <2>3, <2>4, JustifiedIsChange DEF IInv, DecideIncident
<1> QED
  BY <1>1, Invariance, PTL DEF Spec, RaisedOnChange
=============================================================================
