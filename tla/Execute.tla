------------------------------ MODULE Execute ------------------------------
(***************************************************************************)
(* check.Check.Execute (check/check.go, check/result.go): one check runs   *)
(* its command again and again; each time it raises, resolves or discards  *)
(* an incident, lets the handlers mutate the result in turn, lets them     *)
(* process it in goroutines of their own that send their errors on an      *)
(* unbuffered channel, and then records the result.                        *)
(*                                                                         *)
(* Incidents are pointers in the code: here raised holds every incident    *)
(* made so far, and a pointer is an index of it, 0 being nil.              *)
(* The Mutate methods of the handlers of the repository change nothing.    *)
(***************************************************************************)
EXTENDS Integers, Sequences, FiniteSets

CONSTANTS
  MaxHandlers,   \* bound of the model: the most handlers of a check
  MaxIncidents,  \* bound of the model: how many incidents are made
  NoResult       \* the nil *Result

ASSUME ExecuteAssumption ==
  /\ MaxHandlers \in Nat
  /\ MaxIncidents \in Nat

ResultState == {"OK", "WARN", "CRIT", "UNKNOWN"}

ASSUME NoResultAssumption == NoResult \notin ResultState

Handler == 1 .. MaxHandlers
Nil     == 0

VARIABLES
  suppress,     \* Check.SuppressIncidents, fixed
  handlers,     \* len(Check.Handlers), fixed
  executed,     \* Check.Executed
  hasRun,       \* Check.LastCheck is not nil
  lastResult,   \* the State of Check.LastResult
  incident,     \* Check.Incident
  raised,       \* the incidents made, [from, to, resolved]
  pc,           \* the next step of Execute
  result,       \* the State of the new result
  newIncident,  \* the new incident
  mutated,      \* how many handlers have mutated
  procPc,       \* what the goroutine of each handler does next
  procErr,      \* history: the handlers whose Process failed
  wg,           \* the WaitGroup of the goroutines
  errClosed,    \* errorCh has been closed
  errs          \* the errors collected, from the command (0) and handlers

checkVars == <<suppress, handlers, executed, hasRun, lastResult, incident>>
procVars  == <<procPc, procErr, wg, errClosed>>
vars == <<checkVars, raised, pc, result, newIncident, mutated, procVars, errs>>

Steps     == {"idle", "incident", "mutate", "process", "collect", "publish"}
ProcSteps == {"off", "processing", "sending", "wgDone", "ended"}

Init ==
  /\ suppress \in BOOLEAN
  /\ handlers \in 0 .. MaxHandlers
  /\ executed = FALSE /\ hasRun = FALSE
  /\ lastResult = NoResult /\ incident = Nil
  /\ raised = <<>>
  /\ pc = "idle"
  /\ result = NoResult /\ newIncident = Nil
  /\ mutated = 0
  /\ procPc = [h \in Handler |-> "off"]
  /\ procErr = {}
  /\ wg = 0
  /\ errClosed = FALSE
  /\ errs = {}

(***************************************************************************)
(* Between executions a check may be stored in a backend and loaded again; *)
(* its LastResult need not be kept then, and its Executed is false.        *)
(***************************************************************************)
Reload ==
  /\ pc = "idle"
  /\ executed' = FALSE
  /\ lastResult' \in {lastResult, NoResult}
  /\ UNCHANGED <<suppress, handlers, hasRun, incident, raised, pc, result, newIncident,
                 mutated, procVars, errs>>

(* The command returns a result and perhaps an error; a missing command is *)
(* the outcome UNKNOWN with an error.                                      *)
RunCommand(state, failed) ==
  /\ pc = "idle"
  /\ executed' = TRUE
  /\ result' = state
  /\ errs' = IF failed THEN {0} ELSE {}
  /\ pc' = "incident"
  /\ UNCHANGED <<suppress, handlers, hasRun, lastResult, incident, raised, newIncident,
                 mutated, procVars>>

(* Mutant: an incident in place stands for every later state.              *)
JustifiesUnlessIncident ==
  /\ ~suppress
  /\ result # "OK"
  /\ incident = Nil
  /\ lastResult # NoResult => lastResult # result

(* Mutant: every result that is not OK raises an incident.                 *)
JustifiesAlways ==
  /\ ~suppress
  /\ result # "OK"

JustifiesNewIncident ==
  /\ ~suppress
  /\ result # "OK"
  /\ IF incident # Nil THEN raised[incident].to # result
     ELSE lastResult # NoResult => lastResult # result

(* MakeIncidentFromResults: without a last result it comes from UNKNOWN.   *)
IncidentFromResults ==
  [from |-> IF lastResult = NoResult THEN "UNKNOWN" ELSE lastResult,
   to |-> result, resolved |-> FALSE]

(* Mutant: a new incident does not resolve the one before it.              *)
ResolveOnlyWhenOk(made, isNew) ==
  IF incident # Nil /\ result = "OK"
  THEN IF ~raised[incident].resolved
       THEN raised' = [made EXCEPT ![incident].resolved = TRUE] /\ UNCHANGED incident
       ELSE raised' = made /\ incident' = Nil
  ELSE raised' = made /\ UNCHANGED incident

(* resolveOrDiscardPreviousIncident, with the incidents made so far        *)
(* including the new one, if any.                                          *)
ResolveOrDiscard(made, isNew) ==
  IF incident # Nil /\ (result = "OK" \/ isNew)
  THEN IF ~raised[incident].resolved
       THEN raised' = [made EXCEPT ![incident].resolved = TRUE] /\ UNCHANGED incident
       ELSE raised' = made /\ incident' = Nil
  ELSE raised' = made /\ UNCHANGED incident

DecideIncident ==
  /\ pc = "incident"
  /\ IF JustifiesNewIncident
     THEN /\ Len(raised) < MaxIncidents
          /\ newIncident' = Len(raised) + 1
          /\ ResolveOrDiscard(Append(raised, IncidentFromResults), TRUE)
     ELSE /\ newIncident' = Nil
          /\ ResolveOrDiscard(raised, FALSE)
  /\ pc' = "mutate"
  /\ UNCHANGED <<suppress, handlers, executed, hasRun, lastResult, result,
                 mutated, procVars, errs>>

(* Mutant: the mutations run one past the last handler.                    *)
MutateTooMany ==
  /\ pc = "mutate"
  /\ mutated <= handlers
  /\ mutated' = mutated + 1
  /\ UNCHANGED <<checkVars, raised, pc, result, newIncident, procVars, errs>>

Mutate ==
  /\ pc = "mutate"
  /\ mutated < handlers
  /\ mutated' = mutated + 1
  /\ UNCHANGED <<checkVars, raised, pc, result, newIncident, procVars, errs>>

MutateEnd ==
  /\ pc = "mutate"
  /\ mutated = handlers
  /\ pc' = "process"
  /\ UNCHANGED <<checkVars, raised, result, newIncident, mutated, procVars, errs>>

(***************************************************************************)
(* runResultHandlerProcessing.  Handlers may be nil or an empty slice.     *)
(***************************************************************************)
ProcessNone ==
  /\ pc = "process" /\ handlers = 0
  /\ pc' = "publish"
  /\ UNCHANGED <<checkVars, raised, result, newIncident, mutated, procVars, errs>>

ProcessSpawn ==
  /\ pc = "process"
  /\ procPc' = [h \in Handler |-> IF h <= handlers THEN "processing" ELSE "off"]
  /\ wg' = handlers
  /\ pc' = "collect"
  /\ UNCHANGED <<checkVars, raised, result, newIncident, mutated, procErr, errClosed, errs>>

ProcessReturn(h, failed) ==
  /\ procPc[h] = "processing"
  /\ procPc' = [procPc EXCEPT ![h] = IF failed THEN "sending" ELSE "wgDone"]
  /\ procErr' = IF failed THEN procErr \cup {h} ELSE procErr
  /\ UNCHANGED <<checkVars, raised, pc, result, newIncident, mutated, wg, errClosed, errs>>

(* Mutant: Execute waits for the goroutines before it reads errorCh.       *)
SendErrorAfterWait(h) ==
  /\ procPc[h] = "sending"
  /\ pc = "collect" /\ errClosed
  /\ errs' = errs \cup {h}
  /\ procPc' = [procPc EXCEPT ![h] = "wgDone"]
  /\ UNCHANGED <<checkVars, raised, pc, result, newIncident, mutated, procErr, wg, errClosed>>

(* errorCh is unbuffered: the send and the receive are one step.           *)
SendError(h) ==
  /\ procPc[h] = "sending"
  /\ pc = "collect"
  /\ errs' = errs \cup {h}
  /\ procPc' = [procPc EXCEPT ![h] = "wgDone"]
  /\ UNCHANGED <<checkVars, raised, pc, result, newIncident, mutated, procErr, wg, errClosed>>

ProcessDone(h) ==
  /\ procPc[h] = "wgDone"
  /\ wg' = wg - 1
  /\ procPc' = [procPc EXCEPT ![h] = "ended"]
  /\ UNCHANGED <<checkVars, raised, pc, result, newIncident, mutated, procErr, errClosed, errs>>

(* The goroutine that waits for the others and closes errorCh.             *)
CloseErrors ==
  /\ pc = "collect" /\ ~errClosed
  /\ wg = 0
  /\ errClosed' = TRUE
  /\ UNCHANGED <<checkVars, raised, pc, result, newIncident, mutated, procPc, procErr, wg, errs>>

(* Mutant: the first error ends the collection.                            *)
CollectEndAtError ==
  /\ pc = "collect"
  /\ errClosed \/ errs \ {0} # {}
  /\ pc' = "publish"
  /\ UNCHANGED <<checkVars, raised, result, newIncident, mutated, procVars, errs>>

CollectEnd ==
  /\ pc = "collect"
  /\ errClosed
  /\ pc' = "publish"
  /\ UNCHANGED <<checkVars, raised, result, newIncident, mutated, procVars, errs>>

(* Mutant: the new incident, even nil, always becomes the check's.         *)
PublishOverwrites ==
  /\ pc = "publish"
  /\ hasRun' = TRUE
  /\ lastResult' = result
  /\ incident' = newIncident
  /\ pc' = "idle"
  /\ result' = NoResult /\ newIncident' = Nil /\ mutated' = 0
  /\ procPc' = [h \in Handler |-> "off"] /\ procErr' = {}
  /\ errClosed' = FALSE /\ errs' = {}
  /\ UNCHANGED <<suppress, handlers, executed, raised, wg>>

(* The end of Execute; what was local to the call is reset.                *)
Publish ==
  /\ pc = "publish"
  /\ hasRun' = TRUE
  /\ lastResult' = result
  /\ incident' = IF newIncident # Nil THEN newIncident ELSE incident
  /\ pc' = "idle"
  /\ result' = NoResult /\ newIncident' = Nil /\ mutated' = 0
  /\ procPc' = [h \in Handler |-> "off"] /\ procErr' = {}
  /\ errClosed' = FALSE /\ errs' = {}
  /\ UNCHANGED <<suppress, handlers, executed, raised, wg>>

ExecuteStep == DecideIncident \/ Mutate \/ MutateEnd \/ ProcessNone \/ ProcessSpawn
                 \/ CollectEnd \/ Publish

ProcessStep(h) ==
  \/ \E failed \in BOOLEAN : ProcessReturn(h, failed)
  \/ SendError(h)
  \/ ProcessDone(h)

(* The bound on incidents has been reached.                                *)
Exhausted ==
  /\ pc = "incident" /\ JustifiesNewIncident
  /\ Len(raised) = MaxIncidents
  /\ UNCHANGED vars

Next ==
  \/ Reload
  \/ \E state \in ResultState, failed \in BOOLEAN : RunCommand(state, failed)
  \/ ExecuteStep
  \/ \E h \in Handler : ProcessStep(h)
  \/ CloseErrors
  \/ Exhausted

Spec == Init /\ [][Next]_vars

(* The goroutine of Execute and those it starts run while they can, and    *)
(* every Process of the repository returns.                                *)
FairSpec ==
  /\ Spec
  /\ WF_vars(ExecuteStep)
  /\ \A h \in Handler : WF_vars(ProcessStep(h))
  /\ WF_vars(CloseErrors)

-----------------------------------------------------------------------------
(***************************************************************************)
(* Properties.                                                             *)
(***************************************************************************)
Incidents == 1 .. Len(raised)

Open(i) == i # Nil /\ ~raised[i].resolved

(* Every variable has its type; no pointer dangles.                        *)
TypeOK ==
  /\ suppress \in BOOLEAN /\ executed \in BOOLEAN /\ hasRun \in BOOLEAN
  /\ handlers \in 0 .. MaxHandlers /\ mutated \in 0 .. handlers
  /\ lastResult \in ResultState \cup {NoResult} /\ result \in ResultState \cup {NoResult}
  /\ raised \in Seq([from : ResultState, to : ResultState, resolved : BOOLEAN])
  /\ incident \in 0 .. Len(raised) /\ newIncident \in 0 .. Len(raised)
  /\ pc \in Steps
  /\ procPc \in [Handler -> ProcSteps] /\ procErr \subseteq Handler
  /\ wg \in 0 .. MaxHandlers
  /\ errClosed \in BOOLEAN
  /\ errs \subseteq Handler \cup {0}

(* Of all the incidents ever made at most one is open, and it is the one   *)
(* of the check or the new one: an incident that was replaced has been     *)
(* resolved before any handler sees its successor, and none is forgotten   *)
(* while it is open.                                                       *)
OneOpenIncident ==
  \A i \in Incidents :
    Open(i) => /\ i = IF newIncident # Nil THEN newIncident ELSE incident
               /\ \A j \in Incidents : Open(j) => i = j

(* Between executions the open incident is about the state the check is    *)
(* in, so far as LastResult has been kept; an OK check has none.           *)
OpenIncidentMatches ==
  pc = "idle" /\ Open(incident) /\ lastResult # NoResult =>
    lastResult # "OK" /\ raised[incident].to = lastResult

(* A check that ended up not OK always has an incident for that state,     *)
(* open or resolved, unless incidents are suppressed.                      *)
NotOkHasIncident ==
  pc = "idle" /\ ~suppress /\ lastResult \notin {NoResult, "OK"} =>
    incident # Nil /\ raised[incident].to = lastResult

(* Processing is contained in Execute: it starts when every handler has    *)
(* mutated, and when it is over no goroutine of it is left and exactly the *)
(* errors of the handlers that failed have been collected.                 *)
ProcessingContained ==
  /\ (\E h \in Handler : procPc[h] # "off") => mutated = handlers /\ pc \in {"collect", "publish"}
  /\ pc = "publish" =>
       /\ \A h \in Handler : procPc[h] \in {"off", "ended"}
       /\ errs \ {0} = procErr

(* The handlers process concurrently without a lock: while any of them     *)
(* does, the check, the result and the incidents they read do not change.  *)
NothingWrittenWhileProcessing ==
  [][(\E h \in Handler : procPc[h] = "processing") =>
       UNCHANGED <<checkVars, raised, result, newIncident>>]_vars

(* An incident is only made when the check has changed its state since its *)
(* last result: a state that persists alerts once.                         *)
RaisedOnChange ==
  [][Len(raised') > Len(raised) => result # lastResult]_vars

(* Execute returns: no goroutine stays blocked on errorCh, however many    *)
(* handlers fail.                                                          *)
ExecuteReturns ==
  (pc # "idle" /\ ~(pc = "incident" /\ Len(raised) = MaxIncidents)) ~> (pc = "idle")

(* README.md:78: "If a check moves from being ok to non-ok or from being   *)
(* non-ok to some other non-ok, then a new Incident is generated for that  *)
(* Check."  The code does not keep it: when the check was OK for one       *)
(* execution only, its resolved incident of the same state is still there  *)
(* and stands in for a new one.                                            *)
MoveFromOkRaises ==
  [][/\ pc = "incident" /\ pc' = "mutate"
     /\ ~suppress /\ lastResult = "OK" /\ result # "OK"
     => newIncident' # Nil]_vars
=============================================================================
