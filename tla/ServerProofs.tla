---------------------------- MODULE ServerProofs ----------------------------
(***************************************************************************)
(* Proofs about module Server, for any checks, any finite pool of          *)
(* goroutine slots and any MaxRunningChecks.                               *)
(***************************************************************************)
EXTENDS Server, FiniteSetTheorems, TLAPS

(* What each goroutine holds at which step.                                *)
Holding ==
  /\ IF popPc = "send" THEN popChk \in Check ELSE popChk = NoCheck
  /\ mainPc = "acquire" \/ mainPc = "store" \/ mainChk = NoCheck \/ mainPc = "panicked"
  /\ mainPc \in {"wait", "drain", "done"} => ctxDone = TRUE
  /\ \A w \in Worker : workerPc[w] # "idle" => job[w] \in Check

(* TypeOK but for the bounds of wg, which need the counts.                 *)
Typed ==
  /\ autoReEnqueue \in BOOLEAN /\ ctxDone \in BOOLEAN /\ closed \in BOOLEAN
  /\ queue \in [Check -> Nat]
  /\ pending \in Seq(Check) /\ Len(pending) <= MaxRunningChecks
  /\ limiter \in 0 .. MaxRunningChecks
  /\ tracked \subseteq Check
  /\ wg \in Int
  /\ popPc \in PopSteps /\ popChk \in Check \cup {NoCheck}
  /\ mainPc \in MainSteps /\ mainChk \in Check \cup {NoCheck}
  /\ workerPc \in [Worker -> WorkerSteps]
  /\ job \in [Worker -> Check \cup {NoCheck}]
  /\ startedLate \in Nat
  /\ Holding

LEMMA TypedInit == Init => Typed
<1> SUFFICES ASSUME Init PROVE Typed
  OBVIOUS
<1> USE ServerAssumption DEF Init, PopSteps, MainSteps, WorkerSteps
<1>1. pending \in Seq(Check) /\ Len(pending) <= MaxRunningChecks
  OBVIOUS
<1>2. workerPc \in [Worker -> WorkerSteps] /\ job \in [Worker -> Check \cup {NoCheck}]
  OBVIOUS
<1>3. queue \in [Check -> Nat]
  OBVIOUS
<1>4. Holding
  BY DEF Holding
<1>5. limiter \in 0 .. MaxRunningChecks /\ wg \in Int /\ startedLate \in Nat
  OBVIOUS
<1>6. /\ popPc \in PopSteps /\ popChk \in Check \cup {NoCheck}
      /\ mainPc \in MainSteps /\ mainChk \in Check \cup {NoCheck}
  OBVIOUS
<1>7. autoReEnqueue \in BOOLEAN /\ ctxDone \in BOOLEAN /\ closed \in BOOLEAN
  OBVIOUS
<1>8. tracked \subseteq Check
  OBVIOUS
<1> QED
  BY <1>1, <1>2, <1>3, <1>4, <1>5, <1>6, <1>7, <1>8, Zenon DEF Typed

LEMMA TypedNext == Typed /\ [Next]_vars => Typed'
<1> SUFFICES ASSUME Typed, [Next]_vars PROVE Typed'
  OBVIOUS
<1> USE ServerAssumption DEF Typed, Holding, PopSteps, MainSteps, WorkerSteps,
        popVars, mainVars, workerVars
<1>1. CASE Cancel
  BY <1>1 DEF Cancel
<1>2. CASE Populator
  <2>1. CASE PopSelect
    BY <2>1 DEF PopSelect
  <2>2. CASE PopRoom
    BY <2>2 DEF PopRoom
  <2>3. ASSUME NEW c \in Check, PopDequeue(c) PROVE Typed'
    BY <2>3 DEF PopDequeue, QueueDequeue
  <2>4. CASE PopDequeueNil
    BY <2>4 DEF PopDequeueNil
  <2>5. CASE PopSend
    BY <2>5 DEF PopSend
  <2>6. CASE PopSleep
    BY <2>6 DEF PopSleep
  <2>7. CASE PopClose
    BY <2>7 DEF PopClose
  <2>8. CASE PopDone
    BY <2>8 DEF PopDone
  <2> QED
    BY <1>2, <2>1, <2>2, <2>3, <2>4, <2>5, <2>6, <2>7, <2>8 DEF Populator
<1>3. CASE Main
  <2>1. CASE MainCancelled
    BY <2>1 DEF MainCancelled
  <2>2. CASE MainReceive
    BY <2>2 DEF MainReceive
  <2>3. CASE MainReceiveClosed
    BY <2>3 DEF MainReceiveClosed
  <2>4. CASE MainAcquire
    BY <2>4 DEF MainAcquire
  <2>5. ASSUME NEW w \in Worker, MainStart(w) PROVE Typed'
    BY <2>5 DEF MainStart
  <2>6. CASE MainPanic
    BY <2>6 DEF MainPanic
  <2>7. CASE MainWait
    BY <2>7 DEF MainWait
  <2>8. CASE MainDrain
    BY <2>8 DEF MainDrain, QueueEnqueue
  <2>9. CASE MainReturn
    BY <2>9 DEF MainReturn
  <2> QED
    BY <1>3, <2>1, <2>2, <2>3, <2>4, <2>5, <2>6, <2>7, <2>8, <2>9 DEF Main
<1>4. ASSUME NEW w \in Worker, WorkerStep(w) PROVE Typed'
  <2>1. CASE WorkerExecute(w)
    BY <2>1 DEF WorkerExecute
  <2>2. CASE WorkerReEnqueue(w)
    <3>1. queue' \in [Check -> Nat]
      BY <2>2 DEF WorkerReEnqueue, QueueEnqueue
    <3>2. /\ workerPc' = [workerPc EXCEPT ![w] = "release"] /\ workerPc[w] # "idle"
          /\ UNCHANGED <<autoReEnqueue, ctxDone, pending, closed, limiter, tracked, wg,
                         popPc, popChk, mainPc, mainChk, job, startedLate>>
      BY <2>2 DEF WorkerReEnqueue
    <3> QED
      BY <3>1, <3>2
  <2>3. CASE WorkerRelease(w)
    BY <2>3 DEF WorkerRelease
  <2>4. CASE WorkerDelete(w)
    BY <2>4 DEF WorkerDelete
  <2>5. CASE WorkerDone(w)
    BY <2>5 DEF WorkerDone
  <2> QED
    BY <1>4, <2>1, <2>2, <2>3, <2>4, <2>5 DEF WorkerStep
<1>5. CASE UNCHANGED vars
  BY <1>5 DEF vars
<1> QED
  BY <1>1, <1>2, <1>3, <1>4, <1>5 DEF Next, Terminated
-----------------------------------------------------------------------------
(* The populator is the only sender, and nobody else adds to the channel.  *)
LEMMA SendInit == Init => SendNeverBlocks
BY DEF Init, SendNeverBlocks

LEMMA SendNext == Typed /\ SendNeverBlocks /\ [Next]_vars => SendNeverBlocks'
<1> SUFFICES ASSUME Typed, SendNeverBlocks, [Next]_vars PROVE SendNeverBlocks'
  OBVIOUS
<1>1. CASE UNCHANGED <<popPc, pending>>
  BY <1>1 DEF SendNeverBlocks
<1>2. CASE Populator
  <2> USE DEF SendNeverBlocks
  <2>1. CASE PopRoom
    BY <2>1 DEF PopRoom
  <2>2. CASE PopSelect \/ PopDequeueNil \/ PopSend \/ PopSleep \/ PopClose \/ PopDone
    BY <2>2 DEF PopSelect, PopDequeueNil, PopSend, PopSleep, PopClose, PopDone
  <2>3. ASSUME NEW c \in Check, PopDequeue(c) PROVE SendNeverBlocks'
    BY <2>3 DEF PopDequeue, Typed
  <2> QED
    BY <1>2, <2>1, <2>2, <2>3 DEF Populator
<1>3. CASE MainReceive \/ MainDrain
  BY <1>3, ServerAssumption DEF MainReceive, MainDrain, popVars, SendNeverBlocks, Typed
<1>4. CASE MainCancelled \/ MainReceiveClosed \/ MainAcquire \/ MainPanic \/ MainWait \/ MainReturn
  BY <1>1, <1>4 DEF MainCancelled, MainReceiveClosed, MainAcquire, MainPanic, MainWait,
                    MainReturn, popVars
<1>5. ASSUME NEW w \in Worker, MainStart(w) \/ WorkerStep(w) PROVE SendNeverBlocks'
  BY <1>1, <1>5 DEF MainStart, WorkerStep, WorkerExecute, WorkerReEnqueue, WorkerRelease,
                    WorkerDelete, WorkerDone, popVars
<1>6. CASE Cancel \/ UNCHANGED vars
  BY <1>1, <1>6 DEF Cancel, vars, popVars
<1> QED
  BY <1>2, <1>3, <1>4, <1>5, <1>6 DEF Next, Main, Terminated

-----------------------------------------------------------------------------
(* The checks that may still be started after the cancellation: the one    *)
(* the main loop holds, those in pendingChecks, and one the populator can  *)
(* still dequeue before it looks at ctx again.                             *)
MainBrings == IF mainPc \in {"acquire", "store"} /\ mainChk # NoCheck THEN 1 ELSE 0
PopBrings  == IF popPc \in {"room", "dequeue", "send"} THEN 1 ELSE 0

LateBound ==
  /\ ctxDone => startedLate + MainBrings + Len(pending) + PopBrings <= MaxRunningChecks + 2
  /\ ~ctxDone => startedLate = 0

LEMMA LateInit == Init => LateBound
BY DEF Init, LateBound

LEMMA LateNext == Typed /\ LateBound /\ [Next]_vars => LateBound'
<1> SUFFICES ASSUME Typed, LateBound, [Next]_vars PROVE LateBound'
  OBVIOUS
<1> USE ServerAssumption DEF LateBound
<1>a. pending \in Seq(Check) /\ Len(pending) \in Nat /\ Len(pending) <= MaxRunningChecks
  BY DEF Typed
<1>b. startedLate \in Nat /\ MaxRunningChecks \in Nat
  BY DEF Typed
<1>c. MainBrings \in {0, 1} /\ PopBrings \in {0, 1}
  BY DEF MainBrings, PopBrings
<1>d. UNCHANGED <<mainPc, mainChk>> => MainBrings' = MainBrings
  BY DEF MainBrings
<1>e. UNCHANGED popPc => PopBrings' = PopBrings
  BY DEF PopBrings
<1>1. CASE UNCHANGED <<ctxDone, startedLate, mainPc, mainChk, pending, popPc>>
  BY <1>1, <1>d, <1>e
<1>2. CASE Cancel
  <2>1. MainBrings' = MainBrings /\ PopBrings' = PopBrings
    BY <1>2, <1>d, <1>e DEF Cancel, popVars, mainVars
  <2>2. startedLate = 0 /\ ctxDone' /\ startedLate' = startedLate /\ pending' = pending
    BY <1>2 DEF Cancel
  <2> QED
    BY <1>a, <1>c, <2>1, <2>2
<1>3. CASE Populator
  <2>1. UNCHANGED <<mainPc, mainChk, ctxDone, startedLate>>
    BY <1>3 DEF Populator, PopSelect, PopRoom, PopDequeue, PopDequeueNil, PopSend, PopSleep,
                PopClose, PopDone, mainVars
  <2>2. CASE ctxDone /\ UNCHANGED pending /\ PopBrings' <= PopBrings
    <3>1. PopBrings' \in {0, 1}
      BY DEF PopBrings
    <3>2. MainBrings' = MainBrings /\ pending' = pending /\ startedLate' = startedLate
      BY <1>d, <2>1, <2>2
    <3> QED
      BY <1>a, <1>b, <1>c, <2>1, <2>2, <3>1, <3>2
  <2>3. CASE ~ctxDone
    <3>1. startedLate = 0 /\ startedLate' = startedLate /\ ~ctxDone'
      BY <2>1, <2>3
    <3> QED
      BY <3>1
  <2>4. CASE ctxDone /\ PopSend
    <3>1. Len(pending') = Len(pending) + 1
      BY <1>a, <2>4 DEF PopSend, Typed, Holding
    <3>2. PopBrings = 1 /\ PopBrings' = 0
      BY <2>4 DEF PopSend, PopBrings
    <3> QED
      BY <1>a, <1>b, <1>c, <1>d, <2>1, <2>4, <3>1, <3>2
  <2>5. CASE ctxDone /\ PopSelect
    BY <2>2, <2>5 DEF PopSelect, PopBrings
  <2>6. CASE PopRoom \/ PopDequeueNil \/ PopSleep \/ PopClose \/ PopDone
    <3>1. UNCHANGED pending /\ PopBrings' <= PopBrings
      BY <2>6 DEF PopRoom, PopDequeueNil, PopSleep, PopClose, PopDone, PopBrings
    <3> QED
      BY <2>2, <2>3, <3>1
  <2>7. ASSUME NEW c \in Check, PopDequeue(c) PROVE LateBound'
    <3>1. UNCHANGED pending /\ PopBrings' <= PopBrings
      BY <2>7 DEF PopDequeue, PopBrings
    <3> QED
      BY <2>2, <2>3, <3>1
  <2> QED
    BY <1>3, <2>3, <2>4, <2>5, <2>6, <2>7 DEF Populator
<1>4. CASE MainReceive \/ MainDrain
  <2>1. Len(pending') = Len(pending) - 1
    BY <1>a, <1>4 DEF MainReceive, MainDrain
  <2>2. UNCHANGED <<ctxDone, startedLate, popPc>>
    BY <1>4 DEF MainReceive, MainDrain, popVars
  <2>3. MainBrings' <= MainBrings + 1
    BY DEF MainBrings
  <2>4. MainBrings' \in {0, 1}
    BY DEF MainBrings
  <2> QED
    BY <1>a, <1>b, <1>c, <1>e, <2>1, <2>2, <2>3, <2>4
<1>5. ASSUME NEW w \in Worker, MainStart(w) PROVE LateBound'
  <2>1. MainBrings = 1 /\ MainBrings' = 0
    BY <1>5 DEF MainStart, MainBrings
  <2>2. UNCHANGED <<ctxDone, pending, popPc>>
    BY <1>5 DEF MainStart, popVars
  <2>3. IF ctxDone THEN startedLate' = startedLate + 1 ELSE startedLate' = startedLate
    BY <1>5 DEF MainStart
  <2> QED
    BY <1>a, <1>b, <1>c, <1>e, <2>1, <2>2, <2>3
<1>6. CASE MainCancelled \/ MainReceiveClosed \/ MainAcquire \/ MainPanic \/ MainWait \/ MainReturn
  <2>1. MainBrings' <= MainBrings /\ MainBrings' \in {0, 1}
    BY <1>6 DEF MainCancelled, MainReceiveClosed, MainAcquire, MainPanic, MainWait,
                MainReturn, MainBrings
  <2>2. UNCHANGED <<ctxDone, startedLate, pending, popPc>>
    BY <1>6 DEF MainCancelled, MainReceiveClosed, MainAcquire, MainPanic, MainWait,
                MainReturn, popVars
  <2> QED
    BY <1>a, <1>b, <1>c, <1>e, <2>1, <2>2
<1>7. ASSUME NEW w \in Worker, WorkerStep(w) PROVE LateBound'
  BY <1>1, <1>7 DEF WorkerStep, WorkerExecute, WorkerReEnqueue, WorkerRelease,
                    WorkerDelete, WorkerDone, popVars, mainVars
<1>8. CASE UNCHANGED vars
  BY <1>1, <1>8 DEF vars, popVars, mainVars
<1> QED
  BY <1>2, <1>3, <1>4, <1>5, <1>6, <1>7, <1>8 DEF Next, Main, Terminated
-----------------------------------------------------------------------------
LEMMA OwnerInit == Init => ExclusiveOwner
<1> SUFFICES ASSUME Init PROVE ExclusiveOwner
  OBVIOUS
<1>1. \A c \in Check : queue[c] = 1 /\ ~Held(c) /\ ~Running(c)
  BY ServerAssumption DEF Init, Held, InPending, Running, Runs
<1>2. popChk = NoCheck /\ mainChk = NoCheck /\ Len(pending) = 0
  BY DEF Init
<1>3. \A w \in Worker, c \in Check : ~Runs(w, c)
  BY DEF Init, Runs
<1> QED
  BY <1>1, <1>2, <1>3, ServerAssumption DEF ExclusiveOwner

(* A step that leaves every check where it is.                             *)
LEMMA OwnerStay ==
  ASSUME ExclusiveOwner,
         UNCHANGED <<queue, popChk, mainChk, pending>>,
         \A w \in Worker, c \in Check : Runs(w, c)' => Runs(w, c)
  PROVE  ExclusiveOwner'
BY DEF ExclusiveOwner, Held, InPending, Running

(* The head of pendingChecks is nowhere else, and what is left of it is    *)
(* what it was, without that check.                                        *)
LEMMA OwnerHead ==
  ASSUME Typed, ExclusiveOwner, pending # <<>>, pending' = Tail(pending)
  PROVE  LET c == Head(pending)
         IN  /\ c \in Check
             /\ queue[c] = 0 /\ ~Running(c) /\ popChk # c /\ mainChk # c
             /\ \A d \in Check : InPending(d)' <=> InPending(d) /\ d # c
             /\ \A d \in Check : \A i, j \in 1 .. Len(pending') :
                  pending'[i] = d /\ pending'[j] = d => i = j
<1> DEFINE c == Head(pending)
<1>1. /\ pending \in Seq(Check) /\ Len(pending) \in Nat \ {0}
      /\ c = pending[1] /\ c \in Check /\ 1 \in 1 .. Len(pending)
  BY DEF Typed
<1>2. Len(pending') = Len(pending) - 1
  BY <1>1
<1>3. \A i \in 1 .. Len(pending') : pending'[i] = pending[i + 1] /\ i + 1 \in 1 .. Len(pending)
  BY <1>1, <1>2
<1>4. \A d \in Check : \A i, j \in 1 .. Len(pending) : pending[i] = d /\ pending[j] = d => i = j
  BY DEF ExclusiveOwner
<1>5. InPending(c) /\ Held(c)
  BY <1>1 DEF InPending, Held
<1>6. queue[c] = 0 /\ ~Running(c) /\ popChk # c /\ mainChk # c
  BY <1>1, <1>5 DEF ExclusiveOwner
<1>7. ASSUME NEW d \in Check PROVE InPending(d)' <=> InPending(d) /\ d # c
  <2>1. ASSUME NEW i \in 1 .. Len(pending'), pending'[i] = d PROVE InPending(d) /\ d # c
    <3>1. i + 1 \in 1 .. Len(pending) /\ pending[i + 1] = d /\ i + 1 # 1
      BY <1>1, <1>2, <1>3, <2>1
    <3> QED
      BY <1>1, <1>4, <3>1 DEF InPending
  <2>2. ASSUME NEW i \in 1 .. Len(pending), pending[i] = d, d # c PROVE InPending(d)'
    <3>1. i - 1 \in 1 .. Len(pending') /\ (i - 1) + 1 = i
      BY <1>1, <1>2, <2>2
    <3>2. pending'[i - 1] = pending[i]
      BY <1>3, <3>1
    <3> QED
      BY <2>2, <3>1, <3>2 DEF InPending
  <2> QED
    BY <2>1, <2>2 DEF InPending
<1>8. \A d \in Check : \A i, j \in 1 .. Len(pending') :
        pending'[i] = d /\ pending'[j] = d => i = j
  <2> SUFFICES ASSUME NEW d \in Check, NEW i \in 1 .. Len(pending'), NEW j \in 1 .. Len(pending'),
                      pending'[i] = d, pending'[j] = d
               PROVE  i = j
    OBVIOUS
  <2>1. i + 1 = j + 1
    BY <1>3, <1>4
  <2> QED
    BY <1>2, <2>1
<1> QED
  BY <1>1, <1>6, <1>7, <1>8

LEMMA OwnerNext == Typed /\ ExclusiveOwner /\ [Next]_vars => ExclusiveOwner'
<1> SUFFICES ASSUME Typed, ExclusiveOwner, [Next]_vars PROVE ExclusiveOwner'
  OBVIOUS
<1>0. queue \in [Check -> Nat] /\ pending \in Seq(Check) /\ Len(pending) \in Nat
  BY DEF Typed
<1>1. CASE UNCHANGED <<queue, popChk, mainChk, pending, workerPc, job>>
  BY <1>1, OwnerStay DEF Runs
<1>2. ASSUME NEW c \in Check, PopDequeue(c) PROVE ExclusiveOwner'
  <2>1. /\ queue[c] = 1 /\ queue'[c] = 0 /\ popChk' = c
        /\ \A d \in Check \ {c} : queue'[d] = queue[d]
        /\ UNCHANGED <<pending, mainChk, workerPc, job>>
    BY <1>0, <1>2 DEF PopDequeue, QueueDequeue, ExclusiveOwner, mainVars, workerVars
  <2>2. ~InPending(c) /\ mainChk # c /\ ~Running(c)
    BY <2>1 DEF ExclusiveOwner, Held
  <2> QED
    BY <2>1, <2>2 DEF ExclusiveOwner, Held, InPending, Running, Runs
<1>3. CASE PopSend
  <2> DEFINE c == popChk
  <2>1. /\ c \in Check /\ popChk' = NoCheck /\ pending' = Append(pending, c)
        /\ UNCHANGED <<queue, mainChk, workerPc, job>>
    BY <1>3 DEF PopSend, Typed, Holding, mainVars, workerVars
  <2>2. queue[c] = 0 /\ ~InPending(c) /\ mainChk # c /\ ~Running(c)
    BY <2>1 DEF ExclusiveOwner, Held
  <2>3. /\ Len(pending') = Len(pending) + 1 /\ pending'[Len(pending) + 1] = c
        /\ \A i \in 1 .. Len(pending) : pending'[i] = pending[i]
    BY <1>0, <2>1
  <2>4. \A d \in Check : InPending(d)' <=> InPending(d) \/ d = c
    BY <1>0, <2>1, <2>3 DEF InPending
  <2>5. \A d \in Check : \A i, j \in 1 .. Len(pending') :
          pending'[i] = d /\ pending'[j] = d => i = j
    BY <1>0, <2>1, <2>2, <2>3 DEF InPending, ExclusiveOwner
  <2> QED
    BY <2>1, <2>2, <2>4, <2>5, ServerAssumption DEF ExclusiveOwner, Held, Running, Runs
<1>4. CASE MainReceive
  <2>1. /\ pending # <<>> /\ pending' = Tail(pending) /\ mainChk' = Head(pending)
        /\ UNCHANGED <<queue, popChk, workerPc, job>>
    BY <1>4 DEF MainReceive, popVars, workerVars
  <2> QED
    BY <2>1, OwnerHead DEF ExclusiveOwner, Held, Running, Runs
<1>5. CASE MainDrain
  <2>1. /\ pending # <<>> /\ pending' = Tail(pending)
        /\ UNCHANGED <<popChk, mainChk, workerPc, job>>
        /\ queue' = [queue EXCEPT ![Head(pending)] = @ + 1]
    BY <1>5 DEF MainDrain, QueueEnqueue, popVars, mainVars, workerVars
  <2>2. queue'[Head(pending)] = 1 /\ \A d \in Check \ {Head(pending)} : queue'[d] = queue[d]
    BY <1>0, <2>1, OwnerHead
  <2> QED
    BY <2>1, <2>2, OwnerHead DEF ExclusiveOwner, Held, Running, Runs
<1>6. CASE MainReceiveClosed
  <2>1. mainChk' = NoCheck /\ UNCHANGED <<queue, popChk, pending, workerPc, job>>
    BY <1>6 DEF MainReceiveClosed, popVars, workerVars
  <2> QED
    BY <2>1, ServerAssumption DEF ExclusiveOwner, Held, InPending, Running, Runs
<1>7. ASSUME NEW w \in Worker, MainStart(w) PROVE ExclusiveOwner'
  <2> DEFINE c == mainChk
  <2>1. /\ c \in Check /\ mainChk' = NoCheck /\ UNCHANGED <<queue, popChk, pending>>
        /\ \A v \in Worker, d \in Check : Runs(v, d)' <=> Runs(v, d) \/ (v = w /\ d = c)
    BY <1>7 DEF MainStart, Typed, popVars, Runs
  <2>2. queue[c] = 0 /\ ~InPending(c) /\ popChk # c /\ ~Running(c)
    BY <2>1 DEF ExclusiveOwner, Held
  <2> QED
    BY <2>1, <2>2, ServerAssumption DEF ExclusiveOwner, Held, InPending, Running
<1>8. ASSUME NEW w \in Worker, WorkerReEnqueue(w) PROVE ExclusiveOwner'
  <2> DEFINE c == job[w]
  <2>1. /\ c \in Check /\ Runs(w, c) /\ UNCHANGED <<popChk, mainChk, pending>>
        /\ \A v \in Worker, d \in Check : Runs(v, d)' <=> Runs(v, d) /\ v # w
    BY <1>8 DEF WorkerReEnqueue, Typed, Holding, popVars, mainVars, Runs
  <2>2. queue[c] = 0 /\ ~Held(c) /\ \A v \in Worker : Runs(v, c) => v = w
    BY <2>1 DEF ExclusiveOwner, Running
  <2>3. CASE autoReEnqueue
    <3>1. queue'[c] = 1 /\ \A d \in Check \ {c} : queue'[d] = queue[d]
      BY <1>0, <1>8, <2>1, <2>2, <2>3 DEF WorkerReEnqueue, QueueEnqueue
    <3> QED
      BY <2>1, <2>2, <3>1 DEF ExclusiveOwner, Held, InPending, Running
  <2>4. CASE ~autoReEnqueue
    <3>1. UNCHANGED queue
      BY <1>8, <2>4 DEF WorkerReEnqueue
    <3> QED
      BY <2>1, <3>1, OwnerStay
  <2> QED
    BY <2>3, <2>4
<1>9. ASSUME NEW w \in Worker,
             WorkerExecute(w) \/ WorkerRelease(w) \/ WorkerDelete(w) \/ WorkerDone(w)
      PROVE  ExclusiveOwner'
  <2>1. UNCHANGED <<queue, popChk, mainChk, pending>>
    BY <1>9 DEF WorkerExecute, WorkerRelease, WorkerDelete, WorkerDone, popVars, mainVars
  <2>2. \A v \in Worker, d \in Check : Runs(v, d)' => Runs(v, d)
    BY <1>9 DEF WorkerExecute, WorkerRelease, WorkerDelete, WorkerDone, Typed, Runs, WorkerSteps
  <2> QED
    BY <2>1, <2>2, OwnerStay
<1>10. CASE PopSelect \/ PopRoom \/ PopDequeueNil \/ PopSleep \/ PopClose \/ PopDone
  BY <1>1, <1>10 DEF PopSelect, PopRoom, PopDequeueNil, PopSleep, PopClose, PopDone,
                     mainVars, workerVars
<1>11. CASE MainCancelled \/ MainAcquire \/ MainPanic \/ MainWait \/ MainReturn
  BY <1>1, <1>11 DEF MainCancelled, MainAcquire, MainPanic, MainWait, MainReturn,
                     popVars, workerVars
<1>12. CASE Cancel \/ UNCHANGED vars
  BY <1>1, <1>12 DEF Cancel, vars, popVars, mainVars, workerVars
<1> QED
  BY <1>2, <1>3, <1>4, <1>5, <1>6, <1>7, <1>8, <1>9, <1>10, <1>11, <1>12
     DEF Next, Populator, Main, WorkerStep, Terminated
-----------------------------------------------------------------------------
MainToken == IF mainPc \in {"store", "panicked"} THEN 1 ELSE 0
PopWaited == IF popPc = "done" THEN 0 ELSE 1

LEMMA FiniteWorkers ==
  /\ IsFiniteSet(Owing) /\ Cardinality(Owing) \in Nat
  /\ IsFiniteSet(Busy) /\ Cardinality(Busy) \in Nat
<1>1. Owing \in SUBSET Worker /\ Busy \in SUBSET Worker
  BY DEF Owing, Busy
<1> QED
  BY <1>1, ServerAssumption, FS_Subset, FS_CardinalityType

LEMMA CountsInit == Init => CountsExact
<1> SUFFICES ASSUME Init PROVE CountsExact
  OBVIOUS
<1>1. Owing = {} /\ Busy = {}
  BY DEF Init, Owing, Busy
<1> QED
  BY <1>1, FS_EmptySet DEF Init, CountsExact

(* A step that moves no worker across either line.                         *)
LEMMA CountsStay ==
  ASSUME CountsExact, UNCHANGED <<limiter, wg>>, Owing' = Owing, Busy' = Busy,
         MainToken' = MainToken, PopWaited' = PopWaited
  PROVE  CountsExact'
BY DEF CountsExact, MainToken, PopWaited

LEMMA CountsNext == Typed /\ CountsExact /\ [Next]_vars => CountsExact'
<1> SUFFICES ASSUME Typed, CountsExact, [Next]_vars PROVE CountsExact'
  OBVIOUS
<1>0. UNCHANGED workerPc => Owing' = Owing /\ Busy' = Busy
  BY DEF Owing, Busy
<1>1. CASE UNCHANGED <<limiter, wg, mainPc, popPc, workerPc>>
  BY <1>0, <1>1, CountsStay DEF MainToken, PopWaited
<1>2. CASE PopDone
  BY <1>0, <1>2, FiniteWorkers DEF PopDone, CountsExact, mainVars, workerVars
<1>3. CASE PopSelect \/ PopRoom \/ PopDequeueNil \/ PopSend \/ PopSleep \/ PopClose
  <2>1. /\ UNCHANGED <<limiter, wg, mainPc, workerPc>>
        /\ popPc # "done" /\ popPc' # "done"
    BY <1>3 DEF PopSelect, PopRoom, PopDequeueNil, PopSend, PopSleep, PopClose,
                mainVars, workerVars
  <2> QED
    BY <1>0, <2>1, CountsStay DEF MainToken, PopWaited
<1>4. ASSUME NEW c \in Check, PopDequeue(c) PROVE CountsExact'
  <2>1. UNCHANGED <<limiter, wg, mainPc, workerPc>> /\ popPc # "done" /\ popPc' # "done"
    BY <1>4 DEF PopDequeue, mainVars, workerVars
  <2> QED
    BY <1>0, <2>1, CountsStay DEF MainToken, PopWaited
<1>5. CASE MainAcquire
  BY <1>0, <1>5, FiniteWorkers DEF MainAcquire, CountsExact, popVars, workerVars
<1>6. ASSUME NEW w \in Worker, MainStart(w) PROVE CountsExact'
  <2>1. Owing' = Owing \cup {w} /\ Busy' = Busy \cup {w} /\ w \notin Owing /\ w \notin Busy
    BY <1>6 DEF MainStart, Typed, Owing, Busy
  <2>2. /\ Cardinality(Owing') = Cardinality(Owing) + 1
        /\ Cardinality(Busy') = Cardinality(Busy) + 1
    BY <2>1, FiniteWorkers, FS_AddElement
  <2> QED
    BY <1>6, <2>2, FiniteWorkers DEF MainStart, CountsExact, popVars
<1>7. CASE MainPanic \/ MainCancelled \/ MainReceive \/ MainReceiveClosed \/ MainWait
             \/ MainDrain \/ MainReturn
  <2>1. UNCHANGED <<limiter, wg, popPc, workerPc>> /\ MainToken' = MainToken
    BY <1>7 DEF MainPanic, MainCancelled, MainReceive, MainReceiveClosed, MainWait,
                MainDrain, MainReturn, popVars, mainVars, workerVars, MainToken
  <2> QED
    BY <1>0, <2>1, CountsStay DEF PopWaited
<1>8. ASSUME NEW w \in Worker, WorkerRelease(w) PROVE CountsExact'
  <2>1. Owing' = Owing \ {w} /\ w \in Owing /\ Busy' = Busy
    BY <1>8 DEF WorkerRelease, Typed, Owing, Busy
  <2>2. Cardinality(Owing') = Cardinality(Owing) - 1
    BY <2>1, FiniteWorkers, FS_RemoveElement
  <2> QED
    BY <1>8, <2>1, <2>2, FiniteWorkers DEF WorkerRelease, CountsExact, popVars, mainVars
<1>9. ASSUME NEW w \in Worker, WorkerDone(w) PROVE CountsExact'
  <2>1. Busy' = Busy \ {w} /\ w \in Busy /\ Owing' = Owing
    BY <1>9 DEF WorkerDone, Typed, Owing, Busy
  <2>2. Cardinality(Busy') = Cardinality(Busy) - 1
    BY <2>1, FiniteWorkers, FS_RemoveElement
  <2> QED
    BY <1>9, <2>1, <2>2, FiniteWorkers DEF WorkerDone, CountsExact, popVars, mainVars
<1>10. ASSUME NEW w \in Worker, WorkerExecute(w) \/ WorkerReEnqueue(w) \/ WorkerDelete(w)
       PROVE  CountsExact'
  <2>1. Owing' = Owing /\ Busy' = Busy
    BY <1>10 DEF WorkerExecute, WorkerReEnqueue, WorkerDelete, Typed, Owing, Busy
  <2>2. UNCHANGED <<limiter, wg, mainPc, popPc>>
    BY <1>10 DEF WorkerExecute, WorkerReEnqueue, WorkerDelete, popVars, mainVars
  <2> QED
    BY <2>1, <2>2, CountsStay DEF MainToken, PopWaited
<1>11. CASE Cancel \/ UNCHANGED vars
  BY <1>1, <1>11 DEF Cancel, vars, popVars, mainVars, workerVars
<1> QED
  BY <1>2, <1>3, <1>4, <1>5, <1>6, <1>7, <1>8, <1>9, <1>10, <1>11
     DEF Next, Populator, Main, WorkerStep, Terminated

-----------------------------------------------------------------------------
(* The inductive invariant of the server.                                  *)
IInv == Typed /\ ExclusiveOwner /\ SendNeverBlocks /\ LateBound /\ CountsExact

THEOREM Invariance == Spec => []IInv
<1>1. Init => IInv
  BY TypedInit, OwnerInit, SendInit, LateInit, CountsInit DEF IInv
<1>2. IInv /\ [Next]_vars => IInv'
  BY TypedNext, OwnerNext, SendNext, LateNext, CountsNext DEF IInv
<1> QED
  BY <1>1, <1>2, PTL DEF Spec

(* Every variable keeps its type: the channels stay within their capacity  *)
(* and the WaitGroup counter never becomes negative.                       *)
THEOREM Typing == Spec => []TypeOK
<1>1. IInv => TypeOK
  <2>1. CountsExact => wg \in Nat
    BY FiniteWorkers DEF CountsExact
  <2> QED
    BY <2>1 DEF IInv, Typed, TypeOK
<1> QED
  BY <1>1, Invariance, PTL

(* No check is ever in two places, or with two workers.                    *)
THEOREM Ownership == Spec => []ExclusiveOwner
<1>1. IInv => ExclusiveOwner
  BY DEF IInv
<1> QED
  BY <1>1, Invariance, PTL

(* The populator never blocks on its send.                                 *)
THEOREM SendReady == Spec => []SendNeverBlocks
<1>1. IInv => SendNeverBlocks
  BY DEF IInv
<1> QED
  BY <1>1, Invariance, PTL

(* The tokens of runningLimiter and the WaitGroup count what they should.  *)
THEOREM Counting == Spec => []CountsExact
<1>1. IInv => CountsExact
  BY DEF IInv
<1> QED
  BY <1>1, Invariance, PTL

(* After the cancellation at most MaxRunningChecks + 2 checks are started. *)
THEOREM LateStarts == Spec => []StartsAfterCancelBounded
<1>1. IInv => StartsAfterCancelBounded
  <2> SUFFICES ASSUME IInv PROVE StartsAfterCancelBounded
    OBVIOUS
  <2>1. /\ MainBrings \in {0, 1} /\ PopBrings \in {0, 1} /\ Len(pending) \in Nat
        /\ startedLate \in Nat /\ MaxRunningChecks \in Nat
    BY ServerAssumption DEF IInv, Typed, MainBrings, PopBrings
  <2>2. CASE ctxDone
    BY <2>1, <2>2 DEF IInv, LateBound, StartsAfterCancelBounded
  <2>3. CASE ~ctxDone
    BY <2>1, <2>3 DEF IInv, LateBound, StartsAfterCancelBounded
  <2> QED
    BY <2>2, <2>3
<1> QED
  BY <1>1, Invariance, PTL
-----------------------------------------------------------------------------
(***************************************************************************)
(* The server implements Dispatch.                                         *)
(***************************************************************************)
SamePlace(c) ==
  /\ queue'[c] > 0 <=> queue[c] > 0
  /\ Held(c)' <=> Held(c)
  /\ Running(c)' <=> Running(c)

LEMMA PhaseStay ==
  ASSUME \A c \in Check : SamePlace(c)
  PROVE  Phase' = Phase
BY DEF Phase, SamePlace

LEMMA PhaseMove ==
  ASSUME NEW c \in Check, \A d \in Check \ {c} : SamePlace(d)
  PROVE  Phase' = [Phase EXCEPT ![c] = Phase'[c]]
BY DEF Phase, SamePlace

LEMMA PhaseOf ==
  ASSUME NEW c \in Check
  PROVE  /\ queue[c] > 0 => Phase[c] = "queued"
         /\ ~(queue[c] > 0) /\ Held(c) => Phase[c] = "held"
         /\ ~(queue[c] > 0) /\ ~Held(c) /\ Running(c) => Phase[c] = "running"
         /\ ~(queue[c] > 0) /\ ~Held(c) /\ ~Running(c) => Phase[c] = "gone"
BY DEF Phase

(* A worker holds a token while it runs a check: no more checks run than   *)
(* tokens are owed.                                                        *)
LEMMA RunningOwing ==
  ASSUME Typed
  PROVE  /\ Cardinality(Contract!In("running")) <= Cardinality(Owing)
         /\ Cardinality(Contract!In("running")) \in Nat
<1> DEFINE R == {c \in Check : Running(c)}
           W == {w \in Worker : workerPc[w] \in {"executing", "reEnqueue"}}
           f == [w \in W |-> job[w]]
<1>1. W \in SUBSET Owing
  BY DEF Owing
<1>2. IsFiniteSet(W) /\ Cardinality(W) <= Cardinality(Owing) /\ Cardinality(W) \in Nat
  BY <1>1, FiniteWorkers, FS_Subset, FS_CardinalityType
<1>3. f \in Surjection(W, R)
  <2>1. f \in [W -> R]
    BY DEF Typed, Holding, Running, Runs
  <2>2. \A c \in R : \E w \in W : f[w] = c
    BY DEF Running, Runs
  <2> QED
    BY <2>1, <2>2 DEF Surjection
<1>4. IsFiniteSet(R) /\ Cardinality(R) <= Cardinality(W) /\ Cardinality(R) \in Nat
  BY <1>2, <1>3, FS_Surjection, FS_CardinalityType
<1>5. Contract!In("running") \in SUBSET R
  BY DEF Contract!In, Phase
<1>6. /\ Cardinality(Contract!In("running")) <= Cardinality(R)
      /\ Cardinality(Contract!In("running")) \in Nat
  BY <1>4, <1>5, FS_Subset, FS_CardinalityType
<1> QED
  BY <1>2, <1>4, <1>6, FiniteWorkers

(* Dispatch extends FiniteSets itself: its Cardinality is the same one.     *)
LEMMA SameCardinality == \A S : Contract!Cardinality(S) = Cardinality(S)
BY DEF Contract!Cardinality, Cardinality

LEMMA ImplementsInit == Init => Contract!Init
<1> SUFFICES ASSUME Init PROVE Contract!Init
  OBVIOUS
<1>1. Phase = [c \in Check |-> "queued"]
  BY DEF Init, Phase
<1> QED
  BY <1>1 DEF Init, Contract!Init

LEMMA ImplementsNext ==
  IInv /\ IInv' /\ [Next]_vars => [Contract!Next]_(Contract!dispatchVars)
<1> SUFFICES ASSUME IInv, IInv', [Next]_vars
             PROVE  Contract!Next \/ UNCHANGED Contract!dispatchVars
  OBVIOUS
<1> USE DEF IInv
<1>0. queue \in [Check -> Nat] /\ queue' \in [Check -> Nat]
  BY DEF Typed
<1>1. ASSUME UNCHANGED <<autoReEnqueue, ctxDone>>, \A c \in Check : SamePlace(c)
      PROVE  UNCHANGED Contract!dispatchVars
  BY <1>1, PhaseStay DEF Contract!dispatchVars
<1>2. CASE UNCHANGED <<autoReEnqueue, ctxDone, queue, popChk, pending, mainChk, workerPc, job>>
  BY <1>1, <1>2 DEF SamePlace, Held, InPending, Running, Runs
<1>3. CASE Cancel
  <2>1. \A c \in Check : SamePlace(c)
    BY <1>3 DEF Cancel, popVars, mainVars, workerVars, SamePlace, Held, InPending, Running, Runs
  <2>2. Contract!Stop
    BY <1>3, <2>1, PhaseStay DEF Cancel, Contract!Stop
  <2> QED
    BY <2>2 DEF Contract!Next
<1>4. ASSUME NEW c \in Check, PopDequeue(c) PROVE Contract!Next
  <2>1. /\ queue[c] > 0 /\ ~(queue'[c] > 0) /\ popChk' = c
        /\ \A d \in Check \ {c} : queue'[d] = queue[d]
        /\ UNCHANGED <<autoReEnqueue, ctxDone, pending, mainChk, workerPc, job>>
        /\ popPc = "dequeue"
    BY <1>0, <1>4 DEF PopDequeue, QueueDequeue, ExclusiveOwner, mainVars, workerVars
  <2>2. popChk \notin Check
    BY <2>1, ServerAssumption DEF Typed, Holding
  <2>3. \A d \in Check \ {c} : SamePlace(d)
    BY <2>1, <2>2 DEF SamePlace, Held, InPending, Running, Runs
  <2>4. Phase[c] = "queued" /\ Phase'[c] = "held"
    BY <2>1 DEF Phase, Held
  <2>5. Contract!Take(c)
    BY <2>1, <2>3, <2>4, PhaseMove DEF Contract!Take, Contract!Move
  <2> QED
    BY <2>5 DEF Contract!Next
<1>5. CASE PopSend
  <2>1. /\ popChk \in Check /\ popChk' = NoCheck /\ pending' = Append(pending, popChk)
        /\ pending \in Seq(Check)
        /\ UNCHANGED <<autoReEnqueue, ctxDone, queue, mainChk, workerPc, job>>
    BY <1>5 DEF PopSend, Typed, Holding, mainVars, workerVars
  <2>2. /\ Len(pending') = Len(pending) + 1 /\ pending'[Len(pending) + 1] = popChk
        /\ \A i \in 1 .. Len(pending) : pending'[i] = pending[i]
    BY <2>1
  <2>3. \A d \in Check : InPending(d)' <=> InPending(d) \/ d = popChk
    BY <2>1, <2>2 DEF InPending
  <2>4. \A d \in Check : SamePlace(d)
    BY <2>1, <2>3, ServerAssumption DEF SamePlace, Held, Running, Runs
  <2> QED
    BY <1>1, <2>1, <2>4
<1>6. CASE MainReceive
  <2>1. /\ pending # <<>> /\ pending' = Tail(pending) /\ mainChk' = Head(pending)
        /\ mainChk = NoCheck
        /\ UNCHANGED <<autoReEnqueue, ctxDone, queue, popChk, workerPc, job>>
    BY <1>6 DEF MainReceive, Typed, Holding, popVars, workerVars
  <2>2. /\ Head(pending) \in Check
        /\ \A d \in Check : InPending(d)' <=> InPending(d) /\ d # Head(pending)
    BY <2>1, OwnerHead
  <2>3. InPending(Head(pending))
    BY <2>1 DEF Typed, InPending
  <2>4. \A d \in Check : SamePlace(d)
    BY <2>1, <2>2, <2>3, ServerAssumption DEF SamePlace, Held, Running, Runs
  <2> QED
    BY <1>1, <2>1, <2>4
<1>7. ASSUME NEW w \in Worker, MainStart(w) PROVE Contract!Next
  <2>0. PICK c \in Check : c = mainChk
    BY <1>7 DEF MainStart, Typed
  <2>1. /\ mainChk = c /\ mainChk' = NoCheck /\ limiter' = limiter
        /\ mainPc = "store" /\ limiter <= MaxRunningChecks
        /\ UNCHANGED <<autoReEnqueue, ctxDone, queue, popChk, pending>>
        /\ \A v \in Worker, d \in Check : Runs(v, d)' <=> Runs(v, d) \/ (v = w /\ d = c)
    BY <1>7, <2>0 DEF MainStart, Typed, popVars, Runs
  <2>2. queue[c] = 0 /\ ~InPending(c) /\ popChk # c /\ ~Running(c) /\ Held(c)
    BY <2>1 DEF ExclusiveOwner, Held
  <2>3. \A d \in Check \ {c} : SamePlace(d)
    BY <2>1, ServerAssumption DEF SamePlace, Held, InPending, Running
  <2>4. queue'[c] = 0 /\ ~Held(c)' /\ Running(c)'
    BY <2>1, <2>2, ServerAssumption DEF Held, InPending, Running
  <2>5. Phase[c] = "held" /\ Phase'[c] = "running"
    BY <2>1, <2>2, <2>4 DEF Phase
  <2>6. Cardinality(Owing) + 1 <= MaxRunningChecks
    BY <2>1, FiniteWorkers DEF CountsExact, Typed
  <2>7. Cardinality(Contract!In("running")) < MaxRunningChecks
    <3>1. Cardinality(Contract!In("running")) \in Nat
      BY RunningOwing
    <3> QED
      BY <2>6, <3>1, RunningOwing, FiniteWorkers, ServerAssumption
  <2>8. Phase' = [Phase EXCEPT ![c] = "running"]
    BY <2>3, <2>5, PhaseMove
  <2>9. Contract!Move(c, "held", "running")
    BY <2>1, <2>5, <2>8 DEF Contract!Move
  <2>10. Contract!Start(c)
    BY <2>7, <2>9, SameCardinality DEF Contract!Start
  <2> QED
    BY <2>10 DEF Contract!Next
<1>8. CASE MainReceiveClosed
  <2>1. /\ mainChk = NoCheck /\ mainChk' = NoCheck
        /\ UNCHANGED <<autoReEnqueue, ctxDone, queue, popChk, pending, workerPc, job>>
    BY <1>8 DEF MainReceiveClosed, Typed, Holding, popVars, workerVars
  <2> QED
    BY <1>2, <2>1
<1>9. CASE MainDrain
  <2> DEFINE c == Head(pending)
  <2>1. /\ pending # <<>> /\ pending' = Tail(pending) /\ ctxDone = TRUE
        /\ UNCHANGED <<autoReEnqueue, ctxDone, popChk, mainChk, workerPc, job>>
        /\ queue' = [queue EXCEPT ![c] = @ + 1]
    BY <1>9 DEF MainDrain, QueueEnqueue, Typed, Holding, popVars, mainVars, workerVars
  <2>2. /\ c \in Check /\ queue[c] = 0 /\ popChk # c /\ mainChk # c
        /\ \A d \in Check : InPending(d)' <=> InPending(d) /\ d # c
    BY <2>1, OwnerHead
  <2>3. Held(c)
    BY <2>1 DEF Typed, Held, InPending
  <2>4. queue'[c] > 0 /\ \A d \in Check \ {c} : queue'[d] = queue[d]
    BY <1>0, <2>1, <2>2
  <2>5. \A d \in Check \ {c} : SamePlace(d)
    BY <2>1, <2>2, <2>4 DEF SamePlace, Held, Running, Runs
  <2>6. Phase[c] = "held" /\ Phase'[c] = "queued"
    BY <2>2, <2>3, <2>4 DEF Phase
  <2>7. Contract!HandBack(c)
    BY <2>1, <2>2, <2>5, <2>6, PhaseMove DEF Contract!HandBack, Contract!Move
  <2> QED
    BY <2>2, <2>7 DEF Contract!Next
<1>10. ASSUME NEW w \in Worker, WorkerReEnqueue(w) PROVE Contract!Next
  <2>0. PICK c \in Check : c = job[w]
    BY <1>10 DEF WorkerReEnqueue, Typed, Holding
  <2>1. /\ job[w] = c /\ Runs(w, c)
        /\ UNCHANGED <<autoReEnqueue, ctxDone, popChk, mainChk, pending>>
        /\ \A v \in Worker, d \in Check : Runs(v, d)' <=> Runs(v, d) /\ v # w
    BY <1>10, <2>0 DEF WorkerReEnqueue, Typed, popVars, mainVars, Runs
  <2>2. queue[c] = 0 /\ ~Held(c) /\ ~Held(c)' /\ \A v \in Worker : Runs(v, c) => v = w
    BY <2>1 DEF ExclusiveOwner, Running, Held, InPending
  <2>3. \A d \in Check \ {c} : ~Runs(w, d)
    BY <2>1 DEF Runs
  <2>4. \A d \in Check \ {c} : queue'[d] = queue[d]
    BY <1>0, <1>10, <2>1 DEF WorkerReEnqueue, QueueEnqueue
  <2>5. \A d \in Check \ {c} : SamePlace(d)
    BY <2>1, <2>3, <2>4 DEF SamePlace, Held, InPending, Running
  <2>6. Phase[c] = "running" /\ ~Running(c)'
    BY <2>1, <2>2 DEF Phase, Running
  <2>7. Phase'[c] = IF autoReEnqueue THEN "queued" ELSE "gone"
    <3>1. CASE autoReEnqueue
      <4>1. queue'[c] > 0
        BY <1>0, <1>10, <2>1, <2>2, <3>1 DEF WorkerReEnqueue, QueueEnqueue
      <4> QED
        BY <2>1, <3>1, <4>1 DEF Phase
    <3>2. CASE ~autoReEnqueue
      <4>1. ~(queue'[c] > 0)
        BY <1>10, <2>2, <3>2 DEF WorkerReEnqueue
      <4> QED
        BY <2>1, <2>2, <2>6, <3>2, <4>1 DEF Phase
    <3> QED
      BY <3>1, <3>2
  <2>8. Contract!Finish(c)
    BY <2>1, <2>5, <2>6, <2>7, PhaseMove DEF Contract!Finish, Contract!Move
  <2> QED
    BY <2>1, <2>8 DEF Contract!Next
<1>11. ASSUME NEW w \in Worker,
              WorkerExecute(w) \/ WorkerRelease(w) \/ WorkerDelete(w) \/ WorkerDone(w)
       PROVE  UNCHANGED Contract!dispatchVars
  <2>1. UNCHANGED <<autoReEnqueue, ctxDone, queue, popChk, mainChk, pending>>
    BY <1>11 DEF WorkerExecute, WorkerRelease, WorkerDelete, WorkerDone, popVars, mainVars
  <2>2. \A v \in Worker, d \in Check : Runs(v, d)' <=> Runs(v, d)
    BY <1>11, ServerAssumption DEF WorkerExecute, WorkerRelease, WorkerDelete, WorkerDone, Typed,
                                  Runs, WorkerSteps
  <2>3. \A c \in Check : SamePlace(c)
    BY <2>1, <2>2 DEF SamePlace, Held, InPending, Running
  <2> QED
    BY <1>1, <2>1, <2>3
<1>12. CASE PopSelect \/ PopRoom \/ PopDequeueNil \/ PopSleep \/ PopClose \/ PopDone
  BY <1>2, <1>12 DEF PopSelect, PopRoom, PopDequeueNil, PopSleep, PopClose, PopDone,
                     mainVars, workerVars
<1>13. CASE MainCancelled \/ MainAcquire \/ MainPanic \/ MainWait \/ MainReturn
  BY <1>2, <1>13 DEF MainCancelled, MainAcquire, MainPanic, MainWait, MainReturn,
                     popVars, workerVars
<1>14. CASE UNCHANGED vars
  BY <1>2, <1>14 DEF vars, popVars, mainVars, workerVars
<1> QED
  BY <1>3, <1>4, <1>5, <1>6, <1>7, <1>8, <1>9, <1>10, <1>11, <1>12, <1>13, <1>14
     DEF Next, Populator, Main, WorkerStep, Terminated

(* Every behaviour of the server is one of Dispatch.                       *)
THEOREM Implementation == Spec => ImplementsDispatch
<1>1. Init => Contract!Init
  BY ImplementsInit
<1>2. IInv /\ IInv' /\ [Next]_vars => [Contract!Next]_(Contract!dispatchVars)
  BY ImplementsNext
<1> QED
  BY <1>1, <1>2, Invariance, PTL DEF Spec, ImplementsDispatch, Contract!Spec
-----------------------------------------------------------------------------
(***************************************************************************)
(* What is left when the server has returned.                              *)
(***************************************************************************)
(* The workers whose check belongs in runningChecks.                       *)
Keepers == {w \in Worker : workerPc[w] \notin {"idle", "wgDone"}}

Keeping == {job[w] : w \in Keepers}

(* Without AutoReEnqueue a check that was started never comes back.        *)
StartedOnce ==
  ~autoReEnqueue =>
    \A w \in Keepers :
      /\ queue[job[w]] = 0 /\ ~Held(job[w])
      /\ \A v \in Keepers : job[v] = job[w] => v = w

LEMMA StartedOnceInit == Init => StartedOnce
BY DEF Init, StartedOnce, Keepers

LEMMA StartedOnceNext == IInv /\ StartedOnce /\ [Next]_vars => StartedOnce'
<1> SUFFICES ASSUME IInv, StartedOnce, [Next]_vars PROVE StartedOnce'
  OBVIOUS
<1> USE DEF IInv
<1>0. CASE autoReEnqueue
  <2>1. UNCHANGED autoReEnqueue
    BY DEF Next, Cancel, Populator, PopSelect, PopRoom, PopDequeue, PopDequeueNil, PopSend,
           PopSleep, PopClose, PopDone, Main, MainCancelled, MainReceive, MainReceiveClosed,
           MainAcquire, MainStart, MainPanic, MainWait, MainDrain, MainReturn, WorkerStep,
           WorkerExecute, WorkerReEnqueue, WorkerRelease, WorkerDelete, WorkerDone,
           Terminated, vars
  <2> QED
    BY <1>0, <2>1 DEF StartedOnce
<1>a. \A w \in Keepers : job[w] \in Check
  BY DEF Typed, Holding, Keepers
(* No keeper is added, and a check that is not held or queued stays so.    *)
<1>b. ASSUME UNCHANGED <<autoReEnqueue, job>>, Keepers' \subseteq Keepers,
             \A c \in Check : queue[c] = 0 /\ ~Held(c) => queue'[c] = 0 /\ ~Held(c)'
      PROVE  StartedOnce'
  BY <1>a, <1>b DEF StartedOnce
<1>c. UNCHANGED workerPc => Keepers' = Keepers
  BY DEF Keepers
<1>1. CASE UNCHANGED <<autoReEnqueue, queue, popChk, mainChk, pending, workerPc, job>>
  BY <1>1, <1>b, <1>c DEF Held, InPending
<1>2. ASSUME NEW c \in Check, PopDequeue(c) PROVE StartedOnce'
  <2>1. /\ queue[c] > 0 /\ popChk' = c /\ queue' = [queue EXCEPT ![c] = @ - 1]
        /\ queue \in [Check -> Nat]
        /\ UNCHANGED <<autoReEnqueue, pending, mainChk, workerPc, job>>
    BY <1>2 DEF PopDequeue, QueueDequeue, Typed, mainVars, workerVars
  <2>2. \A d \in Check : queue[d] = 0 /\ ~Held(d) => queue'[d] = 0 /\ ~Held(d)'
    BY <2>1 DEF Held, InPending
  <2> QED
    BY <1>b, <1>c, <2>1, <2>2
<1>3. CASE PopSend
  <2>1. /\ popChk \in Check /\ popChk' = NoCheck /\ pending' = Append(pending, popChk)
        /\ pending \in Seq(Check)
        /\ UNCHANGED <<autoReEnqueue, queue, mainChk, workerPc, job>>
    BY <1>3 DEF PopSend, Typed, Holding, mainVars, workerVars
  <2>2. \A d \in Check : InPending(d)' => InPending(d) \/ d = popChk
    BY <2>1 DEF InPending
  <2>3. \A d \in Check : Held(d)' => Held(d)
    BY <2>1, <2>2, ServerAssumption DEF Held
  <2> QED
    BY <1>b, <1>c, <2>1, <2>3
<1>4. CASE MainReceive
  <2>1. /\ pending # <<>> /\ pending' = Tail(pending) /\ mainChk' = Head(pending)
        /\ UNCHANGED <<autoReEnqueue, queue, popChk, workerPc, job>>
    BY <1>4 DEF MainReceive, popVars, workerVars
  <2>2. InPending(Head(pending)) /\ \A d \in Check : InPending(d)' => InPending(d)
    BY <2>1, OwnerHead DEF Typed, InPending
  <2>3. \A d \in Check : Held(d)' => Held(d)
    BY <2>1, <2>2 DEF Held
  <2> QED
    BY <1>b, <1>c, <2>1, <2>3
<1>5. CASE MainReceiveClosed
  <2>1. /\ mainChk' = NoCheck
        /\ UNCHANGED <<autoReEnqueue, queue, popChk, pending, workerPc, job>>
    BY <1>5 DEF MainReceiveClosed, popVars, workerVars
  <2>2. \A d \in Check : Held(d)' => Held(d)
    BY <2>1, ServerAssumption DEF Held, InPending
  <2> QED
    BY <1>b, <1>c, <2>1, <2>2
<1>6. CASE MainDrain
  <2>1. /\ pending # <<>> /\ pending' = Tail(pending)
        /\ UNCHANGED <<autoReEnqueue, popChk, mainChk, workerPc, job>>
        /\ queue' = [queue EXCEPT ![Head(pending)] = @ + 1]
    BY <1>6 DEF MainDrain, QueueEnqueue, popVars, mainVars, workerVars
  <2>2. Held(Head(pending)) /\ \A d \in Check : InPending(d)' => InPending(d)
    BY <2>1, OwnerHead DEF Typed, Held, InPending
  <2>3. \A d \in Check : queue[d] = 0 /\ ~Held(d) => queue'[d] = 0 /\ ~Held(d)'
    BY <2>1, <2>2, OwnerHead DEF Held, Typed
  <2> QED
    BY <1>b, <1>c, <2>1, <2>3
<1>7. ASSUME NEW w \in Worker, MainStart(w) PROVE StartedOnce'
  <2>0. PICK c \in Check : c = mainChk
    BY <1>7 DEF MainStart, Typed
  <2>1. /\ Keepers' = Keepers \cup {w} /\ w \notin Keepers
        /\ job' = [job EXCEPT ![w] = c] /\ job'[w] = c
        /\ mainChk = c /\ mainChk' = NoCheck
        /\ UNCHANGED <<autoReEnqueue, queue, popChk, pending>>
    BY <1>7, <2>0 DEF MainStart, Typed, Keepers, popVars
  <2>2. \A v \in Keepers : job'[v] = job[v]
    BY <2>1 DEF Typed, Keepers
  <2>3. queue[c] = 0 /\ ~InPending(c) /\ popChk # c /\ Held(c)
    BY <2>1 DEF ExclusiveOwner, Held
  <2>4. ~Held(c)' /\ \A d \in Check : Held(d)' => Held(d)
    BY <2>1, <2>3, ServerAssumption DEF Held, InPending
  <2>5. ASSUME ~autoReEnqueue PROVE \A v \in Keepers : job[v] # c
    BY <2>3, <2>5 DEF StartedOnce
  <2> QED
    BY <1>a, <2>1, <2>2, <2>3, <2>4, <2>5 DEF StartedOnce
<1>8. ASSUME NEW w \in Worker, WorkerReEnqueue(w) PROVE StartedOnce'
  <2>1. UNCHANGED <<autoReEnqueue, popChk, mainChk, pending, job>> /\ Keepers' = Keepers
    BY <1>8 DEF WorkerReEnqueue, Typed, Keepers, popVars, mainVars
  <2>2. ~autoReEnqueue => UNCHANGED queue
    BY <1>8 DEF WorkerReEnqueue
  <2> QED
    BY <1>0, <1>b, <2>1, <2>2 DEF Held, InPending
<1>9. ASSUME NEW w \in Worker, WorkerExecute(w) \/ WorkerRelease(w) \/ WorkerDelete(w)
      PROVE  StartedOnce'
  <2>1. /\ UNCHANGED <<autoReEnqueue, queue, popChk, mainChk, pending, job>>
        /\ Keepers' \subseteq Keepers
    BY <1>9 DEF WorkerExecute, WorkerRelease, WorkerDelete, Typed, Keepers, popVars, mainVars
  <2> QED
    BY <1>b, <2>1 DEF Held, InPending
<1>10. ASSUME NEW w \in Worker, WorkerDone(w) PROVE StartedOnce'
  <2>1. /\ UNCHANGED <<autoReEnqueue, queue, popChk, mainChk, pending>>
        /\ Keepers' = Keepers /\ w \notin Keepers /\ job' = [job EXCEPT ![w] = NoCheck]
    BY <1>10 DEF WorkerDone, Typed, Keepers, popVars, mainVars
  <2>2. \A v \in Keepers : job'[v] = job[v]
    BY <2>1 DEF Typed, Keepers
  <2> QED
    BY <2>1, <2>2 DEF StartedOnce, Held, InPending
<1>11. CASE PopSelect \/ PopRoom \/ PopDequeueNil \/ PopSleep \/ PopClose \/ PopDone
  BY <1>1, <1>11 DEF PopSelect, PopRoom, PopDequeueNil, PopSleep, PopClose, PopDone,
                     mainVars, workerVars
<1>12. CASE MainCancelled \/ MainAcquire \/ MainPanic \/ MainWait \/ MainReturn
  BY <1>1, <1>12 DEF MainCancelled, MainAcquire, MainPanic, MainWait, MainReturn,
                     popVars, workerVars
<1>13. CASE Cancel \/ UNCHANGED vars
  BY <1>1, <1>13 DEF Cancel, vars, popVars, mainVars, workerVars
<1> QED
  BY <1>2, <1>3, <1>4, <1>5, <1>6, <1>7, <1>8, <1>9, <1>10, <1>11, <1>12, <1>13
     DEF Next, Populator, Main, WorkerStep, Terminated

(* TrackingExact, with its set of checks named.                            *)
Tracked ==
  /\ tracked \subseteq Keeping
  /\ ~autoReEnqueue => tracked = Keeping

LEMMA TrackedInit == Init => Tracked
BY DEF Init, Tracked, Keeping, Keepers

LEMMA TrackedNext == IInv /\ StartedOnce /\ Tracked /\ [Next]_vars => Tracked'
<1> SUFFICES ASSUME IInv, StartedOnce, Tracked, [Next]_vars PROVE Tracked'
  OBVIOUS
<1> USE DEF IInv
<1>a. ASSUME UNCHANGED <<autoReEnqueue, tracked, job>>, Keepers' = Keepers PROVE Tracked'
  <2>1. Keeping' = Keeping
    BY <1>a DEF Keeping
  <2> QED
    BY <1>a, <2>1 DEF Tracked
<1>1. CASE UNCHANGED <<autoReEnqueue, tracked, workerPc, job>>
  BY <1>1, <1>a DEF Keepers
<1>2. CASE Populator
  BY <1>1, <1>2 DEF Populator, PopSelect, PopRoom, PopDequeue, PopDequeueNil, PopSend,
                    PopSleep, PopClose, PopDone, mainVars, workerVars
<1>3. CASE \/ MainCancelled \/ MainReceive \/ MainReceiveClosed \/ MainAcquire
           \/ MainPanic \/ MainWait \/ MainDrain \/ MainReturn
  BY <1>1, <1>3 DEF MainCancelled, MainReceive, MainReceiveClosed, MainAcquire, MainPanic,
                    MainWait, MainDrain, MainReturn, popVars, workerVars
<1>4. ASSUME NEW w \in Worker, MainStart(w) PROVE Tracked'
  <2>1. /\ Keepers' = Keepers \cup {w} /\ w \notin Keepers
        /\ job' = [job EXCEPT ![w] = mainChk] /\ job'[w] = mainChk
        /\ tracked' = tracked \cup {mainChk} /\ UNCHANGED autoReEnqueue
    BY <1>4 DEF MainStart, Typed, Keepers
  <2>2. \A v \in Keepers : job'[v] = job[v]
    BY <2>1 DEF Typed, Keepers
  <2>3. Keeping' = Keeping \cup {mainChk}
    BY <2>1, <2>2 DEF Keeping
  <2> QED
    BY <2>1, <2>3 DEF Tracked
<1>5. ASSUME NEW w \in Worker, WorkerExecute(w) \/ WorkerReEnqueue(w) \/ WorkerRelease(w)
      PROVE  Tracked'
  <2>1. UNCHANGED <<autoReEnqueue, tracked, job>> /\ Keepers' = Keepers
    BY <1>5 DEF WorkerExecute, WorkerReEnqueue, WorkerRelease, Typed, Keepers
  <2> QED
    BY <1>a, <2>1
<1>6. ASSUME NEW w \in Worker, WorkerDelete(w) PROVE Tracked'
  <2>1. /\ w \in Keepers /\ Keepers' = Keepers \ {w}
        /\ tracked' = tracked \ {job[w]} /\ UNCHANGED <<autoReEnqueue, job>>
    BY <1>6 DEF WorkerDelete, Typed, Keepers
  <2>2. Keeping \ {job[w]} \subseteq Keeping'
    BY <2>1 DEF Keeping
  <2>3. ASSUME ~autoReEnqueue PROVE Keeping' = Keeping \ {job[w]}
    <3>1. \A v \in Keepers : job[v] = job[w] => v = w
      BY <2>1, <2>3 DEF StartedOnce
    <3> QED
      BY <2>1, <3>1 DEF Keeping
  <2> QED
    BY <2>1, <2>2, <2>3 DEF Tracked
<1>7. ASSUME NEW w \in Worker, WorkerDone(w) PROVE Tracked'
  <2>1. /\ Keepers' = Keepers /\ w \notin Keepers /\ job' = [job EXCEPT ![w] = NoCheck]
        /\ UNCHANGED <<autoReEnqueue, tracked>>
    BY <1>7 DEF WorkerDone, Typed, Keepers
  <2>2. \A v \in Keepers : job'[v] = job[v]
    BY <2>1 DEF Typed, Keepers
  <2>3. Keeping' = Keeping
    BY <2>1, <2>2 DEF Keeping
  <2> QED
    BY <2>1, <2>3 DEF Tracked
<1>8. CASE Cancel \/ UNCHANGED vars
  BY <1>1, <1>8 DEF Cancel, vars, workerVars
<1> QED
  BY <1>2, <1>3, <1>4, <1>5, <1>6, <1>7, <1>8 DEF Next, Main, WorkerStep, Terminated

(* An entry of runningChecks always has a worker that will delete it, and  *)
(* without AutoReEnqueue every check that runs has its entry.              *)
THEOREM Tracking == Spec => []TrackingExact
<1>1. Init => StartedOnce /\ Tracked
  BY StartedOnceInit, TrackedInit
<1>2. IInv /\ StartedOnce /\ Tracked /\ [Next]_vars => (StartedOnce /\ Tracked)'
  BY StartedOnceNext, TrackedNext
<1>3. Tracked => TrackingExact
  BY DEF Tracked, TrackingExact, Keeping, Keepers
<1> QED
  BY <1>1, <1>2, <1>3, Invariance, PTL DEF Spec
-----------------------------------------------------------------------------
(* After wg.Wait the WaitGroup stays at zero, and after the drain the      *)
(* channel stays empty.                                                    *)
Joined ==
  /\ mainPc \in {"drain", "done"} => wg = 0
  /\ mainPc = "done" => pending = <<>>

(* With AutoReEnqueue no check disappears.                                 *)
Kept == autoReEnqueue => \A c \in Check : Phase[c] # "gone"

LEMMA AllEnded ==
  ASSUME Typed, CountsExact, wg = 0
  PROVE  popPc = "done" /\ Busy = {}
<1>1. Cardinality(Busy) \in Nat /\ IsFiniteSet(Busy)
  BY FiniteWorkers
<1>2. popPc = "done" /\ Cardinality(Busy) = 0
  BY <1>1 DEF CountsExact
<1> QED
  BY <1>1, <1>2, FS_EmptySet

LEMMA JoinedNext == IInv /\ Joined /\ [Next]_vars => Joined'
<1> SUFFICES ASSUME IInv, Joined, [Next]_vars PROVE Joined'
  OBVIOUS
<1> USE DEF IInv
<1>1. CASE UNCHANGED <<mainPc, wg, pending>>
  BY <1>1 DEF Joined
<1>2. CASE Populator
  <2>1. CASE mainPc \in {"drain", "done"}
    <3>1. popPc = "done"
      BY <2>1, AllEnded DEF Joined
    <3> QED
      BY <1>2, <3>1 DEF Populator, PopSelect, PopRoom, PopDequeue, PopDequeueNil, PopSend,
                        PopSleep, PopClose, PopDone
  <2>2. CASE mainPc \notin {"drain", "done"}
    <3>1. mainPc' = mainPc
      BY <1>2 DEF Populator, PopSelect, PopRoom, PopDequeue, PopDequeueNil, PopSend, PopSleep,
                  PopClose, PopDone, mainVars
    <3> QED
      BY <2>2, <3>1 DEF Joined
  <2> QED
    BY <2>1, <2>2
<1>3. CASE MainCancelled \/ MainReceive \/ MainReceiveClosed \/ MainAcquire \/ MainPanic
  BY <1>3 DEF MainCancelled, MainReceive, MainReceiveClosed, MainAcquire, MainPanic, Joined
<1>4. CASE MainWait \/ MainDrain \/ MainReturn
  BY <1>4 DEF MainWait, MainDrain, MainReturn, mainVars, Joined
<1>5. ASSUME NEW w \in Worker, MainStart(w) PROVE Joined'
  BY <1>5 DEF MainStart, Joined
<1>6. ASSUME NEW w \in Worker, WorkerStep(w) PROVE Joined'
  <2>1. w \in Busy
    BY <1>6 DEF WorkerStep, WorkerExecute, WorkerReEnqueue, WorkerRelease, WorkerDelete,
                WorkerDone, Busy
  <2>2. mainPc \notin {"drain", "done"}
    BY <2>1, AllEnded DEF Joined
  <2>3. mainPc' = mainPc
    BY <1>6 DEF WorkerStep, WorkerExecute, WorkerReEnqueue, WorkerRelease, WorkerDelete,
                WorkerDone, mainVars
  <2> QED
    BY <2>2, <2>3 DEF Joined
<1>7. CASE Cancel \/ UNCHANGED vars
  BY <1>1, <1>7 DEF Cancel, vars, mainVars
<1> QED
  BY <1>2, <1>3, <1>4, <1>5, <1>6, <1>7 DEF Next, Main, Terminated

LEMMA KeptNext == IInv /\ IInv' /\ Kept /\ [Next]_vars => Kept'
<1> SUFFICES ASSUME IInv, IInv', Kept, [Next]_vars PROVE Kept'
  OBVIOUS
<1>1. CASE UNCHANGED Contract!dispatchVars
  BY <1>1 DEF Kept, Contract!dispatchVars
<1>2. CASE Contract!Stop
  BY <1>2 DEF Kept, Contract!Stop
<1>3. ASSUME NEW c \in Check,
             Contract!Take(c) \/ Contract!Start(c) \/ Contract!Finish(c) \/ Contract!HandBack(c)
      PROVE  Kept'
  <2>1. PICK from, to : Contract!Move(c, from, to) /\ (autoReEnqueue => to # "gone")
    BY <1>3 DEF Contract!Take, Contract!Start, Contract!Finish, Contract!HandBack
  <2>2. \A d \in Check : Phase'[d] = IF d = c THEN to ELSE Phase[d]
    BY <2>1 DEF Contract!Move, Phase
  <2>3. UNCHANGED autoReEnqueue
    BY <2>1 DEF Contract!Move
  <2> QED
    BY <2>1, <2>2, <2>3 DEF Kept
<1> QED
  BY <1>1, <1>2, <1>3, ImplementsNext DEF Contract!Next

(* A server that has returned has left nothing behind.                     *)
LEMMA QuietWhenDone ==
  IInv /\ Tracked /\ Joined /\ Kept => ReturnedMeansQuiescent
<1> SUFFICES ASSUME IInv, Tracked, Joined, Kept, mainPc = "done"
             PROVE  /\ popPc = "done" /\ popChk = NoCheck /\ mainChk = NoCheck
                    /\ \A w \in Worker : workerPc[w] = "idle"
                    /\ pending = <<>> /\ limiter = 0 /\ wg = 0 /\ tracked = {}
                    /\ autoReEnqueue => \A c \in Check : queue[c] = 1
  BY DEF ReturnedMeansQuiescent
<1> USE DEF IInv
<1>1. pending = <<>> /\ wg = 0 /\ popPc = "done" /\ Busy = {}
  BY AllEnded DEF Joined
<1>2. \A w \in Worker : workerPc[w] = "idle"
  BY <1>1 DEF Busy
<1>3. popChk = NoCheck /\ mainChk = NoCheck
  BY <1>1 DEF Typed, Holding
<1>4. limiter = 0
  <2>1. Owing = {}
    BY <1>2 DEF Owing
  <2> QED
    BY <2>1, FS_EmptySet DEF CountsExact
<1>5. tracked = {}
  BY <1>2 DEF Tracked, Keeping, Keepers
<1>6. ASSUME autoReEnqueue, NEW c \in Check PROVE queue[c] = 1
  <2>1. ~Held(c) /\ ~Running(c)
    BY <1>1, <1>2, <1>3, ServerAssumption DEF Held, InPending, Running, Runs
  <2>2. queue[c] > 0
    BY <1>6, <2>1, PhaseOf DEF Kept
  <2> QED
    BY <2>2 DEF ExclusiveOwner
<1> QED
  BY <1>1, <1>2, <1>3, <1>4, <1>5, <1>6

(* When Run returns no goroutine, token, pending check or entry of         *)
(* runningChecks is left, and the kept checks are all in the check queue.  *)
THEOREM Quiescence == Spec => []ReturnedMeansQuiescent
<1>1. Init => StartedOnce /\ Tracked /\ Joined /\ Kept
  <2>1. Init => Joined
    BY DEF Init, Joined
  <2>2. Init => Kept
    BY PhaseOf DEF Init, Kept
  <2> QED
    BY <2>1, <2>2, StartedOnceInit, TrackedInit
<1>2. /\ IInv /\ IInv' /\ StartedOnce /\ Tracked /\ Joined /\ Kept /\ [Next]_vars
      => (StartedOnce /\ Tracked /\ Joined /\ Kept)'
  BY StartedOnceNext, TrackedNext, JoinedNext, KeptNext
<1>3. IInv /\ Tracked /\ Joined /\ Kept => ReturnedMeansQuiescent
  BY QuietWhenDone
<1> QED
  BY <1>1, <1>2, <1>3, Invariance, PTL DEF Spec
=============================================================================
