----------------------------- MODULE PollerProofs -----------------------------
(***************************************************************************)
(* Proofs about module Poller, for any checks and intervals, any finite    *)
(* pool of goroutine slots, any MaxRunningChecks and any clock.  What      *)
(* ServerProofs and MemqueueProofs show of the steps of their modules      *)
(* holds of the steps of both.                                             *)
(***************************************************************************)
EXTENDS Poller, FiniteSetTheorems, TLAPS

G == INSTANCE ServerProofs
M == INSTANCE MemqueueProofs WITH Enqueuer <- Worker \cup {MainLoop}

Caller == Worker \cup {MainLoop}

(* What each component keeps on its own.                                   *)
Apart ==
  /\ G!Typed /\ G!ExclusiveOwner
  /\ M!Typed /\ M!Indexed /\ M!FiledInQueue /\ M!FiledInCall
  /\ M!Once /\ M!Unexecuted /\ M!FoundDue

(* The bag that the server sees is what the buckets hold.                  *)
Bag == \A c \in Check : queue[c] = IF M!InQueue(c) THEN 1 ELSE 0

(* Who is enqueuing a check holds it.                                      *)
Callers ==
  /\ \A w \in Worker : enqueuing[w] # NoCheck =>
       autoReEnqueue /\ workerPc[w] = "reEnqueue" /\ job[w] = enqueuing[w]
  /\ enqueuing[MainLoop] # NoCheck =>
       mainPc = "drain" /\ pending # <<>> /\ Head(pending) = enqueuing[MainLoop]

Executing(c) == \E w \in Worker : job[w] = c /\ workerPc[w] = "executing"

InHand(c) == G!Held(c) \/ Executing(c)

(* What the server holds and has not executed is due.                      *)
DueInHand ==
  \A c \in Check : InHand(c) => c \notin executed /\ M!IsDue(c, lastCheck[c], now)

(* The inductive invariant.                                                *)
IInv == Apart /\ Bag /\ Callers /\ DueInHand

-----------------------------------------------------------------------------
(***************************************************************************)
(* The assumptions of the components.                                      *)
(***************************************************************************)
LEMMA ServerConstants == MaxRunningChecks \in Nat /\ NoCheck \notin Check /\ G!IsFiniteSet(Worker)
<1>1. IsFiniteSet(Worker) => G!IsFiniteSet(Worker)
  BY DEF IsFiniteSet, G!IsFiniteSet
<1> QED
  BY <1>1, PollerAssumption

LEMMA QueueConstants ==
  /\ IntervalSeconds \in [Check -> Nat] /\ TicksPerSecond \in Nat \ {0} /\ Never \notin Nat
  /\ MaxNow \in Nat /\ MaxInt64 \in Nat /\ NoCheck \notin Check
  /\ \A c \in Check : M!Unix(MaxNow + IntervalSeconds[c] * TicksPerSecond) < MaxInt64
BY PollerAssumption DEF M!Unix

(***************************************************************************)
(* Every step is one of each component, or leaves it alone.                *)
(***************************************************************************)
LEMMA PopulatorSteps ==
  /\ \A c : Goroutines!PopDequeue(c) => G!PopDequeue(c)
  /\ Goroutines!PopDequeueNil => G!Populator
  /\ PopElse => G!Populator
<1> USE DEF Goroutines!popVars, Goroutines!mainVars, Goroutines!workerVars,
            G!popVars, G!mainVars, G!workerVars, G!Populator
<1>1. \A c : Goroutines!PopDequeue(c) => G!PopDequeue(c)
  BY DEF Goroutines!PopDequeue, G!PopDequeue, Goroutines!QueueDequeue, G!QueueDequeue
<1>2. Goroutines!PopDequeueNil => G!PopDequeueNil
  BY DEF Goroutines!PopDequeueNil, G!PopDequeueNil
<1>3. Goroutines!PopSelect => G!PopSelect
  BY DEF Goroutines!PopSelect, G!PopSelect
<1>4. Goroutines!PopRoom => G!PopRoom
  BY DEF Goroutines!PopRoom, G!PopRoom
<1>5. Goroutines!PopSend => G!PopSend
  BY DEF Goroutines!PopSend, G!PopSend
<1>6. Goroutines!PopSleep => G!PopSleep
  BY DEF Goroutines!PopSleep, G!PopSleep
<1>7. Goroutines!PopClose => G!PopClose
  BY DEF Goroutines!PopClose, G!PopClose
<1>8. Goroutines!PopDone => G!PopDone
  BY DEF Goroutines!PopDone, G!PopDone
<1>9. PopElse => G!Populator
  BY <1>3, <1>4, <1>5, <1>6, <1>7, <1>8 DEF PopElse
<1> QED
  BY <1>1, <1>2, <1>9

LEMMA MainSteps ==
  /\ Goroutines!MainDrain => G!Main
  /\ MainElse => G!Main
<1> USE DEF Goroutines!popVars, Goroutines!mainVars, Goroutines!workerVars,
            G!popVars, G!mainVars, G!workerVars, G!Main
<1>1. Goroutines!MainDrain => G!MainDrain
  BY DEF Goroutines!MainDrain, G!MainDrain, Goroutines!QueueEnqueue, G!QueueEnqueue
<1>2. Goroutines!MainCancelled => G!MainCancelled
  BY DEF Goroutines!MainCancelled, G!MainCancelled
<1>3. Goroutines!MainReceive => G!MainReceive
  BY DEF Goroutines!MainReceive, G!MainReceive
<1>4. Goroutines!MainReceiveClosed => G!MainReceiveClosed
  BY DEF Goroutines!MainReceiveClosed, G!MainReceiveClosed
<1>5. Goroutines!MainAcquire => G!MainAcquire
  BY DEF Goroutines!MainAcquire, G!MainAcquire
<1>6. Goroutines!MainPanic => G!MainPanic
  BY DEF Goroutines!MainPanic, G!MainPanic
<1>7. Goroutines!MainWait => G!MainWait
  BY DEF Goroutines!MainWait, G!MainWait
<1>8. Goroutines!MainReturn => G!MainReturn
  BY DEF Goroutines!MainReturn, G!MainReturn
<1>9. \A w \in Worker : Goroutines!MainStart(w) => G!MainStart(w)
  BY DEF Goroutines!MainStart, G!MainStart
<1>10. MainElse => G!Main
  BY <1>2, <1>3, <1>4, <1>5, <1>6, <1>7, <1>8, <1>9 DEF MainElse
<1> QED
  BY <1>1, <1>10

LEMMA WorkerSteps ==
  ASSUME NEW w \in Worker,
         \/ Goroutines!WorkerExecute(w) \/ Goroutines!WorkerReEnqueue(w)
         \/ Goroutines!WorkerRelease(w) \/ Goroutines!WorkerDelete(w) \/ Goroutines!WorkerDone(w)
  PROVE  G!WorkerStep(w)
<1> USE DEF Goroutines!popVars, Goroutines!mainVars, Goroutines!workerVars,
            G!popVars, G!mainVars, G!workerVars, G!WorkerStep
<1>1. Goroutines!WorkerExecute(w) => G!WorkerExecute(w)
  BY DEF Goroutines!WorkerExecute, G!WorkerExecute
<1>2. Goroutines!WorkerReEnqueue(w) => G!WorkerReEnqueue(w)
  BY DEF Goroutines!WorkerReEnqueue, G!WorkerReEnqueue, Goroutines!QueueEnqueue, G!QueueEnqueue
<1>3. Goroutines!WorkerRelease(w) => G!WorkerRelease(w)
  BY DEF Goroutines!WorkerRelease, G!WorkerRelease
<1>4. Goroutines!WorkerDelete(w) => G!WorkerDelete(w)
  BY DEF Goroutines!WorkerDelete, G!WorkerDelete
<1>5. Goroutines!WorkerDone(w) => G!WorkerDone(w)
  BY DEF Goroutines!WorkerDone, G!WorkerDone
<1> QED
  BY <1>1, <1>2, <1>3, <1>4, <1>5

LEMMA CallSteps ==
  /\ \A e, c : Mem!EnqueueCall(e, c) => M!EnqueueCall(e, c)
  /\ \A e : Mem!EnqueueInsert(e) => M!EnqueueInsert(e)
  /\ Mem!Dequeue => M!Dequeue /\ Mem!Top = M!Top
  /\ \A c : Mem!Run(c) => M!Run(c)
  /\ Mem!Tick => M!Tick
<1> USE DEF Mem!checkVars, Mem!memVars, Mem!callVars, M!checkVars, M!memVars, M!callVars
<1>1. \A c : Mem!Outside(c) <=> M!Outside(c)
  BY DEF Mem!Outside, M!Outside, Mem!InQueue, M!InQueue, Mem!InCall, M!InCall,
         Mem!InBucket, M!InBucket
<1>2. \A c, a, b : Mem!DueAt(c, a, b) = M!DueAt(c, a, b)
  BY DEF Mem!DueAt, M!DueAt
<1>3. \A e, c : Mem!EnqueueCall(e, c) => M!EnqueueCall(e, c)
  BY <1>1, <1>2 DEF Mem!EnqueueCall, M!EnqueueCall, Mem!Unix, M!Unix
<1>4. \A S : Mem!Minimum(S) = M!Minimum(S)
  BY DEF Mem!Minimum, M!Minimum
<1>5. \A p : Mem!Bucket(p) = M!Bucket(p)
  BY DEF Mem!Bucket, M!Bucket
<1>6. \A e : Mem!EnqueueInsert(e) => M!EnqueueInsert(e)
  BY <1>4, <1>5 DEF Mem!EnqueueInsert, M!EnqueueInsert, Mem!Appended, M!Appended,
                    Mem!LoweredMinPriority, M!LoweredMinPriority
<1>7. Mem!RemoveTop => M!RemoveTop
  BY <1>4 DEF Mem!RemoveTop, M!RemoveTop
<1>8. Mem!TopIsDue => M!TopIsDue
  BY <1>2 DEF Mem!TopIsDue, M!TopIsDue, Mem!IsDue, M!IsDue, Mem!Top, M!Top
<1>9. Mem!Dequeue => M!Dequeue /\ Mem!Top = M!Top
  BY <1>7, <1>8 DEF Mem!Dequeue, M!Dequeue, Mem!Top, M!Top
<1>10. \A c : Mem!Run(c) => M!Run(c)
  BY <1>1 DEF Mem!Run, M!Run
<1>11. Mem!Tick => M!Tick
  BY DEF Mem!Tick, M!Tick
<1> QED
  BY <1>3, <1>6, <1>9, <1>10, <1>11

LEMMA StepsOfBoth ==
  ASSUME Apart, [Next]_vars
  PROVE  [G!Next]_(G!vars) /\ [M!Next]_(M!vars)
<1>g. UNCHANGED serverVars => UNCHANGED G!vars
  BY DEF serverVars, G!vars
<1>m. UNCHANGED queueVars => UNCHANGED M!vars
  BY DEF queueVars, M!vars, M!checkVars, M!memVars, M!callVars
<1>1. CASE UNCHANGED vars
  BY <1>1, <1>g, <1>m DEF vars
<1>a. Goroutines!Alive => G!Alive
  BY DEF Goroutines!Alive, G!Alive
<1>3. CASE Tick
  BY <1>3, <1>g, CallSteps DEF Tick, M!Next
<1>4. CASE Goroutines!Alive /\ Populator
  <2>1. CASE PopDequeue
    <3>1. M!Top \in Check
      <4>1. M!Dequeue
        BY <2>1, CallSteps DEF PopDequeue
      <4>2. checks[minPriority] \in Seq(Check) /\ checks[minPriority] # <<>>
        BY <4>1 DEF M!Dequeue, M!TopIsDue, Apart, M!Typed, M!Indexed
      <4> QED
        BY <4>2 DEF M!Top
    <3>2. G!PopDequeue(M!Top) /\ M!Dequeue
      BY <2>1, CallSteps, PopulatorSteps DEF PopDequeue
    <3> QED
      BY <1>a, <1>4, <3>1, <3>2 DEF G!Next, G!Populator, M!Next
  <2>2. CASE PopDequeueNil
    BY <1>a, <1>m, <1>4, <2>2, PopulatorSteps DEF PopDequeueNil, G!Next
  <2>3. CASE PopElse
    <3>1. G!Populator /\ UNCHANGED queueVars
      BY <2>3, PopulatorSteps DEF PopElse
    <3> QED
      BY <1>a, <1>m, <1>4, <3>1 DEF G!Next
  <2> QED
    BY <1>4, <2>1, <2>2, <2>3 DEF Populator
<1>5. CASE Goroutines!Alive /\ Main
  <2>1. CASE MainDrainCall
    <3>1. Head(pending) \in Check
      BY <2>1 DEF MainDrainCall, Apart, G!Typed
    <3>2. M!EnqueueCall(MainLoop, Head(pending))
      BY <2>1, CallSteps DEF MainDrainCall
    <3> QED
      BY <1>g, <2>1, <3>1, <3>2 DEF MainDrainCall, M!Next
  <2>2. CASE MainDrainInsert
    <3>1. M!EnqueueInsert(MainLoop) /\ G!Main
      BY <2>2, CallSteps, MainSteps DEF MainDrainInsert
    <3> QED
      BY <1>a, <1>5, <3>1 DEF M!Next, G!Next
  <2>3. CASE MainElse
    <3>1. G!Main /\ UNCHANGED queueVars
      BY <2>3, MainSteps DEF MainElse
    <3> QED
      BY <1>a, <1>m, <1>5, <3>1 DEF G!Next
  <2> QED
    BY <1>5, <2>1, <2>2, <2>3 DEF Main
<1>6. ASSUME Goroutines!Alive, NEW w \in Worker, WorkerStep(w)
      PROVE  [G!Next]_(G!vars) /\ [M!Next]_(M!vars)
  <2>0. G!WorkerStep(w) => G!Next
    BY <1>a, <1>6 DEF G!Next
  <2>1. CASE WorkerExecute(w)
    <3>1. job[w] \in Check
      BY <2>1 DEF WorkerExecute, Goroutines!WorkerExecute, Apart, G!Typed, G!Holding
    <3>2. G!WorkerStep(w) /\ M!Run(job[w])
      BY <2>1, CallSteps, WorkerSteps DEF WorkerExecute
    <3> QED
      BY <2>0, <3>1, <3>2 DEF M!Next
  <2>2. CASE WorkerEnqueueCall(w)
    <3>1. job[w] \in Check
      BY <2>2 DEF WorkerEnqueueCall, Apart, G!Typed, G!Holding
    <3>2. M!EnqueueCall(w, job[w])
      BY <2>2, CallSteps DEF WorkerEnqueueCall
    <3> QED
      BY <1>g, <2>2, <3>1, <3>2 DEF WorkerEnqueueCall, M!Next
  <2>3. CASE WorkerEnqueueInsert(w)
    <3>1. G!WorkerStep(w) /\ M!EnqueueInsert(w)
      BY <2>3, CallSteps, WorkerSteps DEF WorkerEnqueueInsert
    <3> QED
      BY <2>0, <3>1 DEF M!Next
  <2>4. CASE WorkerElse(w)
    BY <1>m, <2>0, <2>4, WorkerSteps DEF WorkerElse
  <2> QED
    BY <1>6, <2>1, <2>2, <2>3, <2>4 DEF WorkerStep
<1>7. CASE Goroutines!Alive /\ Cancel
  <2>1. Goroutines!Cancel => G!Cancel
    BY DEF Goroutines!Cancel, G!Cancel, Goroutines!popVars, Goroutines!mainVars,
           Goroutines!workerVars, G!popVars, G!mainVars, G!workerVars
  <2> QED
    BY <1>a, <1>m, <1>7, <2>1 DEF Cancel, G!Next
<1> QED
  BY <1>1, <1>3, <1>4, <1>5, <1>6, <1>7 DEF Next, Terminated

LEMMA ApartNext ==
  ASSUME Apart, [Next]_vars
  PROVE  Apart'
<1>1. [G!Next]_(G!vars) /\ [M!Next]_(M!vars)
  BY StepsOfBoth
<1>2. G!Typed' /\ G!ExclusiveOwner'
  BY <1>1, G!TypedNext, G!OwnerNext, ServerConstants DEF Apart
<1>3. M!Typed' /\ M!Indexed'
  BY <1>1, M!TypedNext, M!IndexedNext, QueueConstants DEF Apart
<1>4. M!FiledInQueue' /\ M!FiledInCall'
  BY <1>1, M!FiledNext, QueueConstants DEF Apart
<1>5. M!Once' /\ M!Unexecuted' /\ M!FoundDue'
  BY <1>1, M!OnceNext, M!UnexecutedNext, M!FoundDueNext, QueueConstants DEF Apart
<1> QED
  BY <1>2, <1>3, <1>4, <1>5 DEF Apart

-----------------------------------------------------------------------------
(* Most steps leave the queue alone: neither view of it changes.           *)
LEMMA QueueSteps ==
  ASSUME [Next]_vars
  PROVE  \/ PopDequeue
         \/ MainDrainInsert
         \/ \E w \in Worker : WorkerEnqueueInsert(w)
         \/ UNCHANGED <<queue, checks>>
<1>1. CASE UNCHANGED vars \/ Tick
  BY <1>1 DEF vars, serverVars, queueVars, Tick, Mem!Tick, Mem!memVars
<1>2. CASE Cancel
  BY <1>2 DEF Cancel, Goroutines!Cancel, queueVars
<1>3. CASE Populator
  <2>1. Goroutines!PopDequeueNil /\ UNCHANGED queueVars => UNCHANGED <<queue, checks>>
    BY DEF Goroutines!PopDequeueNil, queueVars
  <2>2. PopElse => UNCHANGED <<queue, checks>>
    BY DEF PopElse, Goroutines!PopSelect, Goroutines!PopRoom, Goroutines!PopSend,
           Goroutines!PopSleep, Goroutines!PopClose, Goroutines!PopDone, queueVars
  <2> QED
    BY <1>3, <2>1, <2>2 DEF Populator, PopDequeueNil
<1>4. CASE Main
  <2>1. MainDrainCall => UNCHANGED <<queue, checks>>
    BY DEF MainDrainCall, serverVars, Mem!EnqueueCall, Mem!memVars
  <2>2. MainElse => UNCHANGED <<queue, checks>>
    BY DEF MainElse, Goroutines!MainCancelled, Goroutines!MainReceive,
           Goroutines!MainReceiveClosed, Goroutines!MainAcquire, Goroutines!MainPanic,
           Goroutines!MainWait, Goroutines!MainReturn, Goroutines!MainStart, queueVars
  <2> QED
    BY <1>4, <2>1, <2>2 DEF Main
<1>5. ASSUME NEW w \in Worker, WorkerStep(w)
      PROVE  WorkerEnqueueInsert(w) \/ UNCHANGED <<queue, checks>>
  <2>1. WorkerExecute(w) => UNCHANGED <<queue, checks>>
    BY DEF WorkerExecute, Goroutines!WorkerExecute, Mem!Run, Mem!memVars
  <2>2. WorkerEnqueueCall(w) => UNCHANGED <<queue, checks>>
    BY DEF WorkerEnqueueCall, serverVars, Mem!EnqueueCall, Mem!memVars
  <2>3. WorkerElse(w) => UNCHANGED <<queue, checks>>
    BY DEF WorkerElse, Goroutines!WorkerReEnqueue, Goroutines!WorkerRelease,
           Goroutines!WorkerDelete, Goroutines!WorkerDone, queueVars
  <2> QED
    BY <1>5, <2>1, <2>2, <2>3 DEF WorkerStep
<1> QED
  BY <1>1, <1>2, <1>3, <1>4, <1>5 DEF Next, Terminated

(* The server adds a check to its bag when the queue gets it.              *)
LEMMA BagGrows ==
  ASSUME Apart, Bag, NEW e \in Worker \cup {MainLoop}, M!EnqueueInsert(e),
         queue' = [queue EXCEPT ![enqueuing[e]] = @ + 1]
  PROVE  Bag'
<1>1. enqueuing[e] \in Check /\ ~M!InQueue(enqueuing[e])
  BY M!InsertEffect, QueueConstants DEF Apart, M!Once
<1>2. \A c : M!InQueue(c)' <=> M!InQueue(c) \/ c = enqueuing[e]
  BY M!InsertQueues, QueueConstants DEF Apart
<1>3. queue \in [Check -> Nat]
  BY DEF Apart, G!Typed
<1>4. \A c \in Check : queue'[c] = IF c = enqueuing[e] THEN queue[c] + 1 ELSE queue[c]
  BY <1>3
<1>5. ASSUME NEW c \in Check PROVE queue'[c] = IF M!InQueue(c)' THEN 1 ELSE 0
  <2>1. CASE c = enqueuing[e]
    BY <1>1, <1>2, <1>4, <2>1 DEF Bag
  <2>2. CASE c # enqueuing[e]
    BY <1>2, <1>4, <2>2 DEF Bag
  <2> QED
    BY <2>1, <2>2
<1> QED
  BY <1>5 DEF Bag

LEMMA BagNext == Apart /\ Bag /\ Callers /\ [Next]_vars => Bag'
<1> SUFFICES ASSUME Apart, Bag, Callers, [Next]_vars PROVE Bag'
  OBVIOUS
<1>1. CASE PopDequeue
  <2>1. M!Dequeue /\ M!Top = Mem!Top /\ G!PopDequeue(M!Top)
    BY <1>1, CallSteps, PopulatorSteps DEF PopDequeue
  <2>2. M!Top \in Check /\ \A c : M!InQueue(c)' <=> M!InQueue(c) /\ c # M!Top
    BY <2>1, M!DequeueTakes, QueueConstants DEF Apart
  <2>3. M!InQueue(M!Top)
    BY <2>1, M!DequeueTakes, QueueConstants DEF Apart
  <2>4. queue \in [Check -> Nat] /\ queue' = [queue EXCEPT ![M!Top] = @ - 1]
    BY <2>1 DEF Apart, G!Typed, G!PopDequeue, G!QueueDequeue
  <2>5. \A c \in Check : queue'[c] = IF c = M!Top THEN queue[c] - 1 ELSE queue[c]
    BY <2>4
  <2>6. ASSUME NEW c \in Check PROVE queue'[c] = IF M!InQueue(c)' THEN 1 ELSE 0
    <3>1. CASE c = M!Top
      BY <2>2, <2>3, <2>5, <3>1 DEF Bag
    <3>2. CASE c # M!Top
      BY <2>2, <2>5, <3>2 DEF Bag
    <3> QED
      BY <3>1, <3>2
  <2> QED
    BY <2>6 DEF Bag
<1>2. CASE MainDrainInsert
  <2>1. M!EnqueueInsert(MainLoop) /\ enqueuing[MainLoop] # NoCheck
    BY <1>2, CallSteps DEF MainDrainInsert, M!EnqueueInsert
  <2>2. Head(pending) = enqueuing[MainLoop]
    BY <2>1 DEF Callers
  <2>3. queue' = [queue EXCEPT ![enqueuing[MainLoop]] = @ + 1]
    BY <1>2, <2>2 DEF MainDrainInsert, Goroutines!MainDrain, Goroutines!QueueEnqueue
  <2> QED
    BY <2>1, <2>3, BagGrows
<1>3. ASSUME NEW w \in Worker, WorkerEnqueueInsert(w) PROVE Bag'
  <2>1. M!EnqueueInsert(w) /\ enqueuing[w] # NoCheck
    BY <1>3, CallSteps DEF WorkerEnqueueInsert, M!EnqueueInsert
  <2>2. job[w] = enqueuing[w]
    BY <2>1 DEF Callers
  <2>3. queue' = [queue EXCEPT ![enqueuing[w]] = @ + 1]
    BY <1>3, <2>2 DEF WorkerEnqueueInsert, Goroutines!WorkerReEnqueue, Goroutines!QueueEnqueue
  <2> QED
    BY <2>1, <2>3, BagGrows
<1>4. CASE UNCHANGED <<queue, checks>>
  BY <1>4 DEF Bag, M!InQueue, M!InBucket
<1> QED
  BY <1>1, <1>2, <1>3, <1>4, QueueSteps

-----------------------------------------------------------------------------
(* A goroutine in the middle of Enqueue stays where it called it.          *)
LEMMA CallersNext == Apart /\ Callers /\ [Next]_vars => Callers'
<1> SUFFICES ASSUME Apart, Callers, [Next]_vars PROVE Callers'
  OBVIOUS
<1>0. /\ pending \in Seq(Check) /\ enqueuing \in [Worker \cup {MainLoop} -> Check \cup {NoCheck}]
      /\ workerPc \in [Worker -> G!WorkerSteps] /\ job \in [Worker -> Check \cup {NoCheck}]
      /\ MainLoop \notin Worker
  BY PollerAssumption DEF Apart, G!Typed, M!Typed
<1>1. CASE UNCHANGED <<enqueuing, autoReEnqueue, workerPc, job, mainPc, pending>>
  BY <1>1 DEF Callers
<1>2. CASE UNCHANGED vars \/ Tick \/ Cancel
  BY <1>1, <1>2 DEF vars, serverVars, queueVars, Tick, Mem!Tick, Mem!callVars, Cancel,
     Goroutines!Cancel, Goroutines!mainVars, Goroutines!workerVars
<1>3. CASE Populator
  <2>1. /\ UNCHANGED <<enqueuing, autoReEnqueue, workerPc, job, mainPc>>
        /\ pending' = pending \/ pending' = Append(pending, popChk)
    <3> USE DEF Goroutines!mainVars, Goroutines!workerVars, queueVars
    <3>1. CASE PopDequeue
      BY <3>1 DEF PopDequeue, Mem!Dequeue, Mem!callVars, Goroutines!PopDequeue
    <3>2. CASE PopDequeueNil
      BY <3>2 DEF PopDequeueNil, Goroutines!PopDequeueNil
    <3>3. CASE PopElse
      BY <3>3 DEF PopElse, Goroutines!PopSelect, Goroutines!PopRoom, Goroutines!PopSend,
         Goroutines!PopSleep, Goroutines!PopClose, Goroutines!PopDone
    <3> QED
      BY <1>3, <3>1, <3>2, <3>3 DEF Populator
  <2>2. ASSUME pending # <<>> PROVE pending' # <<>> /\ Head(pending') = Head(pending)
    <3>1. popChk \in Check \cup {NoCheck} /\ pending \in Seq(Check \cup {NoCheck})
      BY DEF Apart, G!Typed
    <3> QED
      BY <2>1, <2>2, <3>1
  <2> QED
    BY <2>1, <2>2 DEF Callers
<1>4. CASE MainDrainCall
  BY <1>0, <1>4 DEF MainDrainCall, serverVars, Mem!EnqueueCall, Callers
<1>5. CASE MainDrainInsert
  BY <1>0, <1>5 DEF MainDrainInsert, Mem!EnqueueInsert, Goroutines!MainDrain,
     Goroutines!workerVars, Callers
<1>6. CASE MainElse
  <2>1. enqueuing[MainLoop] = NoCheck
    BY <1>6 DEF MainElse, Callers, Goroutines!MainCancelled, Goroutines!MainReceive,
       Goroutines!MainReceiveClosed, Goroutines!MainAcquire, Goroutines!MainPanic,
       Goroutines!MainWait, Goroutines!MainReturn, Goroutines!MainStart
  <2>2. /\ UNCHANGED <<enqueuing, autoReEnqueue>>
        /\ \A w \in Worker : workerPc[w] = "reEnqueue" =>
             workerPc'[w] = workerPc[w] /\ job'[w] = job[w]
    <3>1. ASSUME NEW v \in Worker, Goroutines!MainStart(v), UNCHANGED queueVars
          PROVE  /\ UNCHANGED <<enqueuing, autoReEnqueue>>
                 /\ \A w \in Worker : workerPc[w] = "reEnqueue" =>
                      workerPc'[w] = workerPc[w] /\ job'[w] = job[w]
      BY <1>0, <3>1 DEF Goroutines!MainStart, queueVars
    <3> QED
      BY <1>6, <3>1 DEF MainElse, Goroutines!MainCancelled, Goroutines!MainReceive,
         Goroutines!MainReceiveClosed, Goroutines!MainAcquire, Goroutines!MainPanic,
         Goroutines!MainWait, Goroutines!MainReturn, Goroutines!workerVars, queueVars
  <2> QED
    BY <2>1, <2>2 DEF Callers
<1>7. ASSUME NEW w \in Worker, WorkerStep(w) PROVE Callers'
  <2>1. CASE WorkerExecute(w)
    <3>1. /\ workerPc[w] = "executing" /\ workerPc' = [workerPc EXCEPT ![w] = "reEnqueue"]
          /\ UNCHANGED <<enqueuing, autoReEnqueue, job, mainPc, pending>>
      BY <2>1 DEF WorkerExecute, Goroutines!WorkerExecute, Goroutines!mainVars, Mem!Run,
         Mem!callVars
    <3>2. enqueuing[w] = NoCheck
      BY <3>1 DEF Callers
    <3> QED
      BY <1>0, <3>1, <3>2 DEF Callers
  <2>2. CASE WorkerEnqueueCall(w)
    BY <1>0, <2>2 DEF WorkerEnqueueCall, serverVars, Mem!EnqueueCall, Callers
  <2>3. CASE WorkerEnqueueInsert(w)
    <3>1. /\ enqueuing' = [enqueuing EXCEPT ![w] = NoCheck]
          /\ workerPc' = [workerPc EXCEPT ![w] = "release"]
          /\ UNCHANGED <<autoReEnqueue, job, mainPc, pending>>
      BY <2>3 DEF WorkerEnqueueInsert, Mem!EnqueueInsert, Goroutines!WorkerReEnqueue,
         Goroutines!mainVars
    <3> QED
      BY <1>0, <3>1 DEF Callers
  <2>4. CASE WorkerElse(w)
    <3>1. enqueuing[w] = NoCheck
      BY <2>4 DEF WorkerElse, Callers, Goroutines!WorkerReEnqueue, Goroutines!WorkerRelease,
         Goroutines!WorkerDelete, Goroutines!WorkerDone
    <3>2. /\ UNCHANGED <<enqueuing, autoReEnqueue, mainPc, pending>>
          /\ \A v \in Worker \ {w} : workerPc'[v] = workerPc[v] /\ job'[v] = job[v]
      BY <1>0, <2>4 DEF WorkerElse, Goroutines!WorkerReEnqueue, Goroutines!WorkerRelease,
         Goroutines!WorkerDelete, Goroutines!WorkerDone, Goroutines!mainVars, queueVars
    <3> QED
      BY <3>1, <3>2 DEF Callers
  <2> QED
    BY <1>7, <2>1, <2>2, <2>3, <2>4 DEF WorkerStep
<1> QED
  BY <1>2, <1>3, <1>4, <1>5, <1>6, <1>7 DEF Next, Main, Terminated

-----------------------------------------------------------------------------
(* Whoever holds a check, or executes it, has it from the queue.           *)
LEMMA HandedOn ==
  ASSUME Apart, [Next]_vars, ~PopDequeue
  PROVE  \A c \in Check : InHand(c)' => InHand(c)
<1>0. /\ pending \in Seq(Check) /\ popChk \in Check \cup {NoCheck}
      /\ mainChk \in Check \cup {NoCheck}
      /\ workerPc \in [Worker -> G!WorkerSteps] /\ job \in [Worker -> Check \cup {NoCheck}]
      /\ NoCheck \notin Check
  BY PollerAssumption DEF Apart, G!Typed
<1> DEFINE Kept == \A c \in Check : InHand(c)' => InHand(c)
           Less == \A w \in Worker :
                     workerPc'[w] = "executing" => workerPc[w] = "executing" /\ job'[w] = job[w]
<1>1. Less => \A c \in Check : Executing(c)' => Executing(c)
  BY DEF Executing
<1>2. ASSUME UNCHANGED <<popChk, mainChk, pending>>, Less PROVE Kept
  BY <1>1, <1>2 DEF InHand, G!Held, G!InPending
<1>3. CASE UNCHANGED vars \/ Tick \/ Cancel
  BY <1>2, <1>3 DEF vars, serverVars, Tick, Cancel, Goroutines!Cancel, Goroutines!popVars,
     Goroutines!mainVars, Goroutines!workerVars
<1>4. CASE Populator
  <2>1. UNCHANGED <<mainChk, workerPc, job>>
        /\ (UNCHANGED <<popChk, pending>> \/ Goroutines!PopSend)
    <3> USE DEF Goroutines!mainVars, Goroutines!workerVars
    <3>1. CASE PopDequeueNil
      BY <3>1 DEF PopDequeueNil, Goroutines!PopDequeueNil
    <3>2. CASE PopElse
      BY <3>2 DEF PopElse, Goroutines!PopSelect, Goroutines!PopRoom, Goroutines!PopSend,
         Goroutines!PopSleep, Goroutines!PopClose, Goroutines!PopDone
    <3> QED
      BY <1>4, <3>1, <3>2 DEF Populator
  <2>2. CASE UNCHANGED <<popChk, pending>>
    BY <1>2, <2>1, <2>2
  <2>3. CASE Goroutines!PopSend
    <3>1. popChk \in Check /\ pending' = Append(pending, popChk) /\ popChk' = NoCheck
      BY <2>3 DEF Goroutines!PopSend, Apart, G!Typed, G!Holding
    <3>2. ASSUME NEW c \in Check, G!InPending(c)' PROVE G!InPending(c) \/ popChk = c
      <4>1. PICK i \in 1 .. Len(pending') : pending'[i] = c
        BY <3>2 DEF G!InPending
      <4>2. /\ Len(pending') = Len(pending) + 1 /\ Len(pending) \in Nat
            /\ pending'[Len(pending) + 1] = popChk
            /\ \A j \in 1 .. Len(pending) : pending'[j] = pending[j]
        BY <1>0, <3>1
      <4>3. i \in 1 .. Len(pending) \/ i = Len(pending) + 1
        BY <4>2
      <4> QED
        BY <4>1, <4>2, <4>3 DEF G!InPending
    <3>3. \A c \in Check : Executing(c)' => Executing(c)
      BY <2>1 DEF Executing
    <3> QED
      BY <1>0, <2>1, <3>1, <3>2, <3>3 DEF InHand, G!Held
  <2> QED
    BY <2>1, <2>2, <2>3
<1>5. CASE MainDrainCall
  BY <1>2, <1>5 DEF MainDrainCall, serverVars
<1>6. ASSUME pending # <<>>, pending' = Tail(pending)
      PROVE  \A c \in Check : G!InPending(c)' => G!InPending(c)
  <2>1. /\ Len(pending') = Len(pending) - 1 /\ Len(pending) \in Nat
        /\ \A i \in 1 .. Len(pending') :
             i + 1 \in 1 .. Len(pending) /\ pending'[i] = pending[i + 1]
    BY <1>0, <1>6
  <2> QED
    BY <2>1 DEF G!InPending
<1>7. CASE MainDrainInsert
  <2>1. /\ pending # <<>> /\ pending' = Tail(pending)
        /\ UNCHANGED <<popChk, mainChk, workerPc, job>>
    BY <1>7 DEF MainDrainInsert, Goroutines!MainDrain, Goroutines!popVars, Goroutines!mainVars,
       Goroutines!workerVars
  <2> QED
    BY <1>1, <1>6, <2>1 DEF InHand, G!Held
<1>8. CASE MainElse
  <2> USE DEF Goroutines!popVars, Goroutines!workerVars
  <2>1. CASE Goroutines!MainReceive
    <3>1. /\ pending # <<>> /\ pending' = Tail(pending) /\ mainChk' = Head(pending)
          /\ UNCHANGED <<popChk, workerPc, job>>
      BY <2>1 DEF Goroutines!MainReceive
    <3>2. G!InPending(Head(pending))
      <4>1. 1 \in 1 .. Len(pending) /\ Head(pending) = pending[1]
        BY <1>0, <3>1
      <4> QED
        BY <4>1 DEF G!InPending
    <3> QED
      BY <1>1, <1>6, <3>1, <3>2 DEF InHand, G!Held
  <2>2. CASE Goroutines!MainReceiveClosed
    BY <1>0, <1>1, <2>2 DEF Goroutines!MainReceiveClosed, InHand, G!Held, G!InPending
  <2>3. CASE \/ Goroutines!MainCancelled \/ Goroutines!MainAcquire \/ Goroutines!MainPanic
             \/ Goroutines!MainWait \/ Goroutines!MainReturn
    BY <1>2, <2>3 DEF Goroutines!MainCancelled, Goroutines!MainAcquire, Goroutines!MainPanic,
       Goroutines!MainWait, Goroutines!MainReturn, Goroutines!mainVars
  <2>4. ASSUME NEW w \in Worker, Goroutines!MainStart(w) PROVE Kept
    <3>1. /\ UNCHANGED <<popChk, pending>> /\ mainChk' = NoCheck
          /\ workerPc' = [workerPc EXCEPT ![w] = "executing"]
          /\ job' = [job EXCEPT ![w] = mainChk]
      BY <2>4 DEF Goroutines!MainStart
    <3>2. \A c \in Check : Executing(c)' => Executing(c) \/ mainChk = c
      BY <1>0, <3>1 DEF Executing
    <3> QED
      BY <1>0, <3>1, <3>2 DEF InHand, G!Held, G!InPending
  <2> QED
    BY <1>8, <2>1, <2>2, <2>3, <2>4 DEF MainElse
<1>9. ASSUME NEW w \in Worker, WorkerStep(w) PROVE Kept
  <2>1. UNCHANGED <<popChk, mainChk, pending>> /\ Less
    <3> USE DEF Goroutines!popVars, Goroutines!mainVars
    <3>1. CASE WorkerExecute(w)
      BY <1>0, <3>1 DEF WorkerExecute, Goroutines!WorkerExecute
    <3>2. CASE WorkerEnqueueCall(w)
      BY <3>2 DEF WorkerEnqueueCall, serverVars
    <3>3. CASE Goroutines!WorkerReEnqueue(w)
      BY <1>0, <3>3 DEF Goroutines!WorkerReEnqueue
    <3>4. CASE Goroutines!WorkerRelease(w)
      BY <1>0, <3>4 DEF Goroutines!WorkerRelease
    <3>5. CASE Goroutines!WorkerDelete(w)
      BY <1>0, <3>5 DEF Goroutines!WorkerDelete
    <3>6. CASE Goroutines!WorkerDone(w)
      BY <1>0, <3>6 DEF Goroutines!WorkerDone
    <3> QED
      BY <1>9, <3>1, <3>2, <3>3, <3>4, <3>5, <3>6 DEF WorkerStep, WorkerEnqueueInsert, WorkerElse
  <2> QED
    BY <1>2, <2>1
<1> QED
  BY <1>3, <1>4, <1>5, <1>7, <1>8, <1>9 DEF Next, Main, Terminated

LEMMA ClockSteps ==
  ASSUME [Next]_vars
  PROVE  \/ PopDequeue \/ Tick
         \/ \E w \in Worker : WorkerExecute(w)
         \/ UNCHANGED <<now, lastCheck>> /\ executed' \subseteq executed
<1> DEFINE Same == UNCHANGED <<now, lastCheck>> /\ executed' \subseteq executed
<1>1. UNCHANGED queueVars => Same
  BY DEF queueVars
<1>2. \A e, c : Mem!EnqueueCall(e, c) => Same
  BY DEF Mem!EnqueueCall
<1>3. \A e : Mem!EnqueueInsert(e) => Same
  BY DEF Mem!EnqueueInsert, Mem!checkVars
<1>4. CASE UNCHANGED vars \/ Cancel
  BY <1>1, <1>4 DEF vars, Cancel
<1>5. CASE Populator
  BY <1>1, <1>5 DEF Populator, PopDequeueNil, PopElse
<1>6. CASE Main
  BY <1>1, <1>2, <1>3, <1>6 DEF Main, MainDrainCall, MainDrainInsert, MainElse
<1>7. ASSUME NEW w \in Worker, WorkerStep(w) PROVE WorkerExecute(w) \/ Same
  BY <1>1, <1>2, <1>3, <1>7 DEF WorkerStep, WorkerEnqueueCall, WorkerEnqueueInsert, WorkerElse
<1> QED
  BY <1>4, <1>5, <1>6, <1>7 DEF Next, Terminated

LEMMA DueNext == Apart /\ DueInHand /\ [Next]_vars => DueInHand'
<1> SUFFICES ASSUME Apart, DueInHand, [Next]_vars PROVE DueInHand'
  OBVIOUS
<1>0. /\ lastCheck \in [Check -> (0 .. MaxNow) \cup {Never}] /\ now \in 0 .. MaxNow
      /\ workerPc \in [Worker -> G!WorkerSteps] /\ job \in [Worker -> Check \cup {NoCheck}]
      /\ MaxNow \in Nat
  BY PollerAssumption DEF Apart, G!Typed, M!Typed
<1>1. CASE PopDequeue
  <2>1. M!Dequeue /\ G!PopDequeue(M!Top)
    BY <1>1, CallSteps, PopulatorSteps DEF PopDequeue
  <2>2. M!Top \in Check /\ M!InQueue(M!Top)
    BY <2>1, M!DequeueTakes, QueueConstants DEF Apart
  <2>3. M!Top \notin executed /\ M!IsDue(M!Top, lastCheck[M!Top], now)
    BY <2>1, <2>2 DEF Apart, M!Unexecuted, M!Dequeue, M!TopIsDue
  <2>4. UNCHANGED <<now, lastCheck, executed>>
    BY <2>1 DEF M!Dequeue, M!checkVars
  <2>5. \A c \in Check : InHand(c)' => InHand(c) \/ c = M!Top
    BY <2>1 DEF G!PopDequeue, G!mainVars, G!workerVars, InHand, Executing, G!Held, G!InPending
  <2> QED
    BY <2>3, <2>4, <2>5 DEF DueInHand, M!IsDue, M!DueAt
<1>2. ASSUME ~PopDequeue PROVE \A c \in Check : InHand(c)' => InHand(c)
  BY <1>2, HandedOn
<1>3. CASE Tick
  <2>1. ~PopDequeue
    BY <1>3 DEF Tick, serverVars, Mem!Tick, PopDequeue, Goroutines!PopDequeue
  <2>2. now' = now + 1 /\ UNCHANGED <<lastCheck, executed>>
    BY <1>3 DEF Tick, Mem!Tick, Mem!checkVars
  <2>3. ASSUME NEW c \in Check, M!IsDue(c, lastCheck[c], now)
        PROVE  M!IsDue(c, lastCheck'[c], now')
    <3>1. CASE lastCheck[c] = Never
      BY <1>0, <2>2, <3>1 DEF M!IsDue, M!DueAt
    <3>2. CASE lastCheck[c] # Never
      <4>1. lastCheck[c] \in Nat /\ IntervalSeconds[c] * TicksPerSecond \in Nat /\ now \in Nat
        BY <1>0, <3>2, QueueConstants, M!ProductMonotone
      <4>2. lastCheck[c] + IntervalSeconds[c] * TicksPerSecond <= now
        BY <2>3, <3>2 DEF M!IsDue, M!DueAt
      <4>3. lastCheck[c] + IntervalSeconds[c] * TicksPerSecond <= now'
        BY <2>2, <4>1, <4>2
      <4> QED
        BY <2>2, <3>2, <4>3 DEF M!IsDue, M!DueAt
    <3> QED
      BY <3>1, <3>2
  <2>4. ASSUME NEW c \in Check, InHand(c)' PROVE c \notin executed' /\ M!IsDue(c, lastCheck[c], now)'
    <3>1. c \notin executed /\ M!IsDue(c, lastCheck[c], now)
      BY <1>2, <2>1, <2>4 DEF DueInHand
    <3>2. M!IsDue(c, lastCheck'[c], now')
      BY <2>3, <3>1
    <3> QED
      BY <2>2, <3>1, <3>2 DEF M!IsDue, M!DueAt
  <2> QED
    BY <2>4 DEF DueInHand
<1>4. ASSUME NEW w \in Worker, WorkerExecute(w) PROVE DueInHand'
  <2> DEFINE d == job[w]
  <2>1. /\ workerPc[w] = "executing" /\ workerPc' = [workerPc EXCEPT ![w] = "reEnqueue"]
        /\ UNCHANGED <<popChk, mainChk, pending, job, now>>
        /\ executed' = executed \cup {d} /\ lastCheck' = [lastCheck EXCEPT ![d] = now]
    BY <1>4 DEF WorkerExecute, Goroutines!WorkerExecute, Goroutines!popVars,
       Goroutines!mainVars, Mem!Run
  <2>2. d \in Check
    BY <2>1 DEF Apart, G!Typed, G!Holding
  <2>3. G!Runs(w, d) /\ G!Running(d)
    BY <2>1 DEF G!Running, G!Runs
  <2>4. ~G!Held(d) /\ \A v \in Worker : G!Runs(v, d) => v = w
    BY <2>2, <2>3 DEF Apart, G!ExclusiveOwner
  <2>5. \A v \in Worker : workerPc'[v] = "executing" =>
          v # w /\ workerPc[v] = "executing" /\ job[v] # d
    BY <1>0, <2>1, <2>4 DEF G!Runs
  <2>6. \A c \in Check : InHand(c)' => InHand(c) /\ c # d
    <3>1. \A c \in Check : Executing(c)' => Executing(c) /\ c # d
      BY <2>1, <2>5 DEF Executing
    <3>2. \A c \in Check : G!Held(c)' => G!Held(c)
      BY <2>1 DEF G!Held, G!InPending
    <3> QED
      BY <2>4, <3>1, <3>2 DEF InHand
  <2>7. \A c \in Check : c # d => lastCheck'[c] = lastCheck[c] /\ (c \in executed' => c \in executed)
    BY <1>0, <2>1
  <2> QED
    BY <2>1, <2>6, <2>7 DEF DueInHand, M!IsDue, M!DueAt
<1>5. CASE ~PopDequeue /\ UNCHANGED <<now, lastCheck>> /\ executed' \subseteq executed
  BY <1>2, <1>5 DEF DueInHand, M!IsDue, M!DueAt
<1> QED
  BY <1>1, <1>3, <1>4, <1>5, ClockSteps

-----------------------------------------------------------------------------
(* The queue as the caller filled it.                                      *)
LEMMA InitialBuckets ==
  ASSUME Init
  PROVE  /\ DOMAIN checks = priorities
         /\ \A c \in Check :
              /\ DueSecond(c) = M!Unix(M!DueAt(c, lastCheck[c], 0))
              /\ DueSecond(c) \in Nat /\ DueSecond(c) < MaxInt64
              /\ DueSecond(c) \in priorities
              /\ \E i \in 1 .. Len(checks[DueSecond(c)]) : checks[DueSecond(c)][i] = c
         /\ \A p \in priorities :
              /\ p \in Nat /\ checks[p] \in Seq(Check) /\ checks[p] # <<>>
              /\ \A i \in 1 .. Len(checks[p]) : checks[p][i] \in Check /\ DueSecond(checks[p][i]) = p
              /\ \A i, j \in 1 .. Len(checks[p]) : checks[p][i] = checks[p][j] => i = j
<1>1. /\ now = 0 /\ lastCheck \in [Check -> (0 .. MaxNow) \cup {Never}] /\ 0 \in 0 .. MaxNow
      /\ priorities = {DueSecond(c) : c \in Check} /\ DOMAIN checks = priorities
      /\ \A p \in priorities : checks[p] \in Orders({c \in Check : DueSecond(c) = p})
  BY PollerAssumption DEF Init
<1>2. \A c \in Check : DueSecond(c) = M!Unix(M!DueAt(c, lastCheck[c], 0))
  BY <1>1 DEF DueSecond, Mem!Unix, M!Unix, Mem!DueAt, M!DueAt
<1>3. \A c \in Check : DueSecond(c) \in Nat /\ DueSecond(c) < MaxInt64
  BY <1>1, <1>2, M!DueBelowMax, QueueConstants
<1>4. ASSUME NEW p \in priorities
      PROVE  /\ checks[p] \in Seq(Check) /\ checks[p] # <<>>
             /\ \A i \in 1 .. Len(checks[p]) : checks[p][i] \in Check /\ DueSecond(checks[p][i]) = p
             /\ \A i, j \in 1 .. Len(checks[p]) : checks[p][i] = checks[p][j] => i = j
             /\ \A c \in Check : DueSecond(c) = p => \E i \in 1 .. Len(checks[p]) : checks[p][i] = c
  <2> DEFINE S == {c \in Check : DueSecond(c) = p}
             n == Cardinality(S)
  <2>1. S \in SUBSET Check /\ S # {}
    BY <1>1
  <2>2. IsFiniteSet(S) /\ n \in Nat /\ n # 0
    BY <2>1, PollerAssumption, FS_Subset, FS_CardinalityType, FS_EmptySet
  <2>3. /\ checks[p] \in [1 .. n -> S]
        /\ \A c \in S : \E i \in 1 .. n : checks[p][i] = c
        /\ \A i, j \in 1 .. n : checks[p][i] = checks[p][j] => i = j
    BY <1>1 DEF Orders
  <2>4. \A c : c \in S <=> c \in Check /\ DueSecond(c) = p
    OBVIOUS
  <2> HIDE DEF S, n
  <2>5. checks[p] \in Seq(Check) /\ Len(checks[p]) = n
    <3>1. checks[p] \in Seq(S) /\ Len(checks[p]) = n
      BY <2>2, <2>3
    <3> QED
      BY <2>4, <3>1
  <2>6. checks[p] # <<>>
    BY <2>2, <2>5
  <2>7. \A i \in 1 .. n : checks[p][i] \in Check /\ DueSecond(checks[p][i]) = p
    BY <2>3, <2>4
  <2>8. \A c \in Check : DueSecond(c) = p => \E i \in 1 .. n : checks[p][i] = c
    BY <2>3, <2>4
  <2> QED
    BY <2>3, <2>5, <2>6, <2>7, <2>8
<1>5. \A c \in Check : /\ DueSecond(c) \in priorities
                       /\ \E i \in 1 .. Len(checks[DueSecond(c)]) : checks[DueSecond(c)][i] = c
  BY <1>1, <1>4
<1>6. \A p \in priorities : p \in Nat
  BY <1>1, <1>3
<1> QED
  BY <1>1, <1>2, <1>3, <1>4, <1>5, <1>6

LEMMA ApartInit == Init => Apart
<1> SUFFICES ASSUME Init PROVE Apart
  OBVIOUS
<1>1. G!Init
  BY DEF Init, Goroutines!Init, G!Init
<1>2. G!Typed /\ G!ExclusiveOwner
  BY <1>1, G!TypedInit, G!OwnerInit, ServerConstants
<1>3. /\ now = 0 /\ lastCheck \in [Check -> (0 .. MaxNow) \cup {Never}] /\ 0 \in 0 .. MaxNow
      /\ executed = {} /\ MaxInt64 \in Nat
      /\ minPriority = Mem!Minimum(priorities \cup {MaxInt64})
      /\ enqueuing = [e \in Worker \cup {MainLoop} |-> NoCheck]
      /\ priority = [e \in Worker \cup {MainLoop} |-> 0]
  BY PollerAssumption DEF Init
<1>4. priorities \in SUBSET Nat /\ DOMAIN checks = priorities
  BY InitialBuckets
<1>5. minPriority = M!Minimum(priorities \cup {MaxInt64})
  BY <1>3 DEF Mem!Minimum, M!Minimum
<1>6. minPriority \in Nat
  <2> DEFINE S == priorities \cup {MaxInt64}
  <2>1. S \in SUBSET Nat /\ S # {}
    BY <1>3, <1>4
  <2> QED
    BY <1>5, <2>1, M!MinimumIs, QueueConstants
<1>7. M!Typed
  BY <1>3, <1>4, <1>6, InitialBuckets DEF M!Typed
<1>8. M!Indexed
  BY <1>4, <1>5, InitialBuckets DEF M!Indexed
<1>9. M!FiledInQueue
  <2> SUFFICES ASSUME NEW p \in DOMAIN checks, NEW i \in 1 .. Len(checks[p])
               PROVE  M!Filed(checks[p][i], p, lastCheck[checks[p][i]])
    BY DEF M!FiledInQueue
  <2>1. PICK c \in Check : checks[p][i] = c /\ DueSecond(c) = p
    BY <1>4, InitialBuckets
  <2>2. p = M!Unix(M!DueAt(c, lastCheck[c], 0)) /\ p < MaxInt64
    BY <2>1, InitialBuckets
  <2> QED
    BY <2>1, <2>2 DEF M!Filed
<1>10. M!FiledInCall
  BY <1>3 DEF M!FiledInCall
<1>11. M!Once
  <2>1. ASSUME NEW p \in DOMAIN checks, NEW q \in DOMAIN checks,
               NEW i \in 1 .. Len(checks[p]), NEW j \in 1 .. Len(checks[q]),
               checks[p][i] = checks[q][j]
        PROVE  p = q /\ i = j
    <3>0. p \in priorities /\ q \in priorities
      BY <1>4
    <3>1. p = q
      <4>1. PICK c \in Check : checks[p][i] = c /\ DueSecond(c) = p
        BY <3>0, InitialBuckets
      <4>2. PICK d \in Check : checks[q][j] = d /\ DueSecond(d) = q
        BY <3>0, InitialBuckets
      <4>3. c = d
        BY <2>1, <4>1, <4>2
      <4> QED
        BY <4>1, <4>2, <4>3
    <3> QED
      BY <1>4, <2>1, <3>1, InitialBuckets
  <2>2. \A e \in Worker \cup {MainLoop} : enqueuing[e] = NoCheck
    BY <1>3
  <2> QED
    BY <2>1, <2>2, PollerAssumption DEF M!Once
<1>12. M!Unexecuted /\ M!FoundDue
  BY <1>3 DEF M!Unexecuted, M!FoundDue
<1> QED
  BY <1>2, <1>7, <1>8, <1>9, <1>10, <1>11, <1>12 DEF Apart

LEMMA InitIInv == Init => IInv
<1> SUFFICES ASSUME Init PROVE IInv
  OBVIOUS
<1>1. /\ queue = [c \in Check |-> 1] /\ popChk = NoCheck /\ mainChk = NoCheck /\ pending = <<>>
      /\ workerPc = [w \in Worker |-> "idle"]
      /\ enqueuing = [e \in Worker \cup {MainLoop} |-> NoCheck]
  BY DEF Init, Goroutines!Init
<1>2. Bag
  BY <1>1, InitialBuckets DEF Bag, M!InQueue, M!InBucket
<1>3. Callers
  BY <1>1 DEF Callers
<1>4. \A c \in Check : ~InHand(c)
  BY <1>1, PollerAssumption DEF InHand, G!Held, G!InPending, Executing
<1> QED
  BY <1>2, <1>3, <1>4, ApartInit DEF IInv, DueInHand

LEMMA Invariance == Spec => []IInv
<1>1. IInv /\ [Next]_vars => IInv'
  BY ApartNext, BagNext, CallersNext, DueNext DEF IInv
<1> QED
  BY <1>1, InitIInv, PTL DEF Spec

-----------------------------------------------------------------------------
(* Who is about to enqueue or to execute a check has it to itself.         *)
LEMMA OutsideWhenOwned ==
  ASSUME IInv
  PROVE  /\ \A w \in Worker :
              workerPc[w] \in {"executing", "reEnqueue"} /\ enqueuing[w] = NoCheck
                => M!Outside(job[w])
         /\ mainPc = "drain" /\ pending # <<>> /\ enqueuing[MainLoop] = NoCheck
              => M!Outside(Head(pending))
<1> USE DEF IInv, Apart
<1>1. \A c \in Check : queue[c] # 1 => ~M!InQueue(c)
  BY DEF Bag
<1>2. pending # <<>> => Head(pending) \in Check /\ G!Held(Head(pending))
  <2>1. pending \in Seq(Check)
    BY DEF G!Typed
  <2>2. pending # <<>> => 1 \in 1 .. Len(pending) /\ Head(pending) = pending[1] /\ pending[1] \in Check
    BY <2>1
  <2> QED
    BY <2>2 DEF G!Held, G!InPending
<1>3. \A w \in Worker : workerPc[w] \in {"executing", "reEnqueue"} =>
        job[w] \in Check /\ G!Running(job[w]) /\ G!Runs(w, job[w])
  BY DEF G!Typed, G!Holding, G!Running, G!Runs
<1>4. ASSUME NEW w \in Worker, workerPc[w] \in {"executing", "reEnqueue"}, enqueuing[w] = NoCheck
      PROVE  M!Outside(job[w])
  <2>1. job[w] \in Check /\ G!Running(job[w]) /\ G!Runs(w, job[w])
    BY <1>3, <1>4
  <2>2. queue[job[w]] # 1 /\ ~G!Held(job[w])
    BY <2>1 DEF G!ExclusiveOwner
  <2>3. ASSUME NEW v \in Worker, enqueuing[v] = job[w] PROVE FALSE
    <3>1. G!Runs(v, job[w]) /\ enqueuing[v] # NoCheck
      BY <2>1, <2>3, PollerAssumption DEF Callers, G!Runs
    <3>2. v = w
      BY <2>1, <3>1 DEF G!ExclusiveOwner
    <3> QED
      BY <1>4, <3>1, <3>2
  <2>4. ASSUME enqueuing[MainLoop] = job[w] PROVE FALSE
    BY <1>2, <2>1, <2>2, <2>4, PollerAssumption DEF Callers
  <2> QED
    BY <1>1, <2>1, <2>2, <2>3, <2>4 DEF M!Outside, M!InCall
<1>5. ASSUME pending # <<>>, enqueuing[MainLoop] = NoCheck
      PROVE  M!Outside(Head(pending))
  <2>1. Head(pending) \in Check /\ queue[Head(pending)] # 1 /\ ~G!Running(Head(pending))
    BY <1>2, <1>5 DEF G!ExclusiveOwner
  <2>2. ASSUME NEW v \in Worker, enqueuing[v] = Head(pending) PROVE FALSE
    <3>1. G!Runs(v, Head(pending))
      BY <2>1, <2>2, PollerAssumption DEF Callers, G!Runs
    <3> QED
      BY <2>1, <3>1 DEF G!Running
  <2>3. enqueuing[MainLoop] # Head(pending)
    BY <1>5, <2>1, PollerAssumption
  <2> QED
    BY <1>1, <2>1, <2>2, <2>3 DEF M!Outside, M!InCall
<1> QED
  BY <1>4, <1>5

LEMMA PlacesCounted ==
  ASSUME IInv, NEW c \in Check
  PROVE  queue[c] =
           Cardinality(UNION {{<<p, i>> : i \in {j \in DOMAIN checks[p] : checks[p][j] = c}} :
                              p \in DOMAIN checks})
<1> DEFINE X == UNION {{<<p, i>> : i \in {j \in DOMAIN checks[p] : checks[p][j] = c}} :
                       p \in DOMAIN checks}
<1>1. \A p \in DOMAIN checks : DOMAIN checks[p] = 1 .. Len(checks[p])
  BY DEF IInv, Apart, M!Typed
<1>2. \A x : x \in X <=> \E p \in DOMAIN checks : \E i \in 1 .. Len(checks[p]) :
                           x = <<p, i>> /\ checks[p][i] = c
  BY <1>1
<1> HIDE DEF X
<1>3. CASE M!InQueue(c)
  <2>1. PICK p \in DOMAIN checks : \E i \in 1 .. Len(checks[p]) : checks[p][i] = c
    BY <1>3 DEF M!InQueue, M!InBucket
  <2>2. PICK i \in 1 .. Len(checks[p]) : checks[p][i] = c
    BY <2>1
  <2>3. \A q \in DOMAIN checks : \A j \in 1 .. Len(checks[q]) :
          checks[q][j] = c => q = p /\ j = i
    BY <2>2 DEF IInv, Apart, M!Once
  <2>4. X = {<<p, i>>}
    BY <1>2, <2>2, <2>3
  <2>5. queue[c] = 1
    BY <1>3 DEF IInv, Bag
  <2> QED
    BY <2>4, <2>5, FS_Singleton DEF X
<1>4. CASE ~M!InQueue(c)
  <2>1. X = {}
    BY <1>2, <1>4 DEF M!InQueue, M!InBucket
  <2>2. queue[c] = 0
    BY <1>4 DEF IInv, Bag
  <2> QED
    BY <2>1, <2>2, FS_EmptySet DEF X
<1> QED
  BY <1>3, <1>4

(* The names that Poller has for the operators of its components, and the  *)
(* ones that their proofs have, stand for the same.                        *)
LEMMA SameNames ==
  /\ \A c : (Mem!Outside(c) <=> M!Outside(c)) /\ (Mem!InQueue(c) <=> M!InQueue(c))
  /\ \A c, p : Mem!InBucket(c, p) <=> M!InBucket(c, p)
  /\ \A c, last, t : Mem!DueAt(c, last, t) = M!DueAt(c, last, t)
  /\ \A c, last, t : Mem!IsDue(c, last, t) <=> M!IsDue(c, last, t)
  /\ \A t : Mem!Unix(t) = M!Unix(t)
  /\ \A c : Goroutines!Held(c) <=> G!Held(c)
BY DEF Mem!Outside, M!Outside, Mem!InQueue, M!InQueue, Mem!InCall, M!InCall, Mem!InBucket,
       M!InBucket, Mem!DueAt, M!DueAt, Mem!IsDue, M!IsDue, Mem!Unix, M!Unix,
       Goroutines!Held, G!Held, Goroutines!InPending, G!InPending

-----------------------------------------------------------------------------
(* What the server takes the queue for is what the queue holds, and no     *)
(* check is enqueued or executed by a goroutine that does not own it.      *)
THEOREM Views == Spec => []ViewsAgree
<1>1. IInv => ViewsAgree
  BY OutsideWhenOwned, PlacesCounted, SameNames DEF ViewsAgree
<1> QED
  BY <1>1, Invariance, PTL

(* A check stays filed under the second in which it is due, and what the   *)
(* server holds is due, however long it has been there.                    *)
THEOREM Filing == Spec => []DueWhereFiled
<1>1. IInv => DueWhereFiled
  <2> SUFFICES ASSUME IInv, NEW c \in Check
               PROVE  /\ \A p \in DOMAIN checks :
                           Mem!InBucket(c, p) /\ lastCheck[c] # Never => p = DueSecond(c)
                      /\ Mem!InQueue(c) => c \notin executed
                      /\ Goroutines!Held(c) \/ (\E w \in Worker : job[w] = c /\ workerPc[w] = "executing")
                           => c \notin executed /\ Mem!IsDue(c, lastCheck[c], now)
    BY DEF DueWhereFiled
  <2>1. ASSUME NEW p \in DOMAIN checks, Mem!InBucket(c, p), lastCheck[c] # Never
        PROVE  p = DueSecond(c)
    <3>1. p = M!Unix(M!DueAt(c, lastCheck[c], 0))
      BY <2>1, SameNames DEF IInv, Apart, M!FiledInQueue, M!Filed, M!InBucket
    <3>2. M!DueAt(c, lastCheck[c], 0) = M!DueAt(c, lastCheck[c], now)
      BY <2>1 DEF M!DueAt
    <3> QED
      BY <3>1, <3>2, SameNames DEF DueSecond
  <2>2. Mem!InQueue(c) => c \notin executed
    BY SameNames DEF IInv, Apart, M!Unexecuted
  <2>3. Goroutines!Held(c) \/ (\E w \in Worker : job[w] = c /\ workerPc[w] = "executing")
          => c \notin executed /\ Mem!IsDue(c, lastCheck[c], now)
    BY SameNames DEF IInv, DueInHand, InHand, Executing
  <2> QED
    BY <2>1, <2>2, <2>3
<1> QED
  BY <1>1, Invariance, PTL

(* Two executions of a check are at least its interval apart, on any path  *)
(* between them.                                                           *)
THEOREM Spacing == Spec => NeverEarly
<1>1. IInv => [\A w \in Worker :
                 workerPc[w] = "executing" /\ workerPc'[w] # "executing" /\ lastCheck[job[w]] # Never =>
                   now >= lastCheck[job[w]] + IntervalSeconds[job[w]] * TicksPerSecond]_vars
  <2> SUFFICES ASSUME IInv, NEW w \in Worker, workerPc[w] = "executing", lastCheck[job[w]] # Never
               PROVE  now >= lastCheck[job[w]] + IntervalSeconds[job[w]] * TicksPerSecond
    OBVIOUS
  <2>1. job[w] \in Check
    BY DEF IInv, Apart, G!Typed, G!Holding
  <2>2. M!IsDue(job[w], lastCheck[job[w]], now)
    BY <2>1 DEF IInv, DueInHand, InHand, Executing
  <2>3. /\ lastCheck[job[w]] \in Nat /\ now \in Nat
        /\ IntervalSeconds[job[w]] * TicksPerSecond \in Nat
    BY <2>1, QueueConstants, M!ProductMonotone DEF IInv, Apart, M!Typed
  <2> QED
    BY <2>2, <2>3 DEF M!IsDue, M!DueAt
<1> QED
  BY <1>1, Invariance, PTL DEF NeverEarly

-----------------------------------------------------------------------------
(* A server with a memory queue is a server: what it is given always comes *)
(* out of the bag of Server, which may hand out any check in it.           *)
THEOREM ServerRuns == Spec => G!Spec
<1>1. Init => G!Init
  BY DEF Init, Goroutines!Init, G!Init
<1>2. IInv /\ [Next]_vars => [G!Next]_(G!vars)
  BY StepsOfBoth DEF IInv
<1> QED
  BY <1>1, <1>2, Invariance, PTL DEF Spec, G!Spec

(* With it, each check passes through the phases that Server promises.     *)
THEOREM Promise == Spec => G!ImplementsDispatch
<1>1. G!Spec => G!ImplementsDispatch
  BY G!Implementation, ServerConstants
<1> QED
  BY <1>1, ServerRuns, PTL

(* Its queue hands the checks out in the order DueQueue promises, though   *)
(* it starts full, whoever enqueues and whenever.                          *)
THEOREM Order == Spec => [][M!Ordered!Next]_(M!Ordered!lineVars)
<1>1. IInv => M!Lined
  BY DEF IInv, Apart, M!Lined
<1>2. IInv /\ IInv' /\ [Next]_vars => [M!Ordered!Next]_(M!Ordered!lineVars)
  <2> SUFFICES ASSUME IInv, IInv', [Next]_vars PROVE [M!Ordered!Next]_(M!Ordered!lineVars)
    OBVIOUS
  <2>1. M!Lined /\ M!Lined' /\ [M!Next]_(M!vars)
    BY <1>1, StepsOfBoth DEF IInv, Apart, M!Lined
  <2> QED
    BY <2>1, M!ImplementsNext, QueueConstants
<1> QED
  BY <1>2, Invariance, PTL DEF Spec
=============================================================================
