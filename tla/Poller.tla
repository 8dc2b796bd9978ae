------------------------------- MODULE Poller -------------------------------
(***************************************************************************)
(* A server with a memory queue, over time: Server and Memqueue joined.    *)
(* The populator dequeues from the memory queue, the workers and, in the   *)
(* end, the main loop enqueue to it, and Check.Execute writes the LastCheck*)
(* that the queue goes by.                                                 *)
(*                                                                         *)
(* Each module keeps its own view: Server its bag of queued checks,        *)
(* Memqueue its buckets and the checks that are outside.  A step of both   *)
(* is the conjunction of a step of each, and ViewsAgree says that neither  *)
(* holds the other back.                                                   *)
(***************************************************************************)
EXTENDS Integers, Sequences, FiniteSets

CONSTANTS
  Check, NoCheck,                          \* as in both
  Worker, MaxRunningChecks,                \* as in Server
  IntervalSeconds, TicksPerSecond, Never,  \* as in Schedule
  MaxInt64, MaxNow,                        \* as in Memqueue
  MainLoop                                 \* the goroutine of Run itself

(* What Server, Schedule and Memqueue assume of their constants, and that  *)
(* there are finitely many checks.                                         *)
ASSUME PollerAssumption ==
  /\ MainLoop \notin Worker /\ NoCheck \notin Check
  /\ IsFiniteSet(Check) /\ IsFiniteSet(Worker)
  /\ MaxRunningChecks \in Nat /\ MaxInt64 \in Nat /\ MaxNow \in Nat
  /\ IntervalSeconds \in [Check -> Nat] /\ TicksPerSecond \in Nat \ {0} /\ Never \notin Nat
  /\ \A c \in Check :
       (MaxNow + IntervalSeconds[c] * TicksPerSecond) \div TicksPerSecond < MaxInt64

VARIABLES
  autoReEnqueue, ctxDone, queue, pending, closed, limiter, tracked, wg,
  popPc, popChk, mainPc, mainChk, workerPc, job, startedLate,
  now, lastCheck, executed, checks, total, priorities, minPriority, enqueuing, priority

Goroutines == INSTANCE Server
Mem        == INSTANCE Memqueue WITH Enqueuer <- Worker \cup {MainLoop}

serverVars == <<autoReEnqueue, ctxDone, queue, pending, closed, limiter, tracked, wg,
                popPc, popChk, mainPc, mainChk, workerPc, job, startedLate>>
queueVars  == <<now, lastCheck, executed, checks, total, priorities, minPriority,
                enqueuing, priority>>
vars       == <<serverVars, queueVars>>

(* The orders of a set of checks, each of them once.                       *)
Orders(S) ==
  {o \in [1 .. Cardinality(S) -> S] :
     /\ \A c \in S : \E i \in 1 .. Cardinality(S) : o[i] = c
     /\ \A i, j \in 1 .. Cardinality(S) : o[i] = o[j] => i = j}

DueSecond(c) == Mem!Unix(Mem!DueAt(c, lastCheck[c], now))

(* The queue as the caller has filled it, in any order, at time 0.         *)
Init ==
  /\ Goroutines!Init
  /\ now = 0
  /\ lastCheck \in [Check -> {Never, 0}]
  /\ executed = {}
  /\ priorities = {DueSecond(c) : c \in Check}
  /\ checks \in [priorities -> UNION {Orders(S) : S \in SUBSET Check}]
  /\ \A p \in priorities : checks[p] \in Orders({c \in Check : DueSecond(c) = p})
  /\ total = Cardinality(Check)
  /\ minPriority = Mem!Minimum(priorities \cup {MaxInt64})
  /\ enqueuing = [e \in Worker \cup {MainLoop} |-> NoCheck]
  /\ priority = [e \in Worker \cup {MainLoop} |-> 0]

-----------------------------------------------------------------------------
(* Populator: Dequeue returns the top of the queue if that is due.         *)
PopDequeue ==
  /\ popPc = "dequeue"
  /\ Mem!Dequeue
  /\ Goroutines!PopDequeue(Mem!Top)

PopDequeueNil ==
  /\ ~Mem!TopIsDue
  /\ Goroutines!PopDequeueNil
  /\ UNCHANGED queueVars

PopElse ==
  /\ \/ Goroutines!PopSelect \/ Goroutines!PopRoom \/ Goroutines!PopSend
     \/ Goroutines!PopSleep \/ Goroutines!PopClose \/ Goroutines!PopDone
  /\ UNCHANGED queueVars

Populator == PopDequeue \/ PopDequeueNil \/ PopElse

(* Main loop.  It hands checks back with two steps for each: the call of   *)
(* Enqueue, and the insertion.                                             *)
MainDrainCall ==
  /\ mainPc = "drain" /\ pending # <<>>
  /\ Mem!EnqueueCall(MainLoop, Head(pending))
  /\ UNCHANGED serverVars

MainDrainInsert ==
  /\ Mem!EnqueueInsert(MainLoop)
  /\ Goroutines!MainDrain

MainElse ==
  /\ \/ Goroutines!MainCancelled \/ Goroutines!MainReceive \/ Goroutines!MainReceiveClosed
     \/ Goroutines!MainAcquire \/ Goroutines!MainPanic \/ Goroutines!MainWait
     \/ Goroutines!MainReturn \/ \E w \in Worker : Goroutines!MainStart(w)
  /\ UNCHANGED queueVars

Main == MainDrainCall \/ MainDrainInsert \/ MainElse

(* Workers.                                                                *)
WorkerExecute(w) ==
  /\ Goroutines!WorkerExecute(w)
  /\ Mem!Run(job[w])

WorkerEnqueueCall(w) ==
  /\ workerPc[w] = "reEnqueue" /\ autoReEnqueue
  /\ Mem!EnqueueCall(w, job[w])
  /\ UNCHANGED serverVars

WorkerEnqueueInsert(w) ==
  /\ autoReEnqueue
  /\ Mem!EnqueueInsert(w)
  /\ Goroutines!WorkerReEnqueue(w)

WorkerElse(w) ==
  /\ \/ ~autoReEnqueue /\ Goroutines!WorkerReEnqueue(w)
     \/ Goroutines!WorkerRelease(w) \/ Goroutines!WorkerDelete(w) \/ Goroutines!WorkerDone(w)
  /\ UNCHANGED queueVars

WorkerStep(w) == WorkerExecute(w) \/ WorkerEnqueueCall(w) \/ WorkerEnqueueInsert(w) \/ WorkerElse(w)

Cancel == Goroutines!Cancel /\ UNCHANGED queueVars

Tick == Mem!Tick /\ UNCHANGED serverVars

(* Run has returned, or the process is gone.                               *)
Terminated == Goroutines!Stopped /\ UNCHANGED vars

Next ==
  \/ /\ Goroutines!Alive
     /\ Cancel \/ Tick \/ Populator \/ Main \/ \E w \in Worker : WorkerStep(w)
  \/ Terminated

Spec == Init /\ [][Next]_vars

(***************************************************************************)
(* Each goroutine keeps running while it can: the Go scheduler is fair to  *)
(* runnable goroutines, every command and handler of the repository works  *)
(* under a timeout, so Execute returns.  Time passes.  Nothing obliges the *)
(* caller to cancel.                                                       *)
(***************************************************************************)
FairSpec ==
  /\ Spec
  /\ WF_vars(Goroutines!Alive /\ Populator)
  /\ WF_vars(Goroutines!Alive /\ Main)
  /\ \A w \in Worker : WF_vars(Goroutines!Alive /\ WorkerStep(w))
  /\ WF_vars(Goroutines!Alive /\ Tick)

-----------------------------------------------------------------------------
(***************************************************************************)
(* Properties.                                                             *)
(***************************************************************************)

(* What Server takes the queue for and what Memqueue has are the same, and *)
(* whoever is about to enqueue or to execute a check has it to itself: the *)
(* promise of exclusive ownership that Memqueue relies on is kept by the   *)
(* goroutines, and the one of a faithful bag is kept by the buckets.       *)
ViewsAgree ==
  /\ \A c \in Check :
       queue[c] = Cardinality(UNION {{<<p, i>> : i \in {j \in DOMAIN checks[p] : checks[p][j] = c}} :
                                      p \in DOMAIN checks})
  /\ \A w \in Worker :
       workerPc[w] \in {"executing", "reEnqueue"} /\ enqueuing[w] = NoCheck => Mem!Outside(job[w])
  /\ mainPc = "drain" /\ pending # <<>> /\ enqueuing[MainLoop] = NoCheck
       => Mem!Outside(Head(pending))

(* LastCheck never moves while a check is in the queue or in the server:   *)
(* one that has run before stays filed under the second in which it is     *)
(* due, so that the queue's order is that of the due times, and every      *)
(* check the server holds, however long, is due.  Neither has Executed set,*)
(* so that what a shutdown leaves can be told from what ran.               *)
DueWhereFiled ==
  \A c \in Check :
    /\ \A p \in DOMAIN checks : Mem!InBucket(c, p) /\ lastCheck[c] # Never => p = DueSecond(c)
    /\ Mem!InQueue(c) => c \notin executed
    /\ Goroutines!Held(c) \/ (\E w \in Worker : job[w] = c /\ workerPc[w] = "executing")
         => c \notin executed /\ Mem!IsDue(c, lastCheck[c], now)

(* Two executions of a check are at least its interval apart, whatever is  *)
(* prefetched, waits for a token, is handed back, or is re-enqueued late.  *)
NeverEarly ==
  [][\A w \in Worker :
       workerPc[w] = "executing" /\ workerPc'[w] # "executing" /\ lastCheck[job[w]] # Never =>
         now >= lastCheck[job[w]] + IntervalSeconds[job[w]] * TicksPerSecond]_vars

(* A check that is due, in the queue or with the server already, gets a    *)
(* worker, or the server is told to stop: no check is starved by others    *)
(* that come back sooner, even with fewer tokens than checks and an        *)
(* interval of 0.                                                          *)
DueIsExecuted ==
  \A c \in Check :
    Goroutines!Held(c) \/ (Mem!InQueue(c) /\ Mem!IsDue(c, lastCheck[c], now)) ~>
      \/ \E w \in Worker : job[w] = c /\ workerPc[w] = "executing"
      \/ ctxDone

(* A cancelled server stops: the populator ends, wg.Wait and the drain of  *)
(* pendingChecks end.                                                      *)
ShutdownCompletes == ctxDone ~> Goroutines!Stopped
=============================================================================
