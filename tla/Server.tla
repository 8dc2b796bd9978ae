------------------------------- MODULE Server -------------------------------
(***************************************************************************)
(* server.Server.Run (server/server.go): the goroutine that fills the      *)
(* channel pendingChecks from the check queue (the populator), the main    *)
(* loop that starts a goroutine per check under the runningLimiter, and    *)
(* those goroutines (the workers), up to the end of an orderly shutdown.   *)
(*                                                                         *)
(* The check queue is the interface check.Queue: a bag of checks whose     *)
(* Dequeue may return any check of the bag, or nil when nothing is due.    *)
(* Worker is a pool of goroutine slots: a slot is free again when the      *)
(* goroutine that used it has ended.                                       *)
(***************************************************************************)
EXTENDS Integers, Sequences, FiniteSets

CONSTANTS
  Check,             \* the checks, each with an Id of its own
  Worker,            \* goroutine slots for running checks
  MaxRunningChecks,  \* Server.MaxRunningChecks, the capacity of both channels
  NoCheck            \* the nil *check.Check

ASSUME ServerAssumption ==
  /\ MaxRunningChecks \in Nat
  /\ NoCheck \notin Check
  /\ IsFiniteSet(Worker)

VARIABLES
  autoReEnqueue,  \* Server.AutoReEnqueue, fixed when the server is built
  ctxDone,        \* ctx has been cancelled
  queue,          \* how often each check is in the check queue
  pending,        \* the buffer of the channel pendingChecks
  closed,         \* pendingChecks has been closed
  limiter,        \* tokens in the channel runningLimiter
  tracked,        \* the keys of runningChecks
  wg,             \* the counter of the WaitGroup
  popPc, popChk,  \* populator: its next step and the check it holds
  mainPc, mainChk,  \* main loop: its next step and the check it holds
  workerPc, job,  \* worker: its next step and its check
  startedLate     \* history: goroutines started after the cancellation

queueVars  == <<queue>>
popVars    == <<popPc, popChk>>
mainVars   == <<mainPc, mainChk>>
workerVars == <<workerPc, job>>
vars == <<autoReEnqueue, ctxDone, queue, pending, closed, limiter, tracked, wg,
          popPc, popChk, mainPc, mainChk, workerPc, job, startedLate>>

PopSteps    == {"select", "room", "dequeue", "send", "sleep", "close", "wgDone", "done"}
MainSteps   == {"select", "acquire", "store", "wait", "drain", "done", "panicked"}
WorkerSteps == {"idle", "executing", "reEnqueue", "release", "delete", "wgDone"}

(***************************************************************************)
(* The check queue, as the server sees it (check.Queue).                   *)
(***************************************************************************)
QueueEnqueue(c) == queue' = [queue EXCEPT ![c] = @ + 1]

(* Mutant: the dequeue leaves the check in the queue.                      *)
QueuePeek(c) ==
  /\ queue[c] > 0
  /\ UNCHANGED queue

QueueDequeue(c) ==
  /\ queue[c] > 0
  /\ queue' = [queue EXCEPT ![c] = @ - 1]

-----------------------------------------------------------------------------
(* The caller holds a running server, its queue filled, and cancels ctx.   *)

Init ==
  /\ autoReEnqueue \in BOOLEAN
  /\ ctxDone = FALSE
  /\ queue = [c \in Check |-> 1]
  /\ pending = <<>>
  /\ closed = FALSE
  /\ limiter = 0
  /\ tracked = {}
  /\ wg = 1
  /\ popPc = "select" /\ popChk = NoCheck
  /\ mainPc = "select" /\ mainChk = NoCheck
  /\ workerPc = [w \in Worker |-> "idle"]
  /\ job = [w \in Worker |-> NoCheck]
  /\ startedLate = 0

Cancel ==
  /\ ~ctxDone
  /\ ctxDone' = TRUE
  /\ UNCHANGED <<autoReEnqueue, queue, pending, closed, limiter, tracked, wg,
                 popVars, mainVars, workerVars, startedLate>>

(***************************************************************************)
(* Populator.                                                              *)
(***************************************************************************)
(* Mutant: the populator does not look at ctx.                             *)
PopSelectDeaf ==
  /\ popPc = "select"
  /\ popPc' = "room"
  /\ UNCHANGED <<autoReEnqueue, ctxDone, queue, pending, closed, limiter, tracked, wg,
                 popChk, mainVars, workerVars, startedLate>>

PopSelect ==
  /\ popPc = "select"
  /\ popPc' = IF ctxDone THEN "close" ELSE "room"
  /\ UNCHANGED <<autoReEnqueue, ctxDone, queue, pending, closed, limiter, tracked, wg,
                 popChk, mainVars, workerVars, startedLate>>

(* Mutant: the room in pendingChecks is not looked at before the dequeue.  *)
PopRoomUnchecked ==
  /\ popPc = "room"
  /\ popPc' = "dequeue"
  /\ UNCHANGED <<autoReEnqueue, ctxDone, queue, pending, closed, limiter, tracked, wg,
                 popChk, mainVars, workerVars, startedLate>>

PopRoom ==
  /\ popPc = "room"
  /\ popPc' = IF Len(pending) < MaxRunningChecks THEN "dequeue" ELSE "sleep"
  /\ UNCHANGED <<autoReEnqueue, ctxDone, queue, pending, closed, limiter, tracked, wg,
                 popChk, mainVars, workerVars, startedLate>>

PopDequeue(c) ==
  /\ popPc = "dequeue"
  /\ QueueDequeue(c)
  /\ popChk' = c
  /\ popPc' = "send"
  /\ UNCHANGED <<autoReEnqueue, ctxDone, pending, closed, limiter, tracked, wg,
                 mainVars, workerVars, startedLate>>

PopDequeueNil ==
  /\ popPc = "dequeue"
  /\ popPc' = "sleep"
  /\ UNCHANGED <<autoReEnqueue, ctxDone, queue, pending, closed, limiter, tracked, wg,
                 popChk, mainVars, workerVars, startedLate>>

PopSend ==
  /\ popPc = "send"
  /\ Len(pending) < MaxRunningChecks
  /\ pending' = Append(pending, popChk)
  /\ popChk' = NoCheck
  /\ popPc' = "select"
  /\ UNCHANGED <<autoReEnqueue, ctxDone, queue, closed, limiter, tracked, wg,
                 mainVars, workerVars, startedLate>>

PopSleep ==
  /\ popPc = "sleep"
  /\ popPc' = "select"
  /\ UNCHANGED <<autoReEnqueue, ctxDone, queue, pending, closed, limiter, tracked, wg,
                 popChk, mainVars, workerVars, startedLate>>

(* Mutant: the populator returns without closing pendingChecks.            *)
PopCloseForgotten ==
  /\ popPc = "close"
  /\ popPc' = "wgDone"
  /\ UNCHANGED <<autoReEnqueue, ctxDone, queue, pending, closed, limiter, tracked, wg,
                 popChk, mainVars, workerVars, startedLate>>

(* The deferred calls run last in, first out: close, then wg.Done.         *)
PopClose ==
  /\ popPc = "close"
  /\ closed' = TRUE
  /\ popPc' = "wgDone"
  /\ UNCHANGED <<autoReEnqueue, ctxDone, queue, pending, limiter, tracked, wg,
                 popChk, mainVars, workerVars, startedLate>>

PopDone ==
  /\ popPc = "wgDone"
  /\ wg' = wg - 1
  /\ popPc' = "done"
  /\ UNCHANGED <<autoReEnqueue, ctxDone, queue, pending, closed, limiter, tracked,
                 popChk, mainVars, workerVars, startedLate>>

Populator ==
  \/ PopSelect
  \/ PopRoom
  \/ \E c \in Check : PopDequeue(c)
  \/ PopDequeueNil
  \/ PopSend
  \/ PopSleep
  \/ PopClose
  \/ PopDone

(***************************************************************************)
(* Main loop.  When several cases of its select are ready, Go picks any;   *)
(* a receive from a closed and empty channel is ready and yields nil.  The *)
(* ticker case only logs.                                                  *)
(***************************************************************************)
MainCancelled ==
  /\ mainPc = "select"
  /\ ctxDone
  /\ mainPc' = "wait"
  /\ UNCHANGED <<autoReEnqueue, ctxDone, queue, pending, closed, limiter, tracked, wg,
                 popVars, mainChk, workerVars, startedLate>>

MainReceive ==
  /\ mainPc = "select"
  /\ pending # <<>>
  /\ mainChk' = Head(pending)
  /\ pending' = Tail(pending)
  /\ mainPc' = "acquire"
  /\ UNCHANGED <<autoReEnqueue, ctxDone, queue, closed, limiter, tracked, wg,
                 popVars, workerVars, startedLate>>

MainReceiveClosed ==
  /\ mainPc = "select"
  /\ closed /\ pending = <<>>
  /\ mainChk' = NoCheck
  /\ mainPc' = "acquire"
  /\ UNCHANGED <<autoReEnqueue, ctxDone, queue, pending, closed, limiter, tracked, wg,
                 popVars, workerVars, startedLate>>

(* Mutant: runningLimiter does not limit.                                  *)
MainAcquireUnguarded ==
  /\ mainPc = "acquire"
  /\ limiter' = limiter + 1
  /\ mainPc' = "store"
  /\ UNCHANGED <<autoReEnqueue, ctxDone, queue, pending, closed, tracked, wg,
                 popVars, mainChk, workerVars, startedLate>>

MainAcquire ==
  /\ mainPc = "acquire"
  /\ limiter < MaxRunningChecks
  /\ limiter' = limiter + 1
  /\ mainPc' = "store"
  /\ UNCHANGED <<autoReEnqueue, ctxDone, queue, pending, closed, tracked, wg,
                 popVars, mainChk, workerVars, startedLate>>

(* runningChecks.Store, wg.Add and the go statement.                       *)
MainStart(w) ==
  /\ mainPc = "store" /\ mainChk # NoCheck
  /\ workerPc[w] = "idle"
  /\ tracked' = tracked \cup {mainChk}
  /\ wg' = wg + 1
  /\ workerPc' = [workerPc EXCEPT ![w] = "executing"]
  /\ job' = [job EXCEPT ![w] = mainChk]
  /\ mainChk' = NoCheck
  /\ mainPc' = "select"
  /\ startedLate' = IF ctxDone THEN startedLate + 1 ELSE startedLate
  /\ UNCHANGED <<autoReEnqueue, ctxDone, queue, pending, closed, limiter, popVars>>

(* Storing chk.Id of the nil check: the panic ends the whole process.      *)
MainPanic ==
  /\ mainPc = "store" /\ mainChk = NoCheck
  /\ mainPc' = "panicked"
  /\ UNCHANGED <<autoReEnqueue, ctxDone, queue, pending, closed, limiter, tracked, wg,
                 popVars, mainChk, workerVars, startedLate>>

(* Mutant: Run does not wait for its goroutines.                           *)
MainWaitSkipped ==
  /\ mainPc = "wait"
  /\ mainPc' = "drain"
  /\ UNCHANGED <<autoReEnqueue, ctxDone, queue, pending, closed, limiter, tracked, wg,
                 popVars, mainChk, workerVars, startedLate>>

MainWait ==
  /\ mainPc = "wait"
  /\ wg = 0
  /\ mainPc' = "drain"
  /\ UNCHANGED <<autoReEnqueue, ctxDone, queue, pending, closed, limiter, tracked, wg,
                 popVars, mainChk, workerVars, startedLate>>

(* Mutant: the pending checks are discarded at shutdown.                   *)
MainDrainDiscards ==
  /\ mainPc = "drain"
  /\ pending # <<>>
  /\ pending' = Tail(pending)
  /\ UNCHANGED <<autoReEnqueue, ctxDone, queue, closed, limiter, tracked, wg,
                 popVars, mainVars, workerVars, startedLate>>

MainDrain ==
  /\ mainPc = "drain"
  /\ pending # <<>>
  /\ QueueEnqueue(Head(pending))
  /\ pending' = Tail(pending)
  /\ UNCHANGED <<autoReEnqueue, ctxDone, closed, limiter, tracked, wg,
                 popVars, mainVars, workerVars, startedLate>>

MainReturn ==
  /\ mainPc = "drain"
  /\ pending = <<>> /\ closed
  /\ mainPc' = "done"
  /\ UNCHANGED <<autoReEnqueue, ctxDone, queue, pending, closed, limiter, tracked, wg,
                 popVars, mainChk, workerVars, startedLate>>

Main ==
  \/ MainCancelled
  \/ MainReceive
  \/ MainReceiveClosed
  \/ MainAcquire
  \/ \E w \in Worker : MainStart(w)
  \/ MainPanic
  \/ MainWait
  \/ MainDrain
  \/ MainReturn

(***************************************************************************)
(* Workers: the callbacks and Check.Execute, then the deferred calls.      *)
(***************************************************************************)
WorkerExecute(w) ==
  /\ workerPc[w] = "executing"
  /\ workerPc' = [workerPc EXCEPT ![w] = "reEnqueue"]
  /\ UNCHANGED <<autoReEnqueue, ctxDone, queue, pending, closed, limiter, tracked, wg,
                 popVars, mainVars, job, startedLate>>

WorkerReEnqueue(w) ==
  /\ workerPc[w] = "reEnqueue"
  /\ IF autoReEnqueue THEN QueueEnqueue(job[w]) ELSE UNCHANGED queue
  /\ workerPc' = [workerPc EXCEPT ![w] = "release"]
  /\ UNCHANGED <<autoReEnqueue, ctxDone, pending, closed, limiter, tracked, wg,
                 popVars, mainVars, job, startedLate>>

(* Mutant: the token is returned only along with the check.                *)
WorkerReleaseIfKept(w) ==
  /\ workerPc[w] = "release"
  /\ limiter' = IF autoReEnqueue THEN limiter - 1 ELSE limiter
  /\ workerPc' = [workerPc EXCEPT ![w] = "delete"]
  /\ UNCHANGED <<autoReEnqueue, ctxDone, queue, pending, closed, tracked, wg,
                 popVars, mainVars, job, startedLate>>

WorkerRelease(w) ==
  /\ workerPc[w] = "release"
  /\ limiter > 0
  /\ limiter' = limiter - 1
  /\ workerPc' = [workerPc EXCEPT ![w] = "delete"]
  /\ UNCHANGED <<autoReEnqueue, ctxDone, queue, pending, closed, tracked, wg,
                 popVars, mainVars, job, startedLate>>

(* Mutant: the entry of runningChecks stays behind.                        *)
WorkerDeleteForgotten(w) ==
  /\ workerPc[w] = "delete"
  /\ workerPc' = [workerPc EXCEPT ![w] = "wgDone"]
  /\ UNCHANGED <<autoReEnqueue, ctxDone, queue, pending, closed, limiter, tracked, wg,
                 popVars, mainVars, job, startedLate>>

WorkerDelete(w) ==
  /\ workerPc[w] = "delete"
  /\ tracked' = tracked \ {job[w]}
  /\ workerPc' = [workerPc EXCEPT ![w] = "wgDone"]
  /\ UNCHANGED <<autoReEnqueue, ctxDone, queue, pending, closed, limiter, wg,
                 popVars, mainVars, job, startedLate>>

WorkerDone(w) ==
  /\ workerPc[w] = "wgDone"
  /\ wg' = wg - 1
  /\ workerPc' = [workerPc EXCEPT ![w] = "idle"]
  /\ job' = [job EXCEPT ![w] = NoCheck]
  /\ UNCHANGED <<autoReEnqueue, ctxDone, queue, pending, closed, limiter, tracked,
                 popVars, mainVars, startedLate>>

WorkerStep(w) ==
  \/ WorkerExecute(w)
  \/ WorkerReEnqueue(w)
  \/ WorkerRelease(w)
  \/ WorkerDelete(w)
  \/ WorkerDone(w)

-----------------------------------------------------------------------------
Alive == mainPc # "panicked"

(* Run has returned, or the process is gone: nothing is left to do.        *)
Stopped == mainPc \in {"done", "panicked"}

Terminated ==
  /\ Stopped
  /\ UNCHANGED vars

Next ==
  \/ Alive /\ Cancel
  \/ Alive /\ Populator
  \/ Alive /\ Main
  \/ Alive /\ \E w \in Worker : WorkerStep(w)
  \/ Terminated

Spec == Init /\ [][Next]_vars

-----------------------------------------------------------------------------
(***************************************************************************)
(* Properties.                                                             *)
(***************************************************************************)
InPending(c) == \E i \in 1 .. Len(pending) : pending[i] = c

(* The worker has the check, and has not put it back yet.                  *)
Runs(w, c) == workerPc[w] \in {"executing", "reEnqueue"} /\ job[w] = c

Running(c) == \E w \in Worker : Runs(w, c)

Held(c) == popChk = c \/ InPending(c) \/ mainChk = c

(* Workers that have not yet taken their token back from runningLimiter.   *)
Owing == {w \in Worker : workerPc[w] \in {"executing", "reEnqueue", "release"}}

(* Workers that have not yet called wg.Done.                               *)
Busy == {w \in Worker : workerPc[w] # "idle"}

(* Every variable has its type; in particular neither channel ever holds   *)
(* more than its capacity and the WaitGroup counter is never negative,     *)
(* which would panic (make(chan ...), wg.Done).                            *)
TypeOK ==
  /\ autoReEnqueue \in BOOLEAN /\ ctxDone \in BOOLEAN /\ closed \in BOOLEAN
  /\ queue \in [Check -> Nat]
  /\ pending \in Seq(Check) /\ Len(pending) <= MaxRunningChecks
  /\ limiter \in 0 .. MaxRunningChecks
  /\ tracked \subseteq Check
  /\ wg \in Nat
  /\ popPc \in PopSteps /\ popChk \in Check \cup {NoCheck}
  /\ mainPc \in MainSteps /\ mainChk \in Check \cup {NoCheck}
  /\ workerPc \in [Worker -> WorkerSteps]
  /\ job \in [Worker -> Check \cup {NoCheck}]
  /\ startedLate \in Nat

(* A check is in one place at a time: in the check queue once, or with the *)
(* populator, or in pendingChecks once, or with the main loop, or with one *)
(* worker.  The same *check.Check is therefore never executed by two       *)
(* goroutines at once, although Execute takes no lock on it.               *)
ExclusiveOwner ==
  \A c \in Check :
    /\ queue[c] \in {0, 1}
    /\ queue[c] = 1 => ~Held(c) /\ ~Running(c)
    /\ Held(c) => ~Running(c)
    /\ popChk = c => ~InPending(c) /\ mainChk # c
    /\ mainChk = c => ~InPending(c)
    /\ \A i, j \in 1 .. Len(pending) : pending[i] = c /\ pending[j] = c => i = j
    /\ \A v, w \in Worker : Runs(v, c) /\ Runs(w, c) => v = w

(* The populator found room in pendingChecks before it dequeued, and it is *)
(* the only sender: its send never blocks, so it is never stuck with a     *)
(* check while the server shuts down and wg.Wait waits for it.             *)
SendNeverBlocks ==
  popPc \in {"dequeue", "send"} => Len(pending) < MaxRunningChecks

(* runningLimiter holds a token for each worker that will take one and for *)
(* the main loop between its send and the go statement, and wg counts the  *)
(* goroutines that have not called Done: no release or Wait blocks on a    *)
(* count that is off.                                                      *)
CountsExact ==
  /\ limiter = Cardinality(Owing) + (IF mainPc \in {"store", "panicked"} THEN 1 ELSE 0)
  /\ wg = Cardinality(Busy) + (IF popPc = "done" THEN 0 ELSE 1)

(* The long-running warning reads runningChecks: an entry always belongs   *)
(* to a goroutine that will still delete it, and without AutoReEnqueue     *)
(* every running check has its entry.  (With it, the deletion of the       *)
(* previous run can remove the entry of the next.)                         *)
TrackingExact ==
  LET Keeping == {job[w] : w \in {v \in Worker : workerPc[v] \notin {"idle", "wgDone"}}}
  IN  /\ tracked \subseteq Keeping
      /\ ~autoReEnqueue => tracked = Keeping

(* When Run returns nothing of it is left: no goroutine runs, no token is  *)
(* held, no check is in pendingChecks, and with AutoReEnqueue every check  *)
(* is back in the check queue.                                             *)
ReturnedMeansQuiescent ==
  mainPc = "done" =>
    /\ popPc = "done" /\ popChk = NoCheck /\ mainChk = NoCheck
    /\ \A w \in Worker : workerPc[w] = "idle"
    /\ pending = <<>> /\ limiter = 0 /\ wg = 0 /\ tracked = {}
    /\ autoReEnqueue => \A c \in Check : queue[c] = 1

(* The select of the main loop may prefer pendingChecks to ctx.Done(), but *)
(* only for the checks already on their way: pendingChecks, the one the    *)
(* populator is about to send and the one the main loop holds.             *)
StartsAfterCancelBounded == startedLate <= MaxRunningChecks + 2

(* Each check goes through the life cycle of module Dispatch.              *)
Phase ==
  [c \in Check |->
     IF queue[c] > 0 THEN "queued"
     ELSE IF Held(c) THEN "held"
     ELSE IF Running(c) THEN "running" ELSE "gone"]

Contract == INSTANCE Dispatch WITH
  Limit <- MaxRunningChecks, keep <- autoReEnqueue, stopping <- ctxDone, phase <- Phase

(* The server implements Dispatch: no check is lost, run twice at once or  *)
(* run beyond MaxRunningChecks, and one goes back unrun only at shutdown.  *)
ImplementsDispatch == Contract!Spec

(* server.go:60-61, the comment of Run: ctx "when cancelled will stop the  *)
(* server after the currently executing checks finish".  The code does     *)
(* not keep it: the select may receive nil from the closed pendingChecks   *)
(* and the dereference of chk.Id panics while checks are executing.        *)
StopWaitsForRunning ==
  Stopped => \A w \in Worker : workerPc[w] # "executing"
=============================================================================
