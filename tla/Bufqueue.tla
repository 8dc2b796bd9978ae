------------------------------ MODULE Bufqueue ------------------------------
(***************************************************************************)
(* bufqueue.Queue (bufqueue/queue.go): checks come from a backend through  *)
(* the CheckProvider into a memqueue, whenever that is empty at a Dequeue, *)
(* and go back through pendingEnqueued and the CheckEnqueuer, which a      *)
(* ticker goroutine calls every interval, and Flush at the end.            *)
(*                                                                         *)
(* Its users are the server (the populator dequeues; the workers, and the  *)
(* main loop when it drains, enqueue) and the caller of Flush, once the    *)
(* server has returned.  The backend lies outside the repository: it is    *)
(* taken to provide only checks that are stored in it, each to one caller  *)
(* until it is stored again.                                               *)
(***************************************************************************)
EXTENDS Integers, Sequences, FiniteSets

CONSTANTS Check  \* the checks

VARIABLES
  ctxDone,          \* the ctx of the ticker goroutine has been cancelled
  stored,           \* the checks in the backend
  deqPc,            \* the next step of the Dequeue of the populator
  provided,         \* those Provide returned that are not yet in the memqueue
  buffer,           \* the checks in the memqueue
  out,              \* the checks the server holds
  serverStopped,    \* the server has returned
  pendingEnqueued,  \* Queue.pendingEnqueued
  tickPc,           \* the next step of the ticker goroutine
  tickBatch,        \* the checks it is passing to the CheckEnqueuer
  flushPc,          \* the next step of Flush
  flushBatch,       \* the checks it is passing to the CheckEnqueuer
  due,              \* the checks that are due
  executed,         \* the checks with Check.Executed set
  ran               \* history: the checks that ran since they were provided

backendVars == <<stored>>
dequeueVars == <<deqPc, provided, buffer>>
serverVars  == <<out, serverStopped>>
tickVars    == <<tickPc, tickBatch>>
flushVars   == <<flushPc, flushBatch>>
flagVars    == <<due, executed, ran>>
vars == <<ctxDone, backendVars, dequeueVars, serverVars, pendingEnqueued, tickVars,
          flushVars, flagVars>>

Elements(s) == {s[i] : i \in 1 .. Len(s)}

Init ==
  /\ ctxDone = FALSE
  /\ stored = Check
  /\ deqPc = "idle" /\ provided = {} /\ buffer = {}
  /\ out = {} /\ serverStopped = FALSE
  /\ pendingEnqueued = <<>>
  /\ tickPc = "select" /\ tickBatch = {}
  /\ flushPc = "none" /\ flushBatch = {}
  /\ due \in SUBSET Check
  /\ executed \in SUBSET Check
  /\ ran = {}

(***************************************************************************)
(* Dequeue: Count, Provide and the memqueue's Enqueue of what it returned, *)
(* then the memqueue's Dequeue, which returns a check or nil.              *)
(***************************************************************************)
(* Mutant: what is pending counts as well.                                 *)
DequeueCountAll ==
  /\ deqPc = "idle" /\ ~serverStopped
  /\ deqPc' = IF buffer = {} /\ pendingEnqueued = <<>> THEN "provide" ELSE "take"
  /\ UNCHANGED <<ctxDone, backendVars, provided, buffer, serverVars, pendingEnqueued,
                 tickVars, flushVars, flagVars>>

DequeueCount ==
  /\ deqPc = "idle" /\ ~serverStopped
  /\ deqPc' = IF buffer = {} THEN "provide" ELSE "take"
  /\ UNCHANGED <<ctxDone, backendVars, provided, buffer, serverVars, pendingEnqueued,
                 tickVars, flushVars, flagVars>>

DequeueProvide(some) ==
  /\ deqPc = "provide"
  /\ stored' = stored \ some
  /\ provided' = some
  /\ ran' = ran \ some
  /\ deqPc' = "fill"
  /\ UNCHANGED <<ctxDone, buffer, serverVars, pendingEnqueued, tickVars, flushVars, due, executed>>

(* Mutant: the memqueue does not reset Executed.                           *)
DequeueFillAsIs(c) ==
  /\ deqPc = "fill"
  /\ c \in provided
  /\ provided' = provided \ {c}
  /\ buffer' = buffer \cup {c}
  /\ UNCHANGED <<ctxDone, backendVars, deqPc, serverVars, pendingEnqueued, tickVars,
                 flushVars, flagVars>>

DequeueFill(c) ==
  /\ deqPc = "fill"
  /\ c \in provided
  /\ provided' = provided \ {c}
  /\ buffer' = buffer \cup {c}
  /\ executed' = executed \ {c}
  /\ UNCHANGED <<ctxDone, backendVars, deqPc, serverVars, pendingEnqueued, tickVars,
                 flushVars, due, ran>>

DequeueFilled ==
  /\ deqPc = "fill" /\ provided = {}
  /\ deqPc' = "take"
  /\ UNCHANGED <<ctxDone, backendVars, provided, buffer, serverVars, pendingEnqueued,
                 tickVars, flushVars, flagVars>>

DequeueTake(c) ==
  /\ deqPc = "take"
  /\ c \in buffer \cap due
  /\ buffer' = buffer \ {c}
  /\ out' = out \cup {c}
  /\ deqPc' = "idle"
  /\ UNCHANGED <<ctxDone, backendVars, provided, serverStopped, pendingEnqueued, tickVars,
                 flushVars, flagVars>>

(* The check on top of the memqueue is not due, or there is none.          *)
DequeueNil ==
  /\ deqPc = "take"
  /\ buffer = {} \/ ~(buffer \subseteq due)
  /\ deqPc' = "idle"
  /\ UNCHANGED <<ctxDone, backendVars, provided, buffer, serverVars, pendingEnqueued,
                 tickVars, flushVars, flagVars>>

Dequeue ==
  \/ DequeueCount
  \/ \E some \in SUBSET stored : DequeueProvide(some)
  \/ \E c \in Check : DequeueFill(c) \/ DequeueTake(c)
  \/ DequeueFilled
  \/ DequeueNil

(***************************************************************************)
(* The server executes a check it holds, enqueues one whether or not it    *)
(* ran, and returns when it holds none.                                    *)
(***************************************************************************)
Execute(c) ==
  /\ c \in out
  /\ executed' = executed \cup {c}
  /\ ran' = ran \cup {c}
  /\ due' = due \ {c}
  /\ UNCHANGED <<ctxDone, backendVars, dequeueVars, serverVars, pendingEnqueued, tickVars,
                 flushVars>>

Enqueue(c) ==
  /\ c \in out
  /\ pendingEnqueued' = Append(pendingEnqueued, c)
  /\ out' = out \ {c}
  /\ UNCHANGED <<ctxDone, backendVars, dequeueVars, serverStopped, tickVars, flushVars,
                 flagVars>>

(* Its interval has gone by, which may be at once.                         *)
BecomesDue(c) ==
  /\ c \notin due
  /\ due' = due \cup {c}
  /\ UNCHANGED <<ctxDone, backendVars, dequeueVars, serverVars, pendingEnqueued, tickVars,
                 flushVars, executed, ran>>

(* Mutant: the server returns while its populator still dequeues.          *)
ServerStopEarly ==
  /\ ~serverStopped
  /\ out = {}
  /\ serverStopped' = TRUE
  /\ UNCHANGED <<ctxDone, backendVars, dequeueVars, out, pendingEnqueued, tickVars, flushVars,
                 flagVars>>

ServerStop ==
  /\ ~serverStopped
  /\ out = {} /\ deqPc = "idle"
  /\ serverStopped' = TRUE
  /\ UNCHANGED <<ctxDone, backendVars, dequeueVars, out, pendingEnqueued, tickVars, flushVars,
                 flagVars>>

Cancel ==
  /\ ~ctxDone
  /\ ctxDone' = TRUE
  /\ UNCHANGED <<backendVars, dequeueVars, serverVars, pendingEnqueued, tickVars, flushVars,
                 flagVars>>

(***************************************************************************)
(* The ticker goroutine.  It takes the pending checks under the lock and   *)
(* passes them on without it.                                              *)
(***************************************************************************)
TickStop ==
  /\ tickPc = "select"
  /\ ctxDone
  /\ tickPc' = "ended"
  /\ UNCHANGED <<ctxDone, backendVars, dequeueVars, serverVars, pendingEnqueued, tickBatch,
                 flushVars, flagVars>>

(* Mutant: the slice is passed on but not replaced by a new one.           *)
TickTakeShared ==
  /\ tickPc = "select"
  /\ pendingEnqueued # <<>>
  /\ tickBatch' = Elements(pendingEnqueued)
  /\ tickPc' = "enqueue"
  /\ UNCHANGED <<ctxDone, backendVars, dequeueVars, serverVars, pendingEnqueued, flushVars,
                 flagVars>>

TickTake ==
  /\ tickPc = "select"
  /\ pendingEnqueued # <<>>
  /\ tickBatch' = Elements(pendingEnqueued)
  /\ pendingEnqueued' = <<>>
  /\ tickPc' = "enqueue"
  /\ UNCHANGED <<ctxDone, backendVars, dequeueVars, serverVars, flushVars, flagVars>>

(* Mutant: the goroutine ends with its first batch.                        *)
TickEnqueueOnce ==
  /\ tickPc = "enqueue"
  /\ stored' = stored \cup tickBatch
  /\ tickBatch' = {}
  /\ tickPc' = "ended"
  /\ UNCHANGED <<ctxDone, dequeueVars, serverVars, pendingEnqueued, flushVars, flagVars>>

TickEnqueue ==
  /\ tickPc = "enqueue"
  /\ stored' = stored \cup tickBatch
  /\ tickBatch' = {}
  /\ tickPc' = "select"
  /\ UNCHANGED <<ctxDone, dequeueVars, serverVars, pendingEnqueued, flushVars, flagVars>>

Ticker == TickStop \/ TickTake \/ TickEnqueue

(***************************************************************************)
(* Flush: enqueuePending, then All, the memqueue's Flush, and the          *)
(* CheckEnqueuer again for what All returned.                              *)
(***************************************************************************)
FlushTake ==
  /\ flushPc = "none" /\ serverStopped
  /\ flushBatch' = Elements(pendingEnqueued)
  /\ pendingEnqueued' = <<>>
  /\ flushPc' = "enqueue"
  /\ UNCHANGED <<ctxDone, backendVars, dequeueVars, serverVars, tickVars, flagVars>>

FlushEnqueue ==
  /\ flushPc = "enqueue"
  /\ stored' = stored \cup flushBatch
  /\ flushBatch' = {}
  /\ flushPc' = "all"
  /\ UNCHANGED <<ctxDone, dequeueVars, serverVars, pendingEnqueued, tickVars, flagVars>>

(* Mutant: Flush leaves the memqueue to itself.                            *)
FlushAllNone ==
  /\ flushPc = "all"
  /\ flushPc' = "returned"
  /\ UNCHANGED <<ctxDone, backendVars, dequeueVars, serverVars, pendingEnqueued, tickVars,
                 flushBatch, flagVars>>

FlushAll ==
  /\ flushPc = "all"
  /\ flushBatch' = buffer
  /\ flushPc' = "flush"
  /\ UNCHANGED <<ctxDone, backendVars, dequeueVars, serverVars, pendingEnqueued, tickVars,
                 flagVars>>

FlushQueue ==
  /\ flushPc = "flush"
  /\ buffer' = {}
  /\ flushPc' = "rest"
  /\ UNCHANGED <<ctxDone, backendVars, deqPc, provided, serverVars, pendingEnqueued, tickVars,
                 flushBatch, flagVars>>

FlushRest ==
  /\ flushPc = "rest"
  /\ stored' = stored \cup flushBatch
  /\ flushBatch' = {}
  /\ flushPc' = "returned"
  /\ UNCHANGED <<ctxDone, dequeueVars, serverVars, pendingEnqueued, tickVars, flagVars>>

FlushStep == FlushEnqueue \/ FlushAll \/ FlushQueue \/ FlushRest

(* After Flush and the end of the ticker goroutine nothing happens.        *)
Terminated ==
  /\ flushPc = "returned" /\ tickPc = "ended"
  /\ UNCHANGED vars

Next ==
  \/ Dequeue
  \/ \E c \in Check : Execute(c) \/ Enqueue(c) \/ BecomesDue(c)
  \/ ServerStop
  \/ Cancel
  \/ Ticker
  \/ FlushTake
  \/ FlushStep
  \/ Terminated

Spec == Init /\ [][Next]_vars

(* The ticker ticks, the CheckEnqueuer returns, a Flush once called goes   *)
(* on, the populator keeps asking, time passes, and the backend, asked     *)
(* again and again, sooner or later provides each check it stores; nothing *)
(* obliges the server to stop or its caller to flush.                      *)
FairSpec ==
  /\ Spec
  /\ WF_vars(Ticker) /\ WF_vars(FlushStep) /\ WF_vars(Dequeue)
  /\ \A c \in Check :
       /\ WF_vars(BecomesDue(c))
       /\ SF_vars(\E some \in SUBSET stored : c \in some /\ DequeueProvide(some))

-----------------------------------------------------------------------------
(***************************************************************************)
(* Properties.                                                             *)
(***************************************************************************)
InPending(c) == c \in Elements(pendingEnqueued)

(* Every variable has its type; the memqueue is only filled when it was    *)
(* empty and Flush only runs when nobody dequeues.                         *)
TypeOK ==
  /\ ctxDone \in BOOLEAN /\ serverStopped \in BOOLEAN
  /\ deqPc \in {"idle", "provide", "fill", "take"}
  /\ tickPc \in {"select", "enqueue", "ended"}
  /\ flushPc \in {"none", "enqueue", "all", "flush", "rest", "returned"}
  /\ stored \subseteq Check /\ provided \subseteq Check /\ buffer \subseteq Check
  /\ out \subseteq Check /\ tickBatch \subseteq Check /\ flushBatch \subseteq Check
  /\ pendingEnqueued \in Seq(Check)
  /\ due \subseteq Check /\ executed \subseteq Check /\ ran \subseteq Check
  /\ deqPc = "provide" => buffer = {}
  /\ serverStopped => deqPc = "idle"

(* A check is in one place and in no two: no step of the ticker goroutine, *)
(* of Flush, of the workers and of the populator, in whatever order, hands *)
(* a check to the CheckEnqueuer twice or loses it.  (Between All and the   *)
(* memqueue's Flush what is in the memqueue is also in the batch.)         *)
NowhereTwiceNeverLost ==
  \A c \in Check :
    LET Places == {p \in 1 .. 7 :
          \/ p = 1 /\ c \in stored
          \/ p = 2 /\ c \in provided
          \/ p = 3 /\ c \in buffer /\ flushPc # "flush"
          \/ p = 4 /\ c \in out
          \/ p = 5 /\ InPending(c)
          \/ p = 6 /\ c \in tickBatch
          \/ p = 7 /\ c \in flushBatch}
    IN  /\ Cardinality(Places) = 1
        /\ \A i, j \in 1 .. Len(pendingEnqueued) :
             pendingEnqueued[i] = c /\ pendingEnqueued[j] = c => i = j

(* When Flush has returned every check is in the backend, save those the   *)
(* ticker goroutine is passing on at that moment.                          *)
FlushedMeansStored ==
  flushPc = "returned" => Check = stored \cup tickBatch

(* The CheckEnqueuer can tell by Executed which of its checks ran: the     *)
(* memqueue resets it on the way out and nothing does on the way back.     *)
ExecutedTellsRan ==
  \A c \in tickBatch \cup flushBatch \cup out : c \in executed <=> c \in ran

(* Every check comes round: one that was enqueued reaches the backend, as  *)
(* long as the ticker goroutine has not been told to end, and one that is  *)
(* in the backend gets to the server.  The backend is asked only when the  *)
(* memqueue is empty, and one check that is not due keeps it from being    *)
(* empty: the wait ends as that check becomes due itself.                  *)
ComesRound ==
  \A c \in Check :
    /\ InPending(c) ~> (c \in stored \/ ctxDone)
    /\ c \in stored ~> (c \in out \/ serverStopped)
=============================================================================
