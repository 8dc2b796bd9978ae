--------------------------- MODULE BufqueueProofs ---------------------------
(***************************************************************************)
(* Proofs about module Bufqueue, for any set of checks.                    *)
(***************************************************************************)
EXTENDS Bufqueue, FiniteSetTheorems, TLAPS

(* What the goroutines hold at which step, and in which order the server   *)
(* stops and Flush empties the queue.                                      *)
Holding ==
  /\ deqPc # "fill" => provided = {}
  /\ tickPc # "enqueue" => tickBatch = {}
  /\ flushPc \in {"none", "all", "returned"} => flushBatch = {}
  /\ flushPc = "flush" => flushBatch = buffer
  /\ flushPc \in {"rest", "returned"} => buffer = {}
  /\ serverStopped => out = {}
  /\ flushPc # "none" => serverStopped /\ pendingEnqueued = <<>>

(* The places of a check as sets; from All to the memqueue's Flush the     *)
(* batch of Flush stands for the memqueue.                                 *)
Pending == Elements(pendingEnqueued)
Kept    == IF flushPc = "flush" THEN {} ELSE buffer

(* Every check is in some place.                                           *)
Whole ==
  Check \subseteq stored \cup provided \cup Kept \cup out \cup Pending \cup tickBatch
                    \cup flushBatch

(* No two places share a check, and none is pending twice.                 *)
Apart ==
  /\ stored \cap (provided \cup Kept \cup out \cup Pending \cup tickBatch \cup flushBatch) = {}
  /\ provided \cap (Kept \cup out \cup Pending \cup tickBatch \cup flushBatch) = {}
  /\ Kept \cap (out \cup Pending \cup tickBatch \cup flushBatch) = {}
  /\ out \cap (Pending \cup tickBatch \cup flushBatch) = {}
  /\ Pending \cap (tickBatch \cup flushBatch) = {}
  /\ tickBatch \cap flushBatch = {}

PendingOnce ==
  \A i, j \in 1 .. Len(pendingEnqueued) : pendingEnqueued[i] = pendingEnqueued[j] => i = j

(* Provide gives a check that has not run since; from the memqueue on,     *)
(* Executed and ran say the same of it.                                    *)
Told ==
  /\ provided \cap ran = {}
  /\ \A c \in buffer \cup out \cup Pending \cup tickBatch \cup flushBatch :
       c \in executed <=> c \in ran

(* The inductive invariant.                                                *)
IInv == TypeOK /\ Holding /\ Whole /\ Apart /\ PendingOnce /\ Told

-----------------------------------------------------------------------------
LEMMA ElementsEmpty == Elements(<<>>) = {}
BY DEF Elements

LEMMA ElementsAppend ==
  ASSUME NEW s \in Seq(Check), NEW c \in Check
  PROVE  Elements(Append(s, c)) = Elements(s) \cup {c}
<1>1. /\ Append(s, c) \in Seq(Check) /\ Len(Append(s, c)) = Len(s) + 1
      /\ Append(s, c)[Len(s) + 1] = c
      /\ \A i \in 1 .. Len(s) : Append(s, c)[i] = s[i]
      /\ Len(s) \in Nat
  OBVIOUS
<1>2. ASSUME NEW x \in Elements(Append(s, c)) PROVE x \in Elements(s) \cup {c}
  <2>1. PICK i \in 1 .. Len(s) + 1 : x = Append(s, c)[i]
    BY <1>1, <1>2 DEF Elements
  <2>2. i \in 1 .. Len(s) \/ i = Len(s) + 1
    BY <1>1
  <2> QED
    BY <1>1, <2>1, <2>2 DEF Elements
<1>3. c \in Elements(Append(s, c))
  BY <1>1 DEF Elements
<1>4. ASSUME NEW x \in Elements(s) PROVE x \in Elements(Append(s, c))
  <2>1. PICK i \in 1 .. Len(s) : x = s[i]
    BY <1>4 DEF Elements
  <2>2. i \in 1 .. Len(Append(s, c)) /\ x = Append(s, c)[i]
    BY <1>1, <2>1
  <2> QED
    BY <2>2 DEF Elements
<1> QED
  BY <1>2, <1>3, <1>4

LEMMA ElementsType == ASSUME NEW s \in Seq(Check) PROVE Elements(s) \subseteq Check
BY DEF Elements

-----------------------------------------------------------------------------
LEMMA TypedInit == Init => TypeOK /\ Holding
<1> SUFFICES ASSUME Init PROVE TypeOK /\ Holding
  OBVIOUS
<1>1. Holding
  BY DEF Init, Holding
<1>2. pendingEnqueued \in Seq(Check) /\ Check \subseteq Check
  BY DEF Init
<1> QED
  BY <1>1, <1>2 DEF Init, TypeOK

LEMMA TypedNext == TypeOK /\ Holding /\ [Next]_vars => TypeOK' /\ Holding'
<1> SUFFICES ASSUME TypeOK, Holding, [Next]_vars PROVE TypeOK' /\ Holding'
  OBVIOUS
<1> USE DEF TypeOK, Holding, backendVars, dequeueVars, serverVars, tickVars, flushVars, flagVars
<1>1. CASE Dequeue
  <2>1. CASE DequeueCount
    BY <2>1 DEF DequeueCount
  <2>2. ASSUME NEW some \in SUBSET stored, DequeueProvide(some) PROVE TypeOK' /\ Holding'
    BY <2>2 DEF DequeueProvide
  <2>3. ASSUME NEW c \in Check, DequeueFill(c) PROVE TypeOK' /\ Holding'
    BY <2>3 DEF DequeueFill
  <2>4. ASSUME NEW c \in Check, DequeueTake(c) PROVE TypeOK' /\ Holding'
    BY <2>4 DEF DequeueTake
  <2>5. CASE DequeueFilled
    BY <2>5 DEF DequeueFilled
  <2>6. CASE DequeueNil
    BY <2>6 DEF DequeueNil
  <2> QED
    BY <1>1, <2>1, <2>2, <2>3, <2>4, <2>5, <2>6 DEF Dequeue
<1>2. ASSUME NEW c \in Check, Execute(c) PROVE TypeOK' /\ Holding'
  BY <1>2 DEF Execute
<1>3. ASSUME NEW c \in Check, Enqueue(c) PROVE TypeOK' /\ Holding'
  BY <1>3 DEF Enqueue
<1>4. ASSUME NEW c \in Check, BecomesDue(c) PROVE TypeOK' /\ Holding'
  BY <1>4 DEF BecomesDue
<1>5. CASE ServerStop
  BY <1>5 DEF ServerStop
<1>6. CASE Cancel
  BY <1>6 DEF Cancel
<1>7. CASE Ticker
  <2>1. CASE TickStop
    BY <2>1 DEF TickStop
  <2>2. CASE TickTake
    BY <2>2, ElementsType DEF TickTake
  <2>3. CASE TickEnqueue
    BY <2>3 DEF TickEnqueue
  <2> QED
    BY <1>7, <2>1, <2>2, <2>3 DEF Ticker
<1>8. CASE FlushTake
  BY <1>8, ElementsType DEF FlushTake
<1>9. CASE FlushStep
  <2>1. CASE FlushEnqueue
    BY <2>1 DEF FlushEnqueue
  <2>2. CASE FlushAll
    BY <2>2 DEF FlushAll
  <2>3. CASE FlushQueue
    BY <2>3 DEF FlushQueue
  <2>4. CASE FlushRest
    BY <2>4 DEF FlushRest
  <2> QED
    BY <1>9, <2>1, <2>2, <2>3, <2>4 DEF FlushStep
<1>10. CASE UNCHANGED vars
  BY <1>10 DEF vars
<1> QED
  BY <1>1, <1>2, <1>3, <1>4, <1>5, <1>6, <1>7, <1>8, <1>9, <1>10 DEF Next, Terminated

-----------------------------------------------------------------------------
LEMMA PlacedInit == Init => Whole /\ Apart /\ PendingOnce
<1> SUFFICES ASSUME Init PROVE Whole /\ Apart /\ PendingOnce
  OBVIOUS
<1>1. Pending = {} /\ PendingOnce
  BY ElementsEmpty DEF Init, Pending, PendingOnce
<1>2. Kept = {}
  BY DEF Init, Kept
<1> QED
  BY <1>1, <1>2 DEF Init, Whole, Apart

(* A step that leaves every place as it is.                                *)
LEMMA PlacesUnchanged ==
  ASSUME Whole, Apart, PendingOnce,
         UNCHANGED <<stored, provided, Kept, out, pendingEnqueued, tickBatch, flushBatch>>
  PROVE  Whole' /\ Apart' /\ PendingOnce'
<1>1. Pending' = Pending
  BY DEF Pending
<1> QED
  BY <1>1 DEF Whole, Apart, PendingOnce

LEMMA PlacedNext ==
  TypeOK /\ Holding /\ Whole /\ Apart /\ PendingOnce /\ [Next]_vars
    => Whole' /\ Apart' /\ PendingOnce'
<1> SUFFICES ASSUME TypeOK, Holding, Whole, Apart, PendingOnce, [Next]_vars
             PROVE  Whole' /\ Apart' /\ PendingOnce'
  OBVIOUS
<1> USE DEF backendVars, dequeueVars, serverVars, tickVars, flushVars, flagVars
<1>a. UNCHANGED pendingEnqueued => Pending' = Pending /\ PendingOnce'
  BY DEF Pending, PendingOnce
<1>b. pendingEnqueued' = <<>> => Pending' = {} /\ PendingOnce'
  BY ElementsEmpty DEF Pending, PendingOnce
<1>c. UNCHANGED <<flushPc, buffer>> => Kept' = Kept
  BY DEF Kept
<1>d. deqPc # "idle" => flushPc = "none" /\ Kept = buffer
  BY DEF TypeOK, Holding, Kept
<1>1. ASSUME NEW some \in SUBSET stored, DequeueProvide(some)
      PROVE  Whole' /\ Apart' /\ PendingOnce'
  <2>1. /\ provided = {} /\ provided' = some /\ stored' = stored \ some
        /\ UNCHANGED <<out, pendingEnqueued, tickBatch, flushBatch, flushPc, buffer>>
    BY <1>1 DEF DequeueProvide, Holding
  <2> QED
    BY <1>a, <1>c, <2>1 DEF Whole, Apart
<1>2. ASSUME NEW c \in Check, DequeueFill(c) PROVE Whole' /\ Apart' /\ PendingOnce'
  <2>1. /\ c \in provided /\ provided' = provided \ {c} /\ buffer' = buffer \cup {c}
        /\ UNCHANGED <<stored, out, pendingEnqueued, tickBatch, flushBatch, flushPc>>
    BY <1>2 DEF DequeueFill
  <2>2. Kept' = Kept \cup {c}
    BY <1>2, <1>d, <2>1 DEF DequeueFill, Kept
  <2> QED
    BY <1>a, <2>1, <2>2 DEF Whole, Apart
<1>3. ASSUME NEW c \in Check, DequeueTake(c) PROVE Whole' /\ Apart' /\ PendingOnce'
  <2>1. /\ c \in buffer /\ buffer' = buffer \ {c} /\ out' = out \cup {c}
        /\ UNCHANGED <<stored, provided, pendingEnqueued, tickBatch, flushBatch, flushPc>>
    BY <1>3 DEF DequeueTake
  <2>2. c \in Kept /\ Kept' = Kept \ {c}
    BY <1>3, <1>d, <2>1 DEF DequeueTake, Kept
  <2> QED
    BY <1>a, <2>1, <2>2 DEF Whole, Apart
<1>4. ASSUME NEW c \in Check, Enqueue(c) PROVE Whole' /\ Apart' /\ PendingOnce'
  <2>1. /\ c \in out /\ out' = out \ {c} /\ pendingEnqueued' = Append(pendingEnqueued, c)
        /\ UNCHANGED <<stored, provided, buffer, tickBatch, flushBatch, flushPc>>
    BY <1>4 DEF Enqueue
  <2>2. pendingEnqueued \in Seq(Check)
    BY DEF TypeOK
  <2>3. Pending' = Pending \cup {c}
    BY <2>1, <2>2, ElementsAppend DEF Pending
  <2>4. c \notin Pending
    BY <2>1 DEF Apart
  <2>5. \A i \in 1 .. Len(pendingEnqueued) : pendingEnqueued[i] # c
    BY <2>4 DEF Pending, Elements
  <2>6. PendingOnce'
    BY <2>1, <2>2, <2>5 DEF PendingOnce
  <2> QED
    BY <1>c, <2>1, <2>3, <2>4, <2>6 DEF Whole, Apart
<1>5. CASE TickTake
  <2>1. /\ tickBatch = {} /\ tickBatch' = Pending /\ pendingEnqueued' = <<>>
        /\ UNCHANGED <<stored, provided, buffer, out, flushBatch, flushPc>>
    BY <1>5 DEF TickTake, Holding, Pending
  <2> QED
    BY <1>b, <1>c, <2>1 DEF Whole, Apart
<1>6. CASE TickEnqueue
  <2>1. /\ stored' = stored \cup tickBatch /\ tickBatch' = {}
        /\ UNCHANGED <<provided, buffer, out, pendingEnqueued, flushBatch, flushPc>>
    BY <1>6 DEF TickEnqueue
  <2> QED
    BY <1>a, <1>c, <2>1 DEF Whole, Apart
<1>7. CASE FlushTake
  <2>1. /\ flushBatch = {} /\ flushBatch' = Pending /\ pendingEnqueued' = <<>>
        /\ Kept' = Kept
        /\ UNCHANGED <<stored, provided, out, tickBatch>>
    BY <1>7 DEF FlushTake, Holding, Pending, Kept
  <2> QED
    BY <1>b, <2>1 DEF Whole, Apart
<1>8. CASE FlushEnqueue \/ FlushRest
  <2>1. /\ stored' = stored \cup flushBatch /\ flushBatch' = {}
        /\ Kept' = Kept
        /\ UNCHANGED <<provided, out, pendingEnqueued, tickBatch>>
    BY <1>8 DEF FlushEnqueue, FlushRest, Kept
  <2> QED
    BY <1>a, <2>1 DEF Whole, Apart
<1>9. CASE FlushAll
  <2>1. /\ flushBatch = {} /\ flushBatch' = Kept /\ Kept' = {}
        /\ UNCHANGED <<stored, provided, out, pendingEnqueued, tickBatch>>
    BY <1>9 DEF FlushAll, Holding, Kept
  <2> QED
    BY <1>a, <2>1 DEF Whole, Apart
<1>10. CASE UNCHANGED <<stored, provided, Kept, out, pendingEnqueued, tickBatch, flushBatch>>
  BY <1>10, PlacesUnchanged
<1>11. CASE FlushQueue
  <2>1. Kept' = Kept
    BY <1>11 DEF FlushQueue, Kept
  <2> QED
    BY <1>10, <1>11, <2>1 DEF FlushQueue
<1>12. CASE DequeueCount \/ DequeueFilled \/ DequeueNil
  BY <1>10, <1>12, <1>c DEF DequeueCount, DequeueFilled, DequeueNil
<1>13. ASSUME NEW c \in Check, Execute(c) \/ BecomesDue(c)
       PROVE  Whole' /\ Apart' /\ PendingOnce'
  BY <1>10, <1>13, <1>c DEF Execute, BecomesDue
<1>14. CASE ServerStop \/ Cancel \/ TickStop \/ UNCHANGED vars
  BY <1>10, <1>14, <1>c DEF ServerStop, Cancel, TickStop, vars
<1> QED
  BY <1>1, <1>2, <1>3, <1>4, <1>5, <1>6, <1>7, <1>8, <1>9, <1>11, <1>12, <1>13, <1>14
  DEF Next, Dequeue, Ticker, FlushStep, Terminated

-----------------------------------------------------------------------------
LEMMA ToldInit == Init => Told
BY ElementsEmpty DEF Init, Told, Pending

(* A check nobody runs, provides or enqueues anew keeps what is said of it. *)
LEMMA ToldUnchanged ==
  ASSUME Told, UNCHANGED <<executed, ran>>, provided' \subseteq provided,
         buffer' \cup out' \cup Pending' \cup tickBatch' \cup flushBatch'
           \subseteq buffer \cup out \cup Pending \cup tickBatch \cup flushBatch
  PROVE  Told'
BY DEF Told

LEMMA ToldNext == TypeOK /\ Holding /\ Apart /\ Told /\ [Next]_vars => Told'
<1> SUFFICES ASSUME TypeOK, Holding, Apart, Told, [Next]_vars PROVE Told'
  OBVIOUS
<1> USE DEF backendVars, dequeueVars, serverVars, tickVars, flushVars, flagVars
<1>a. UNCHANGED pendingEnqueued => Pending' = Pending
  BY DEF Pending
<1>b. pendingEnqueued' = <<>> => Pending' = {}
  BY ElementsEmpty DEF Pending
<1>1. ASSUME NEW some \in SUBSET stored, DequeueProvide(some) PROVE Told'
  <2>1. /\ provided' = some /\ ran' = ran \ some
        /\ UNCHANGED <<buffer, out, Pending, tickBatch, flushBatch, executed>>
    BY <1>1, <1>a DEF DequeueProvide
  <2>2. flushPc = "none"
    BY <1>1 DEF DequeueProvide, TypeOK, Holding
  <2>3. some \cap (buffer \cup out \cup Pending \cup tickBatch \cup flushBatch) = {}
    BY <2>2 DEF Apart, Kept
  <2> QED
    BY <2>1, <2>3 DEF Told
<1>2. ASSUME NEW c \in Check, DequeueFill(c) PROVE Told'
  <2>1. /\ c \in provided /\ provided' = provided \ {c} /\ buffer' = buffer \cup {c}
        /\ executed' = executed \ {c}
        /\ UNCHANGED <<out, Pending, tickBatch, flushBatch, ran>>
    BY <1>2, <1>a DEF DequeueFill
  <2>2. c \notin ran
    BY <2>1 DEF Told
  <2> QED
    BY <2>1, <2>2 DEF Told
<1>3. ASSUME NEW c \in Check, Execute(c) PROVE Told'
  <2>1. /\ c \in out /\ executed' = executed \cup {c} /\ ran' = ran \cup {c}
        /\ UNCHANGED <<provided, buffer, out, Pending, tickBatch, flushBatch>>
    BY <1>3, <1>a DEF Execute
  <2>2. c \notin provided
    BY <2>1 DEF Apart
  <2> QED
    BY <2>1, <2>2 DEF Told
<1>4. ASSUME NEW c \in Check, Enqueue(c) PROVE Told'
  <2>1. Pending' = Pending \cup {c}
    BY <1>4, ElementsAppend DEF Enqueue, TypeOK, Pending
  <2> QED
    BY <1>4, <2>1, ToldUnchanged DEF Enqueue
<1>5. ASSUME NEW c \in Check, DequeueTake(c) PROVE Told'
  BY <1>5, <1>a, ToldUnchanged DEF DequeueTake
<1>6. CASE DequeueCount \/ DequeueFilled \/ DequeueNil
  BY <1>6, <1>a, ToldUnchanged DEF DequeueCount, DequeueFilled, DequeueNil
<1>7. CASE TickTake
  BY <1>7, <1>b, ToldUnchanged DEF TickTake, Pending
<1>8. CASE FlushTake
  BY <1>8, <1>b, ToldUnchanged DEF FlushTake, Pending
<1>9. CASE TickEnqueue \/ TickStop
  BY <1>9, <1>a, ToldUnchanged DEF TickEnqueue, TickStop
<1>10. CASE FlushStep
  BY <1>10, <1>a, ToldUnchanged DEF FlushStep, FlushEnqueue, FlushAll, FlushQueue, FlushRest
<1>11. ASSUME NEW c \in Check, BecomesDue(c) PROVE Told'
  BY <1>11, <1>a, ToldUnchanged DEF BecomesDue
<1>12. CASE ServerStop \/ Cancel \/ UNCHANGED vars
  BY <1>12, <1>a, ToldUnchanged DEF ServerStop, Cancel, vars
<1> QED
  BY <1>1, <1>2, <1>3, <1>4, <1>5, <1>6, <1>7, <1>8, <1>9, <1>10, <1>11, <1>12
  DEF Next, Dequeue, Ticker, Terminated

-----------------------------------------------------------------------------
LEMMA Invariance == Spec => []IInv
<1>1. Init => IInv
  BY TypedInit, PlacedInit, ToldInit DEF IInv
<1>2. IInv /\ [Next]_vars => IInv'
  BY TypedNext, PlacedNext, ToldNext DEF IInv
<1> QED
  BY <1>1, <1>2, PTL DEF Spec

(* Every variable has its type; the memqueue is filled only when empty.    *)
THEOREM Typing == Spec => []TypeOK
<1>1. IInv => TypeOK
  BY DEF IInv
<1> QED
  BY <1>1, Invariance, PTL

(* However the ticker goroutine, Flush, the workers and the populator      *)
(* interleave, every check is in exactly one place.                        *)
THEOREM ExactlyOnePlace == Spec => []NowhereTwiceNeverLost
<1>1. IInv => NowhereTwiceNeverLost
  <2> SUFFICES ASSUME IInv, NEW c \in Check
               PROVE  /\ Cardinality({p \in 1 .. 7 :
                            \/ p = 1 /\ c \in stored
                            \/ p = 2 /\ c \in provided
                            \/ p = 3 /\ c \in buffer /\ flushPc # "flush"
                            \/ p = 4 /\ c \in out
                            \/ p = 5 /\ InPending(c)
                            \/ p = 6 /\ c \in tickBatch
                            \/ p = 7 /\ c \in flushBatch}) = 1
                      /\ \A i, j \in 1 .. Len(pendingEnqueued) :
                           pendingEnqueued[i] = c /\ pendingEnqueued[j] = c => i = j
    BY DEF NowhereTwiceNeverLost
  <2> DEFINE Places == {p \in 1 .. 7 :
                          \/ p = 1 /\ c \in stored
                          \/ p = 2 /\ c \in provided
                          \/ p = 3 /\ c \in buffer /\ flushPc # "flush"
                          \/ p = 4 /\ c \in out
                          \/ p = 5 /\ InPending(c)
                          \/ p = 6 /\ c \in tickBatch
                          \/ p = 7 /\ c \in flushBatch}
  <2>1. InPending(c) <=> c \in Pending
    BY DEF InPending, Pending
  <2>2. c \in Kept <=> c \in buffer /\ flushPc # "flush"
    BY DEF Kept
  <2>3. c \in stored \cup provided \cup Kept \cup out \cup Pending \cup tickBatch \cup flushBatch
    BY DEF IInv, Whole
  <2>4. \E p \in 1 .. 7 : p \in Places
    BY <2>1, <2>2, <2>3
  <2>5. \A p, q \in Places : p = q
    BY <2>1, <2>2 DEF IInv, Apart
  <2>6. PICK p \in 1 .. 7 : Places = {p}
    BY <2>4, <2>5, Zenon
  <2>7. Cardinality(Places) = 1
    BY <2>6, FS_Singleton
  <2> QED
    BY <2>7 DEF IInv, PendingOnce
<1> QED
  BY <1>1, Invariance, PTL

(* Flush leaves nothing behind, save what the ticker goroutine is passing  *)
(* on when it returns.                                                     *)
THEOREM FlushStores == Spec => []FlushedMeansStored
<1>1. IInv => FlushedMeansStored
  <2> SUFFICES ASSUME IInv, flushPc = "returned" PROVE Check = stored \cup tickBatch
    BY DEF FlushedMeansStored
  <2>1. provided = {} /\ Kept = {} /\ out = {} /\ flushBatch = {} /\ pendingEnqueued = <<>>
    BY DEF IInv, TypeOK, Holding, Kept
  <2>2. Pending = {}
    BY <2>1, ElementsEmpty DEF Pending
  <2> QED
    BY <2>1, <2>2 DEF IInv, Whole, TypeOK
<1> QED
  BY <1>1, Invariance, PTL

(* The CheckEnqueuer is told of each check whether it ran.                 *)
THEOREM EnqueuerTold == Spec => []ExecutedTellsRan
<1>1. IInv => ExecutedTellsRan
  BY DEF IInv, Told, ExecutedTellsRan
<1> QED
  BY <1>1, Invariance, PTL
=============================================================================
