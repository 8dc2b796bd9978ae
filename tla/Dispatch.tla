------------------------------ MODULE Dispatch ------------------------------
(***************************************************************************)
(* What server.Server promises of every check, whatever goroutines it      *)
(* uses (server/server.go, the comments of Server and Run): a check waits  *)
(* in the check queue, is handed on, runs with at most Limit others, and   *)
(* is put back, at once when it ran under AutoReEnqueue, unrun only when   *)
(* the server is stopping.  It is nowhere twice and never lost.            *)
(***************************************************************************)
EXTENDS Integers, FiniteSets

CONSTANTS
  Check,  \* the checks
  Limit   \* how many checks may run at once

VARIABLES
  keep,      \* checks are put back after they ran
  stopping,  \* the server has been told to stop
  phase      \* where each check is

dispatchVars == <<keep, stopping, phase>>

Phases == {"queued", "held", "running", "gone"}

In(p) == {c \in Check : phase[c] = p}

Init ==
  /\ keep \in BOOLEAN
  /\ stopping = FALSE
  /\ phase = [c \in Check |-> "queued"]

Stop ==
  /\ stopping' = TRUE
  /\ UNCHANGED <<keep, phase>>

Move(c, from, to) ==
  /\ phase[c] = from
  /\ phase' = [phase EXCEPT ![c] = to]
  /\ UNCHANGED <<keep, stopping>>

Take(c) == Move(c, "queued", "held")

Start(c) ==
  /\ Cardinality(In("running")) < Limit
  /\ Move(c, "held", "running")

Finish(c) == Move(c, "running", IF keep THEN "queued" ELSE "gone")

HandBack(c) ==
  /\ stopping
  /\ Move(c, "held", "queued")

Next ==
  \/ Stop
  \/ \E c \in Check : Take(c) \/ Start(c) \/ Finish(c) \/ HandBack(c)

Spec == Init /\ [][Next]_dispatchVars
=============================================================================
