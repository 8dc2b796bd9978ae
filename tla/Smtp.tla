-------------------------------- MODULE Smtp --------------------------------
(***************************************************************************)
(* The smtp command (check/command/smtp/smtp.go, textproto_smtp.go) run by *)
(* several workers at once, each against a host of its own.  A command     *)
(* whose SetClient was not called uses the one DefaultClient, so that all  *)
(* of those share its field text, which every method of TextProtoSmtp      *)
(* loads afresh for each call it makes on it.                              *)
(*                                                                         *)
(* net/textproto, the network and the hosts are external.  A connection    *)
(* numbers its requests, and its responses are read in that order:         *)
(* StartResponse(id) waits for the turn of id, EndResponse(id) panics when *)
(* it is not the turn of id.                                               *)
(***************************************************************************)
EXTENDS Integers, Sequences

CONSTANTS
  Prober,     \* the checks with an smtp command; each stands for its host too
  Shared,     \* DefaultClient
  MaxDials    \* bound of the model: how many connections are made

ASSUME SmtpAssumption == Shared \notin Prober /\ MaxDials \in Nat

Nil == 0
Conn == 1 .. MaxDials

(* 220, the ExpectedResponseCode, any other; and how a read can fail. *)
Code    == {"ready", "expected", "other"}
Failure == {"deadline", "broken"}
State   == {"none", "OK", "WARN", "CRIT", "UNKNOWN"}

VARIABLES
  own,       \* the probers with a client of their own, fixed
  text,      \* TextProtoSmtp.text of each client: a connection or Nil
  conns,     \* the connections made
  pc,        \* the next step of each prober's Run
  on,        \* the connection loaded for the next call, Nil before the load
  id,        \* the id that Cmd returned
  sync,      \* the receiver of the deferred EndResponse
  report,    \* the result and whether err is not nil
  panicked,  \* the process has ended
  crossed,   \* history: another run on the same client overlapped this one
  dialed,    \* history: the connection made in this run, unless crossed
  heard      \* history: the responses read in this run, with their hosts, unless crossed

localVars == <<on, id, sync, report, dialed, heard>>
vars == <<own, text, conns, pc, localVars, panicked, crossed>>

Client(p) == IF p \in own THEN p ELSE Shared

Steps == {"idle", "dial", "greeting", "notReady", "cmd", "start", "defer", "answer", "end", "close"}

NoReport == [state |-> "none", err |-> FALSE]

Init ==
  /\ own \in SUBSET Prober
  /\ text = [c \in Prober \cup {Shared} |-> Nil]
  /\ conns = <<>>
  /\ pc = [p \in Prober |-> "idle"]
  /\ on = [p \in Prober |-> Nil]
  /\ id = [p \in Prober |-> 0]
  /\ sync = [p \in Prober |-> Nil]
  /\ report = [p \in Prober |-> NoReport]
  /\ panicked = FALSE
  /\ dialed = [p \in Prober |-> Nil]
  /\ crossed = [p \in Prober |-> FALSE]
  /\ heard = [p \in Prober |-> {}]

-----------------------------------------------------------------------------
(***************************************************************************)
(* The hosts and the network.  fate is what the connection comes to: alive,*)
(* hung up by the host, past its deadline, closed by Close.                *)
(***************************************************************************)
NewConn(p) == [host |-> p, fate |-> "alive", inbox |-> <<>>, greeted |-> FALSE,
               asked |-> 1, next |-> 0, turn |-> 0]

(* The host greets, and then answers each command.  What it does after a   *)
(* Close nobody sees.                                                      *)
HostReplies(c) ==
  /\ conns[c].fate = "alive" /\ conns[c].asked > 0
  /\ \E code \in IF conns[c].greeted THEN {"expected", "other"} ELSE {"ready", "other"} :
       conns' = [conns EXCEPT ![c].inbox = Append(@, code), ![c].asked = @ - 1, ![c].greeted = TRUE]
  /\ UNCHANGED <<own, text, pc, localVars, panicked, crossed>>

HostHangsUp(c) ==
  /\ conns[c].fate = "alive"
  /\ conns' = [conns EXCEPT ![c].fate = "hungUp"]
  /\ UNCHANGED <<own, text, pc, localVars, panicked, crossed>>

(* Mutant: no deadline is set on the connection.                           *)
NeverExpires(c) ==
  /\ FALSE
  /\ UNCHANGED vars

(* The time that SetDeadline has set comes.                                *)
DeadlinePasses(c) ==
  /\ conns[c].fate \in {"alive", "hungUp"}
  /\ conns' = [conns EXCEPT ![c].fate = "expired"]
  /\ UNCHANGED <<own, text, pc, localVars, panicked, crossed>>

-----------------------------------------------------------------------------
(***************************************************************************)
(* Run and Connect.                                                        *)
(***************************************************************************)
Rivals(p) == {q \in Prober \ {p} : Client(q) = Client(p) /\ pc[q] # "idle"}

RunCall(p) ==
  /\ pc[p] = "idle"
  /\ pc' = [pc EXCEPT ![p] = "dial"]
  /\ report' = [report EXCEPT ![p] = NoReport]
  /\ crossed' = [q \in Prober |-> IF q = p THEN Rivals(p) # {} ELSE crossed[q] \/ q \in Rivals(p)]
  /\ dialed' = [q \in Prober |-> IF q = p \/ q \in Rivals(p) THEN Nil ELSE dialed[q]]
  /\ heard' = [q \in Prober |-> IF q = p \/ q \in Rivals(p) THEN {} ELSE heard[q]]
  /\ UNCHANGED <<own, text, conns, on, id, sync, panicked>>

(* The history of a run that was crossed ends with it.                     *)
RunReturns(p, reported) ==
  /\ pc' = [pc EXCEPT ![p] = "idle"]
  /\ id' = [id EXCEPT ![p] = 0]
  /\ report' = [report EXCEPT ![p] = IF crossed[p] THEN NoReport ELSE reported]
  /\ crossed' = [crossed EXCEPT ![p] = FALSE]

(* Mutant: an error of Dial is taken for a NotReadyErr.                    *)
DialFailsNotReady(p) ==
  /\ pc[p] = "dial"
  /\ report' = [report EXCEPT ![p] = [state |-> "CRIT", err |-> TRUE]]
  /\ pc' = [pc EXCEPT ![p] = "notReady"]
  /\ UNCHANGED <<own, text, conns, on, id, sync, panicked, dialed, crossed, heard>>

(* After a failed Dial nothing is closed: text is still the one before.    *)
DialFails(p) ==
  /\ pc[p] = "dial"
  /\ RunReturns(p, [state |-> "CRIT", err |-> TRUE])
  /\ UNCHANGED <<own, text, conns, on, sync, panicked, dialed, heard>>

Dial(p) ==
  /\ pc[p] = "dial"
  /\ Len(conns) < MaxDials
  /\ conns' = Append(conns, NewConn(p))
  /\ text' = [text EXCEPT ![Client(p)] = Len(conns) + 1]
  /\ dialed' = [dialed EXCEPT ![p] = IF crossed[p] THEN Nil ELSE Len(conns) + 1]
  /\ pc' = [pc EXCEPT ![p] = "greeting"]
  /\ UNCHANGED <<own, on, id, sync, report, panicked, crossed, heard>>

(* t.text, in front of each call that is made on it.                       *)
Load(p) ==
  /\ pc[p] \in {"greeting", "notReady", "cmd", "start", "answer", "close"}
  /\ on[p] = Nil
  /\ on' = [on EXCEPT ![p] = text[Client(p)]]
  /\ UNCHANGED <<own, text, conns, pc, id, sync, report, panicked, dialed, crossed, heard>>

(* The call on the loaded connection returns and Run goes on at step.      *)
Returns(p, step) ==
  /\ on[p] # Nil
  /\ on' = [on EXCEPT ![p] = Nil]
  /\ pc' = [pc EXCEPT ![p] = step]

(***************************************************************************)
(* ReadResponse.  What is in the inbox may be read even after a failure, as*)
(* it may be buffered.  Two goroutines that read one connection race for   *)
(* its buffer: each may see anything that the host can have sent, and the  *)
(* other's response again.                                                 *)
(***************************************************************************)
Failures(c) ==
  {f \in Failure : \/ f = "broken" /\ conns[c].fate \in {"hungUp", "closed"}
                   \/ f = "deadline" /\ conns[c].fate = "expired"}

Racing(p) == \E q \in Prober \ {p} : on[q] = on[p] /\ pc[q] \in {"greeting", "answer"}

ReadResponse(p, code) ==
  LET c == on[p] IN
  /\ \/ /\ conns[c].inbox # <<>> /\ code = Head(conns[c].inbox)
        /\ conns' = [conns EXCEPT ![c].inbox = Tail(@)]
     \/ Racing(p) /\ code \in Code /\ UNCHANGED conns
  /\ heard' = IF crossed[p] THEN heard
              ELSE [heard EXCEPT ![p] = @ \cup {[host |-> conns[c].host, code |-> code]}]

GreetingReady(p) ==
  /\ pc[p] = "greeting" /\ on[p] # Nil
  /\ ReadResponse(p, "ready")
  /\ Returns(p, "cmd")
  /\ UNCHANGED <<own, text, id, sync, report, panicked, dialed, crossed>>

(* NotReadyErr.                                                            *)
GreetingFails(p) ==
  /\ pc[p] = "greeting" /\ on[p] # Nil
  /\ \/ \E code \in Code \ {"ready"} : ReadResponse(p, code)
     \/ Failures(on[p]) # {} /\ UNCHANGED <<conns, heard>>
  /\ report' = [report EXCEPT ![p] = [state |-> "CRIT", err |-> TRUE]]
  /\ Returns(p, "notReady")
  /\ UNCHANGED <<own, text, id, sync, panicked, dialed, crossed>>

-----------------------------------------------------------------------------
(***************************************************************************)
(* Cmd.                                                                    *)
(***************************************************************************)
FailedCmd(f) == [state |-> IF f = "deadline" THEN "CRIT" ELSE "UNKNOWN", err |-> TRUE]

CmdSent(p) ==
  /\ pc[p] = "cmd" /\ on[p] # Nil
  /\ conns[on[p]].fate \in {"alive", "hungUp"}
  /\ id' = [id EXCEPT ![p] = conns[on[p]].next]
  /\ conns' = [conns EXCEPT ![on[p]].next = @ + 1, ![on[p]].asked = @ + 1]
  /\ Returns(p, "start")
  /\ UNCHANGED <<own, text, sync, report, panicked, dialed, crossed, heard>>

CmdFails(p) ==
  /\ pc[p] = "cmd" /\ on[p] # Nil
  /\ \E f \in Failures(on[p]) : report' = [report EXCEPT ![p] = FailedCmd(f)]
  /\ conns' = [conns EXCEPT ![on[p]].next = @ + 1]
  /\ Returns(p, "close")
  /\ UNCHANGED <<own, text, id, sync, panicked, dialed, crossed, heard>>

StartResponse(p) ==
  /\ pc[p] = "start" /\ on[p] # Nil
  /\ conns[on[p]].turn = id[p]
  /\ Returns(p, "defer")
  /\ UNCHANGED <<own, text, conns, id, sync, report, panicked, dialed, crossed, heard>>

DeferEndResponse(p) ==
  /\ pc[p] = "defer"
  /\ sync' = [sync EXCEPT ![p] = text[Client(p)]]
  /\ pc' = [pc EXCEPT ![p] = "answer"]
  /\ UNCHANGED <<own, text, conns, on, id, report, panicked, dialed, crossed, heard>>

(* The answer, and the response time against the two thresholds.           *)
AnswerRead(p) ==
  /\ pc[p] = "answer" /\ on[p] # Nil
  /\ \E code \in Code, timed \in {"OK", "WARN", "CRIT"} :
       /\ ReadResponse(p, code)
       /\ report' = [report EXCEPT ![p] =
            [state |-> IF code = "expected" THEN timed ELSE "CRIT", err |-> FALSE]]
  /\ Returns(p, "end")
  /\ UNCHANGED <<own, text, id, sync, panicked, dialed, crossed>>

AnswerFails(p) ==
  /\ pc[p] = "answer" /\ on[p] # Nil
  /\ \E f \in Failures(on[p]) : report' = [report EXCEPT ![p] = FailedCmd(f)]
  /\ Returns(p, "end")
  /\ UNCHANGED <<own, text, conns, id, sync, panicked, dialed, crossed, heard>>

EndResponse(p) ==
  /\ pc[p] = "end"
  /\ IF conns[sync[p]].turn = id[p]
     THEN conns' = [conns EXCEPT ![sync[p]].turn = @ + 1] /\ UNCHANGED panicked
     ELSE panicked' = TRUE /\ UNCHANGED conns
  /\ sync' = [sync EXCEPT ![p] = Nil]
  /\ pc' = [pc EXCEPT ![p] = "close"]
  /\ UNCHANGED <<own, text, on, id, report, dialed, crossed, heard>>

-----------------------------------------------------------------------------
(* What the host still has to send does not matter any more.               *)
Closed(conn) == [conn EXCEPT !.fate = "closed", !.asked = 0, !.greeted = TRUE]

(* Mutant: a host that is not ready is left without a Close.               *)
CloseUnlessNotReady(p) ==
  /\ pc[p] \in {"notReady", "close"} /\ on[p] # Nil
  /\ conns' = IF pc[p] = "notReady" THEN conns ELSE [conns EXCEPT ![on[p]] = Closed(@)]
  /\ RunReturns(p, [report[p] EXCEPT !.err = @ /\ (pc[p] = "close" => conns[on[p]].fate = "closed")])
  /\ on' = [on EXCEPT ![p] = Nil]
  /\ UNCHANGED <<own, text, sync, panicked, dialed, heard>>

(* Close, which fails on a connection that is closed already.  The         *)
(* deferred one replaces an error of Cmd by its own, nil included.         *)
Close(p) ==
  /\ pc[p] \in {"notReady", "close"} /\ on[p] # Nil
  /\ conns' = [conns EXCEPT ![on[p]] = Closed(@)]
  /\ RunReturns(p, [report[p] EXCEPT !.err = @ /\ (pc[p] = "close" => conns[on[p]].fate = "closed")])
  /\ on' = [on EXCEPT ![p] = Nil]
  /\ UNCHANGED <<own, text, sync, panicked, dialed, heard>>

Connect(p) == Dial(p) \/ DialFails(p) \/ GreetingReady(p) \/ GreetingFails(p)

Cmd(p) == \/ CmdSent(p) \/ CmdFails(p) \/ StartResponse(p) \/ DeferEndResponse(p)
          \/ AnswerRead(p) \/ AnswerFails(p) \/ EndResponse(p)

Run(p) == Load(p) \/ Connect(p) \/ Cmd(p) \/ Close(p)

Host(c) == HostReplies(c) \/ HostHangsUp(c)

(* A panic ends the process.                                               *)
Ended == panicked /\ UNCHANGED vars

Next ==
  \/ /\ ~panicked
     /\ \/ \E p \in Prober : RunCall(p) \/ Run(p)
        \/ \E c \in 1 .. Len(conns) : Host(c) \/ DeadlinePasses(c)
  \/ Ended

Spec == Init /\ [][Next]_vars

(* A worker goes on when it can, and a deadline passes; a host need not    *)
(* answer.                                                                 *)
FairSpec ==
  /\ Spec
  /\ \A p \in Prober : WF_vars(~panicked /\ Run(p))
  /\ \A c \in Conn : WF_vars(~panicked /\ c <= Len(conns) /\ DeadlinePasses(c))

-----------------------------------------------------------------------------
(***************************************************************************)
(* Properties.                                                             *)
(***************************************************************************)
ConnRecord == [host : Prober, fate : {"alive", "hungUp", "expired", "closed"},
               inbox : Seq(Code), greeted : BOOLEAN, asked : Nat, next : Nat, turn : Nat]

(* Every variable has its type; t.text is never nil where it is used, and  *)
(* no turn is given before its request was numbered on some connection.    *)
TypeOK ==
  /\ own \subseteq Prober /\ panicked \in BOOLEAN
  /\ conns \in Seq(ConnRecord) /\ Len(conns) <= MaxDials
  /\ text \in [Prober \cup {Shared} -> 0 .. Len(conns)]
  /\ pc \in [Prober -> Steps]
  /\ on \in [Prober -> 0 .. Len(conns)] /\ sync \in [Prober -> 0 .. Len(conns)]
  /\ id \in [Prober -> Nat]
  /\ report \in [Prober -> [state : State, err : BOOLEAN]]
  /\ dialed \in [Prober -> 0 .. Len(conns)] /\ crossed \in [Prober -> BOOLEAN]
  /\ heard \in [Prober -> SUBSET [host : Prober, code : Code]]
  /\ \A p \in Prober : pc[p] \notin {"idle", "dial"} => text[Client(p)] # Nil

(* A run that no other run on its client overlapped hears its own host     *)
(* only, reports OK only after that host has greeted and answered as       *)
(* expected (an error may get lost, the state of the result does not),     *)
(* leaves no connection open, and the process panics only where two runs   *)
(* did overlap.                                                            *)
UncrossedIsSound ==
  /\ \A p \in Prober : ~crossed[p] =>
       /\ \A r \in heard[p] : r.host = p
       /\ report[p].state = "OK" => {r.code : r \in heard[p]} = {"ready", "expected"}
       /\ pc[p] = "idle" /\ dialed[p] # Nil => conns[dialed[p]].fate = "closed"
  /\ panicked => \E p \in Prober : crossed[p]

(* A run that no other overlaps ends, whatever its host does: the deadline *)
(* covers every read, and the turn of its response is always its own.      *)
UncrossedRunEnds ==
  \A p \in Prober : pc[p] # "idle" ~> pc[p] = "idle" \/ crossed[p] \/ panicked
=============================================================================
