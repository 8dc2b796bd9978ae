----------------------------- MODULE SmtpProofs -----------------------------
(***************************************************************************)
(* Proofs about module Smtp, for any number of checks, of clients and of   *)
(* connections.                                                            *)
(***************************************************************************)
EXTENDS Smtp, TLAPS

Clients == Prober \cup {Shared}

(* The steps at which a connection is loaded for a call.                   *)
Calling == {"greeting", "notReady", "cmd", "start", "answer", "close"}

Loaded ==
  \A p \in Prober :
    /\ on[p] # Nil => pc[p] \in Calling
    /\ pc[p] \in {"answer", "end"} => sync[p] # Nil

(* A connection stays with the client it was made on.                      *)
Owned ==
  /\ \A k \in Clients : text[k] # Nil => Client(conns[text[k]].host) = k
  /\ \A p \in Prober :
       /\ on[p] # Nil => Client(conns[on[p]].host) = Client(p)
       /\ sync[p] # Nil => Client(conns[sync[p]].host) = Client(p)

(* Two runs that are on a client at the same time are both crossed; such a *)
(* run has no history.                                                     *)
Crossing ==
  /\ \A p, q \in Prober :
       p # q /\ Client(p) = Client(q) /\ pc[p] # "idle" /\ pc[q] # "idle" => crossed[p]
  /\ \A p \in Prober : crossed[p] => pc[p] # "idle" /\ dialed[p] = Nil /\ heard[p] = {}

Codes(p) == {r.code : r \in heard[p]}

(* A run that is not crossed goes its whole way on the connection it made, *)
(* whose turn does not change before its own EndResponse.                  *)
Alone(p) ==
  /\ dialed[p] # Nil => conns[dialed[p]].host = p
  /\ pc[p] = "dial" => dialed[p] = Nil
  /\ pc[p] \notin {"idle", "dial"} => dialed[p] # Nil /\ dialed[p] = text[Client(p)]
  /\ on[p] # Nil => on[p] = dialed[p]
  /\ pc[p] \in {"answer", "end"} => sync[p] = dialed[p]
  /\ pc[p] \in {"defer", "answer", "end"} => conns[dialed[p]].turn = id[p]

(* What it has heard by each step, and what it reports of that.            *)
Hears(p) ==
  /\ \A r \in heard[p] : r.host = p
  /\ pc[p] \in {"dial", "greeting"} => heard[p] = {} /\ report[p].state # "OK"
  /\ pc[p] \in {"cmd", "start", "defer", "answer"} => Codes(p) = {"ready"} /\ report[p].state # "OK"
  /\ report[p].state = "OK" => Codes(p) = {"ready", "expected"}

Tidy(p) == pc[p] = "idle" /\ dialed[p] # Nil => conns[dialed[p]].fate = "closed"

Uncrossed == \A p \in Prober : ~crossed[p] => Alone(p) /\ Hears(p) /\ Tidy(p)

PanicIsCrossed == panicked => \E p \in Prober : crossed[p]

(* The inductive invariant.                                                *)
IInv == TypeOK /\ Loaded /\ Owned /\ Crossing /\ Uncrossed /\ PanicIsCrossed

-----------------------------------------------------------------------------
(***************************************************************************)
(* What a step does to the connections.                                    *)
(***************************************************************************)
(* A connection keeps its host, and stays closed once it is.               *)
Onward ==
  /\ conns' \in Seq(ConnRecord) /\ Len(conns) <= Len(conns') /\ Len(conns') <= MaxDials
  /\ \A d \in 1 .. Len(conns) :
       /\ conns'[d].host = conns[d].host
       /\ conns[d].fate = "closed" => conns'[d].fate = "closed"

TurnsKept == \A d \in 1 .. Len(conns) : conns'[d].turn = conns[d].turn

LEMMA ConnsLength == TypeOK => Len(conns) \in Nat /\ MaxDials \in Nat
BY SmtpAssumption DEF TypeOK

(* One connection is replaced.                                             *)
LEMMA OneReplaced ==
  ASSUME TypeOK, NEW c \in 1 .. Len(conns), NEW r \in ConnRecord,
         r.host = conns[c].host, conns[c].fate = "closed" => r.fate = "closed",
         conns' = [conns EXCEPT ![c] = r]
  PROVE  /\ Onward /\ Len(conns') = Len(conns) /\ conns'[c] = r
         /\ \A d \in 1 .. Len(conns) : d # c => conns'[d] = conns[d]
<1>1. conns \in Seq(ConnRecord) /\ Len(conns) \in Nat /\ Len(conns) <= MaxDials
  BY DEF TypeOK
<1> HIDE DEF TypeOK
<1>2. conns' \in Seq(ConnRecord) /\ Len(conns') = Len(conns)
  BY <1>1
<1>3. conns'[c] = r /\ \A d \in 1 .. Len(conns) : d # c => conns'[d] = conns[d]
  BY <1>1
<1> QED
  BY <1>1, <1>2, <1>3 DEF Onward

LEMMA NoneReplaced ==
  ASSUME TypeOK, UNCHANGED conns
  PROVE  Onward /\ TurnsKept /\ Len(conns') = Len(conns)
BY DEF TypeOK, Onward, TurnsKept

(* The fields of a connection.                                             *)
LEMMA Fields ==
  ASSUME TypeOK, NEW c \in 1 .. Len(conns)
  PROVE  /\ conns[c] \in ConnRecord
         /\ conns[c].host \in Prober /\ conns[c].fate \in {"alive", "hungUp", "expired", "closed"}
         /\ conns[c].inbox \in Seq(Code) /\ conns[c].greeted \in BOOLEAN
         /\ conns[c].asked \in Nat /\ conns[c].next \in Nat /\ conns[c].turn \in Nat
<1>1. conns[c] \in ConnRecord
  BY DEF TypeOK
<1> QED
  BY <1>1 DEF ConnRecord

LEMMA HostRepliesEffect ==
  ASSUME TypeOK, NEW c \in 1 .. Len(conns), HostReplies(c)
  PROVE  Onward /\ TurnsKept /\ Len(conns') = Len(conns)
<1>1. PICK code \in Code :
        conns' = [conns EXCEPT ![c].inbox = Append(@, code), ![c].asked = @ - 1, ![c].greeted = TRUE]
  BY DEF HostReplies, Code
<1> DEFINE r == [conns[c] EXCEPT !.inbox = Append(@, code), !.asked = @ - 1, !.greeted = TRUE]
<1>2. conns \in Seq(ConnRecord) /\ conns[c] \in ConnRecord
  BY Fields DEF TypeOK
<1>3. conns[c].asked - 1 \in Nat /\ Append(conns[c].inbox, code) \in Seq(Code)
  BY Fields, <1>1 DEF HostReplies
<1>4. r \in ConnRecord /\ r.host = conns[c].host /\ r.fate = conns[c].fate /\ r.turn = conns[c].turn
  BY <1>2, <1>3 DEF ConnRecord
<1>5. conns' = [conns EXCEPT ![c] = r]
  BY <1>1, <1>2
<1> HIDE DEF r
<1>6. /\ Onward /\ Len(conns') = Len(conns) /\ conns'[c] = r
      /\ \A d \in 1 .. Len(conns) : d # c => conns'[d] = conns[d]
  BY <1>4, <1>5, OneReplaced
<1> QED
  BY <1>4, <1>6 DEF TurnsKept

LEMMA FateEffect ==
  ASSUME TypeOK, NEW c \in 1 .. Len(conns), HostHangsUp(c) \/ DeadlinePasses(c)
  PROVE  Onward /\ TurnsKept /\ Len(conns') = Len(conns)
<1>1. PICK f \in {"hungUp", "expired"} : conns' = [conns EXCEPT ![c].fate = f]
  BY DEF HostHangsUp, DeadlinePasses
<1>2. conns[c].fate # "closed"
  BY DEF HostHangsUp, DeadlinePasses
<1> DEFINE r == [conns[c] EXCEPT !.fate = f]
<1>3. conns \in Seq(ConnRecord) /\ conns[c] \in ConnRecord
  BY Fields DEF TypeOK
<1>4. r \in ConnRecord /\ r.host = conns[c].host /\ r.turn = conns[c].turn
  BY <1>3 DEF ConnRecord
<1>5. conns' = [conns EXCEPT ![c] = r]
  BY <1>1, <1>3
<1> HIDE DEF r
<1>6. /\ Onward /\ Len(conns') = Len(conns) /\ conns'[c] = r
      /\ \A d \in 1 .. Len(conns) : d # c => conns'[d] = conns[d]
  BY <1>2, <1>4, <1>5, OneReplaced
<1> QED
  BY <1>4, <1>6 DEF TurnsKept

LEMMA OnAndSync ==
  ASSUME TypeOK, NEW p \in Prober
  PROVE  /\ on[p] # Nil => on[p] \in 1 .. Len(conns)
         /\ sync[p] # Nil => sync[p] \in 1 .. Len(conns)
         /\ dialed[p] # Nil => dialed[p] \in 1 .. Len(conns)
BY ConnsLength DEF TypeOK, Nil

LEMMA ReadEffect ==
  ASSUME TypeOK, NEW p \in Prober, NEW code \in Code, on[p] # Nil, ReadResponse(p, code)
  PROVE  /\ Onward /\ TurnsKept /\ Len(conns') = Len(conns)
         /\ heard' \in [Prober -> SUBSET [host : Prober, code : Code]]
         /\ \A q \in Prober : q # p => heard'[q] = heard[q]
         /\ heard'[p] = IF crossed[p] THEN heard[p]
                        ELSE heard[p] \cup {[host |-> conns[on[p]].host, code |-> code]}
<1>1. on[p] \in 1 .. Len(conns)
  BY OnAndSync
<1>2. Onward /\ TurnsKept /\ Len(conns') = Len(conns)
  <2>1. CASE UNCHANGED conns
    BY <2>1, NoneReplaced
  <2>2. CASE conns[on[p]].inbox # <<>> /\ conns' = [conns EXCEPT ![on[p]].inbox = Tail(@)]
    <3> DEFINE r == [conns[on[p]] EXCEPT !.inbox = Tail(@)]
    <3>1. conns \in Seq(ConnRecord) /\ conns[on[p]] \in ConnRecord
      BY <1>1, Fields DEF TypeOK
    <3>2. conns[on[p]].inbox \in Seq(Code)
      BY <1>1, Fields
    <3>3. Tail(conns[on[p]].inbox) \in Seq(Code)
      BY <2>2, <3>2
    <3>4. r \in ConnRecord /\ r.host = conns[on[p]].host /\ r.fate = conns[on[p]].fate
          /\ r.turn = conns[on[p]].turn
      BY <3>1, <3>3 DEF ConnRecord
    <3>5. conns' = [conns EXCEPT ![on[p]] = r]
      BY <1>1, <2>2, <3>1
    <3> HIDE DEF r
    <3>6. /\ Onward /\ Len(conns') = Len(conns) /\ conns'[on[p]] = r
          /\ \A d \in 1 .. Len(conns) : d # on[p] => conns'[d] = conns[d]
      BY <1>1, <3>4, <3>5, OneReplaced
    <3> QED
      BY <3>4, <3>6 DEF TurnsKept
  <2> QED
    BY <2>1, <2>2 DEF ReadResponse
<1>3. conns[on[p]].host \in Prober
  BY <1>1, Fields
<1>4. heard' = IF crossed[p] THEN heard
               ELSE [heard EXCEPT ![p] = @ \cup {[host |-> conns[on[p]].host, code |-> code]}]
  BY DEF ReadResponse
<1>5. heard \in [Prober -> SUBSET [host : Prober, code : Code]]
  BY DEF TypeOK
<1> QED
  BY <1>2, <1>3, <1>4, <1>5

LEMMA CmdEffect ==
  ASSUME TypeOK, NEW p \in Prober, CmdSent(p) \/ CmdFails(p)
  PROVE  Onward /\ TurnsKept /\ Len(conns') = Len(conns)
<1>1. on[p] \in 1 .. Len(conns)
  BY OnAndSync DEF CmdSent, CmdFails
<1>2. /\ conns \in Seq(ConnRecord) /\ conns[on[p]] \in ConnRecord
      /\ conns[on[p]].next + 1 \in Nat /\ conns[on[p]].asked + 1 \in Nat
  <2>1. /\ conns[on[p]] \in ConnRecord
        /\ conns[on[p]].next \in Nat /\ conns[on[p]].asked \in Nat
    BY <1>1, Fields
  <2> QED
    BY <2>1 DEF TypeOK
<1>3. PICK r \in ConnRecord :
        /\ r.host = conns[on[p]].host /\ r.fate = conns[on[p]].fate /\ r.turn = conns[on[p]].turn
        /\ conns' = [conns EXCEPT ![on[p]] = r]
  <2>1. CASE CmdSent(p)
    <3> DEFINE r == [conns[on[p]] EXCEPT !.next = @ + 1, !.asked = @ + 1]
    <3>1. r \in ConnRecord /\ r.host = conns[on[p]].host /\ r.fate = conns[on[p]].fate
          /\ r.turn = conns[on[p]].turn
      BY <1>2 DEF ConnRecord
    <3>2. conns' = [conns EXCEPT ![on[p]] = r]
      BY <1>1, <1>2, <2>1 DEF CmdSent
    <3> QED
      BY <3>1, <3>2
  <2>2. CASE CmdFails(p)
    <3> DEFINE r == [conns[on[p]] EXCEPT !.next = @ + 1]
    <3>1. r \in ConnRecord /\ r.host = conns[on[p]].host /\ r.fate = conns[on[p]].fate
          /\ r.turn = conns[on[p]].turn
      BY <1>2 DEF ConnRecord
    <3>2. conns' = [conns EXCEPT ![on[p]] = r]
      BY <1>1, <1>2, <2>2 DEF CmdFails
    <3> QED
      BY <3>1, <3>2
  <2> QED
    BY <2>1, <2>2
<1>4. /\ Onward /\ Len(conns') = Len(conns) /\ conns'[on[p]] = r
      /\ \A d \in 1 .. Len(conns) : d # on[p] => conns'[d] = conns[d]
  BY <1>1, <1>3, OneReplaced
<1> QED
  BY <1>3, <1>4 DEF TurnsKept

LEMMA CloseEffect ==
  ASSUME TypeOK, NEW p \in Prober, Close(p)
  PROVE  /\ Onward /\ TurnsKept /\ Len(conns') = Len(conns)
         /\ on[p] \in 1 .. Len(conns) /\ conns'[on[p]].fate = "closed"
<1>1. on[p] \in 1 .. Len(conns)
  BY OnAndSync DEF Close
<1> DEFINE r == Closed(conns[on[p]])
<1>2. conns[on[p]] \in ConnRecord
  BY <1>1, Fields
<1>3. r \in ConnRecord /\ r.host = conns[on[p]].host /\ r.fate = "closed"
      /\ r.turn = conns[on[p]].turn
  BY <1>2 DEF ConnRecord, Closed
<1>4. conns' = [conns EXCEPT ![on[p]] = r]
  BY <1>1 DEF Close, TypeOK
<1> HIDE DEF r
<1>5. /\ Onward /\ Len(conns') = Len(conns) /\ conns'[on[p]] = r
      /\ \A d \in 1 .. Len(conns) : d # on[p] => conns'[d] = conns[d]
  BY <1>1, <1>3, <1>4, OneReplaced
<1> QED
  BY <1>1, <1>3, <1>5 DEF TurnsKept

(* Nobody's turn changes but on the connection of the EndResponse.         *)
LEMMA EndResponseEffect ==
  ASSUME TypeOK, NEW p \in Prober, sync[p] # Nil, EndResponse(p)
  PROVE  /\ Onward /\ Len(conns') = Len(conns)
         /\ \A d \in 1 .. Len(conns) : d # sync[p] => conns'[d].turn = conns[d].turn
<1>1. sync[p] \in 1 .. Len(conns)
  BY OnAndSync
<1>2. CASE UNCHANGED conns
  BY <1>2, NoneReplaced DEF TurnsKept
<1>3. CASE conns' = [conns EXCEPT ![sync[p]].turn = @ + 1]
  <2> DEFINE r == [conns[sync[p]] EXCEPT !.turn = @ + 1]
  <2>1. conns[sync[p]] \in ConnRecord /\ conns[sync[p]].turn + 1 \in Nat
    BY <1>1, Fields
  <2>2. r \in ConnRecord /\ r.host = conns[sync[p]].host /\ r.fate = conns[sync[p]].fate
    BY <2>1 DEF ConnRecord
  <2>3. conns' = [conns EXCEPT ![sync[p]] = r]
    BY <1>1, <1>3 DEF TypeOK
  <2> HIDE DEF r
  <2>4. /\ Onward /\ Len(conns') = Len(conns)
        /\ \A d \in 1 .. Len(conns) : d # sync[p] => conns'[d] = conns[d]
    BY <1>1, <2>2, <2>3, OneReplaced
  <2> QED
    BY <2>4
<1> QED
  BY <1>2, <1>3 DEF EndResponse

LEMMA DialEffect ==
  ASSUME TypeOK, NEW p \in Prober, Dial(p)
  PROVE  /\ Onward /\ TurnsKept /\ Len(conns') = Len(conns) + 1
         /\ conns'[Len(conns) + 1] = NewConn(p)
<1>1. NewConn(p) \in ConnRecord
  BY DEF NewConn, ConnRecord
<1>2. conns \in Seq(ConnRecord) /\ Len(conns) \in Nat /\ MaxDials \in Nat
      /\ Len(conns) < MaxDials /\ conns' = Append(conns, NewConn(p))
  BY SmtpAssumption DEF TypeOK, Dial
<1> HIDE DEF TypeOK
<1>3. /\ conns' \in Seq(ConnRecord) /\ Len(conns') = Len(conns) + 1
      /\ conns'[Len(conns) + 1] = NewConn(p)
      /\ \A d \in 1 .. Len(conns) : conns'[d] = conns[d]
  BY <1>1, <1>2
<1> QED
  BY <1>2, <1>3 DEF Onward, TurnsKept

-----------------------------------------------------------------------------
(***************************************************************************)
(* Types.                                                                  *)
(***************************************************************************)
LEMMA InitInv == Init => IInv
<1> SUFFICES ASSUME Init PROVE IInv
  OBVIOUS
<1> USE SmtpAssumption DEF Init, Nil
<1>1. conns \in Seq(ConnRecord) /\ Len(conns) = 0
  OBVIOUS
<1>2. TypeOK
  <2>1. NoReport \in [state : State, err : BOOLEAN] /\ "idle" \in Steps
    BY DEF NoReport, State, Steps
  <2>2. \A p \in Prober : pc[p] \in {"idle", "dial"}
    OBVIOUS
  <2>3. heard \in [Prober -> SUBSET [host : Prober, code : Code]]
    OBVIOUS
  <2>4. report \in [Prober -> [state : State, err : BOOLEAN]] /\ pc \in [Prober -> Steps]
    BY <2>1
  <2>5. /\ own \subseteq Prober /\ panicked \in BOOLEAN
        /\ text \in [Prober \cup {Shared} -> {0}] /\ on \in [Prober -> {0}]
        /\ sync \in [Prober -> {0}] /\ dialed \in [Prober -> {0}]
        /\ id \in [Prober -> Nat] /\ crossed \in [Prober -> BOOLEAN]
    OBVIOUS
  <2>6. {0} \subseteq 0 .. Len(conns)
    BY <1>1
  <2> QED
    BY <1>1, <2>2, <2>3, <2>4, <2>5, <2>6 DEF TypeOK
<1>3. Loaded /\ Owned
  BY DEF Loaded, Owned, Clients
<1>4. Crossing
  BY DEF Crossing
<1>5. Uncrossed
  BY DEF Uncrossed, Alone, Hears, Tidy, NoReport
<1>6. PanicIsCrossed
  BY DEF PanicIsCrossed
<1> QED
  BY <1>2, <1>3, <1>4, <1>5, <1>6 DEF IInv

(* The hosts and the clock touch the connections only.                     *)
LEMMA HostsType ==
  ASSUME TypeOK, Onward,
         UNCHANGED <<own, text, pc, localVars, panicked, crossed>>
  PROVE  TypeOK'
<1>1. Len(conns) \in Nat /\ Len(conns') \in Nat
  BY ConnsLength DEF Onward
<1> QED
  BY <1>1 DEF TypeOK, Onward, localVars, Client

(* One prober takes a step that is not Dial.                               *)
LEMMA StepType ==
  ASSUME TypeOK, Onward, UNCHANGED <<own, text>>, panicked' \in BOOLEAN,
         NEW p \in Prober, NEW step \in Steps, pc' = [pc EXCEPT ![p] = step],
         step \notin {"idle", "dial"} => pc[p] \notin {"idle", "dial"},
         on' \in [Prober -> 0 .. Len(conns)], sync' \in [Prober -> 0 .. Len(conns)],
         id' \in [Prober -> Nat], report' \in [Prober -> [state : State, err : BOOLEAN]],
         dialed' \in [Prober -> 0 .. Len(conns)], crossed' \in [Prober -> BOOLEAN],
         heard' \in [Prober -> SUBSET [host : Prober, code : Code]]
  PROVE  TypeOK'
<1>1. Len(conns) \in Nat /\ Len(conns') \in Nat /\ Len(conns) <= Len(conns')
  BY ConnsLength DEF Onward
<1>2. \A n \in 0 .. Len(conns) : n \in 0 .. Len(conns')
  BY <1>1
<1>3. text' \in [Prober \cup {Shared} -> 0 .. Len(conns')]
  BY <1>2 DEF TypeOK
<1>4. on' \in [Prober -> 0 .. Len(conns')] /\ sync' \in [Prober -> 0 .. Len(conns')]
      /\ dialed' \in [Prober -> 0 .. Len(conns')]
  BY <1>2
<1>5. \A q \in Prober : pc'[q] \notin {"idle", "dial"} => text'[Client(q)'] # Nil
  BY DEF TypeOK, Client
<1> QED
  BY <1>3, <1>4, <1>5 DEF TypeOK, Onward

LEMMA StepsType ==
  ASSUME TypeOK, Loaded, NEW p \in Prober,
         RunCall(p) \/ Load(p) \/ DialFails(p) \/ GreetingReady(p) \/ GreetingFails(p)
         \/ StartResponse(p) \/ DeferEndResponse(p) \/ AnswerRead(p) \/ AnswerFails(p)
         \/ CmdSent(p) \/ CmdFails(p) \/ EndResponse(p) \/ Close(p)
  PROVE  TypeOK' /\ Onward /\ Len(conns') = Len(conns)
<1> USE DEF Steps
<1>0. /\ Len(conns) \in Nat /\ Client(p) \in Prober \cup {Shared}
      /\ on \in [Prober -> 0 .. Len(conns)] /\ sync \in [Prober -> 0 .. Len(conns)]
      /\ id \in [Prober -> Nat] /\ report \in [Prober -> [state : State, err : BOOLEAN]]
      /\ dialed \in [Prober -> 0 .. Len(conns)] /\ crossed \in [Prober -> BOOLEAN]
      /\ heard \in [Prober -> SUBSET [host : Prober, code : Code]]
      /\ panicked \in BOOLEAN /\ text \in [Prober \cup {Shared} -> 0 .. Len(conns)]
      /\ pc \in [Prober -> {"idle", "dial", "greeting", "notReady", "cmd", "start", "defer", "answer", "end", "close"}]
  BY ConnsLength DEF TypeOK, Client
<1>1. CASE RunCall(p)
  <2>1. Onward /\ Len(conns') = Len(conns)
    BY <1>1, NoneReplaced DEF RunCall
  <2>2. pc' = [pc EXCEPT ![p] = "dial"] /\ UNCHANGED <<own, text, on, id, sync, panicked>>
    BY <1>1 DEF RunCall
  <2>3. report' \in [Prober -> [state : State, err : BOOLEAN]]
    BY <1>0, <1>1 DEF RunCall, NoReport, State
  <2>4. crossed' \in [Prober -> BOOLEAN]
    BY <1>0, <1>1 DEF RunCall
  <2>5. dialed' \in [Prober -> 0 .. Len(conns)]
        /\ heard' \in [Prober -> SUBSET [host : Prober, code : Code]]
    BY <1>0, <1>1 DEF RunCall, Nil
  <2> QED
    BY <1>0, <2>1, <2>2, <2>3, <2>4, <2>5, StepType
<1>2. CASE Load(p)
  <2>1. Onward /\ Len(conns') = Len(conns)
    BY <1>2, NoneReplaced DEF Load
  <2>2. on' \in [Prober -> 0 .. Len(conns)]
    BY <1>0, <1>2 DEF Load
  <2>3. pc' = [pc EXCEPT ![p] = pc[p]] /\ pc[p] \in Steps
    BY <1>0, <1>2 DEF Load
  <2> QED
    BY <1>0, <1>2, <2>1, <2>2, <2>3, StepType DEF Load
<1>3. CASE DialFails(p)
  <2>1. Onward /\ Len(conns') = Len(conns)
    BY <1>3, NoneReplaced DEF DialFails
  <2>2. /\ report' \in [Prober -> [state : State, err : BOOLEAN]]
        /\ id' \in [Prober -> Nat] /\ crossed' \in [Prober -> BOOLEAN]
        /\ pc' = [pc EXCEPT ![p] = "idle"]
    BY <1>0, <1>3 DEF DialFails, RunReturns, NoReport, State
  <2> QED
    BY <1>0, <1>3, <2>1, <2>2, StepType DEF DialFails
<1>4. CASE GreetingReady(p)
  <2>1. /\ Onward /\ Len(conns') = Len(conns)
        /\ heard' \in [Prober -> SUBSET [host : Prober, code : Code]]
    BY <1>4, ReadEffect DEF GreetingReady, Code
  <2>2. on' \in [Prober -> 0 .. Len(conns)] /\ pc' = [pc EXCEPT ![p] = "cmd"]
    BY <1>0, <1>4 DEF GreetingReady, Returns, Nil
  <2> QED
    BY <1>0, <1>4, <2>1, <2>2, StepType DEF GreetingReady
<1>5. CASE GreetingFails(p)
  <2>1. /\ Onward /\ Len(conns') = Len(conns)
        /\ heard' \in [Prober -> SUBSET [host : Prober, code : Code]]
    <3>1. CASE \E code \in Code \ {"ready"} : ReadResponse(p, code)
      BY <1>5, <3>1, ReadEffect DEF GreetingFails
    <3>2. CASE UNCHANGED <<conns, heard>>
      BY <1>0, <3>2, NoneReplaced
    <3> QED
      BY <1>5, <3>1, <3>2 DEF GreetingFails
  <2>2. on' \in [Prober -> 0 .. Len(conns)] /\ pc' = [pc EXCEPT ![p] = "notReady"]
    BY <1>0, <1>5 DEF GreetingFails, Returns, Nil
  <2>3. report' \in [Prober -> [state : State, err : BOOLEAN]]
    BY <1>0, <1>5 DEF GreetingFails, State
  <2> QED
    BY <1>0, <1>5, <2>1, <2>2, <2>3, StepType DEF GreetingFails
<1>6. CASE StartResponse(p)
  <2>1. Onward /\ Len(conns') = Len(conns)
    BY <1>6, NoneReplaced DEF StartResponse
  <2>2. on' \in [Prober -> 0 .. Len(conns)] /\ pc' = [pc EXCEPT ![p] = "defer"]
    BY <1>0, <1>6 DEF StartResponse, Returns, Nil
  <2> QED
    BY <1>0, <1>6, <2>1, <2>2, StepType DEF StartResponse
<1>7. CASE DeferEndResponse(p)
  <2>1. Onward /\ Len(conns') = Len(conns)
    BY <1>7, NoneReplaced DEF DeferEndResponse
  <2>2. sync' \in [Prober -> 0 .. Len(conns)] /\ pc' = [pc EXCEPT ![p] = "answer"]
    BY <1>0, <1>7 DEF DeferEndResponse
  <2> QED
    BY <1>0, <1>7, <2>1, <2>2, StepType DEF DeferEndResponse
<1>8. CASE AnswerRead(p)
  <2>1. PICK code \in Code :
          /\ ReadResponse(p, code)
          /\ \E timed \in {"OK", "WARN", "CRIT"} : report' = [report EXCEPT ![p] =
               [state |-> IF code = "expected" THEN timed ELSE "CRIT", err |-> FALSE]]
    BY <1>8 DEF AnswerRead
  <2>2. /\ Onward /\ Len(conns') = Len(conns)
        /\ heard' \in [Prober -> SUBSET [host : Prober, code : Code]]
    BY <1>8, <2>1, ReadEffect DEF AnswerRead
  <2>3. on' \in [Prober -> 0 .. Len(conns)] /\ pc' = [pc EXCEPT ![p] = "end"]
    BY <1>0, <1>8 DEF AnswerRead, Returns, Nil
  <2>4. report' \in [Prober -> [state : State, err : BOOLEAN]]
    BY <1>0, <2>1 DEF State
  <2> QED
    BY <1>0, <1>8, <2>2, <2>3, <2>4, StepType DEF AnswerRead
<1>9. CASE AnswerFails(p)
  <2>1. Onward /\ Len(conns') = Len(conns)
    BY <1>9, NoneReplaced DEF AnswerFails
  <2>2. on' \in [Prober -> 0 .. Len(conns)] /\ pc' = [pc EXCEPT ![p] = "end"]
    BY <1>0, <1>9 DEF AnswerFails, Returns, Nil
  <2>3. report' \in [Prober -> [state : State, err : BOOLEAN]]
    BY <1>0, <1>9 DEF AnswerFails, FailedCmd, State
  <2> QED
    BY <1>0, <1>9, <2>1, <2>2, <2>3, StepType DEF AnswerFails
<1>10. CASE CmdSent(p)
  <2>1. Onward /\ Len(conns') = Len(conns)
    BY <1>10, CmdEffect
  <2>2. on' \in [Prober -> 0 .. Len(conns)] /\ pc' = [pc EXCEPT ![p] = "start"]
    BY <1>0, <1>10 DEF CmdSent, Returns, Nil
  <2>3. conns[on[p]].next \in Nat
    BY <1>10, OnAndSync, Fields DEF CmdSent
  <2>4. id' \in [Prober -> Nat]
    BY <1>0, <1>10, <2>3 DEF CmdSent
  <2> QED
    BY <1>0, <1>10, <2>1, <2>2, <2>4, StepType DEF CmdSent
<1>11. CASE CmdFails(p)
  <2>1. Onward /\ Len(conns') = Len(conns)
    BY <1>11, CmdEffect
  <2>2. on' \in [Prober -> 0 .. Len(conns)] /\ pc' = [pc EXCEPT ![p] = "close"]
    BY <1>0, <1>11 DEF CmdFails, Returns, Nil
  <2>3. report' \in [Prober -> [state : State, err : BOOLEAN]]
    BY <1>0, <1>11 DEF CmdFails, FailedCmd, State
  <2> QED
    BY <1>0, <1>11, <2>1, <2>2, <2>3, StepType DEF CmdFails
<1>12. CASE EndResponse(p)
  <2>1. Onward /\ Len(conns') = Len(conns)
    BY <1>12, EndResponseEffect DEF EndResponse, Loaded
  <2>2. sync' \in [Prober -> 0 .. Len(conns)] /\ pc' = [pc EXCEPT ![p] = "close"]
    BY <1>0, <1>12 DEF EndResponse, Nil
  <2>3. panicked' \in BOOLEAN
    BY <1>0, <1>12 DEF EndResponse
  <2> QED
    BY <1>0, <1>12, <2>1, <2>2, <2>3, StepType DEF EndResponse
<1>13. CASE Close(p)
  <2>1. Onward /\ Len(conns') = Len(conns)
    BY <1>13, CloseEffect
  <2>2. on' \in [Prober -> 0 .. Len(conns)] /\ pc' = [pc EXCEPT ![p] = "idle"]
    BY <1>0, <1>13 DEF Close, RunReturns, Nil
  <2>3. id' \in [Prober -> Nat] /\ crossed' \in [Prober -> BOOLEAN]
    BY <1>0, <1>13 DEF Close, RunReturns
  <2>4. report' \in [Prober -> [state : State, err : BOOLEAN]]
    <3> DEFINE e == report[p].err /\ (pc[p] = "close" => conns[on[p]].fate = "closed")
    <3>1. report[p] \in [state : State, err : BOOLEAN] /\ e \in BOOLEAN
      BY <1>0
    <3>2. [report[p] EXCEPT !.err = e] \in [state : State, err : BOOLEAN]
      BY <3>1
    <3>3. NoReport \in [state : State, err : BOOLEAN]
      BY DEF NoReport, State
    <3>4. report' = [report EXCEPT ![p] = IF crossed[p] THEN NoReport ELSE [report[p] EXCEPT !.err = e]]
      BY <1>13 DEF Close, RunReturns
    <3> QED
      BY <1>0, <3>2, <3>3, <3>4
  <2> QED
    BY <1>0, <1>13, <2>1, <2>2, <2>3, <2>4, StepType DEF Close
<1> QED
  BY <1>1, <1>2, <1>3, <1>4, <1>5, <1>6, <1>7, <1>8, <1>9, <1>10, <1>11, <1>12, <1>13

LEMMA DialType ==
  ASSUME TypeOK, NEW p \in Prober, Dial(p)
  PROVE  TypeOK'
<1>1. /\ Onward /\ Len(conns') = Len(conns) + 1 /\ Len(conns) \in Nat
      /\ Client(p) \in Prober \cup {Shared} /\ UNCHANGED own
  BY ConnsLength, DialEffect DEF TypeOK, Client, Dial
<1>2. \A n \in 0 .. Len(conns) : n \in 0 .. Len(conns')
  BY <1>1
<1>3. /\ text' \in [Prober \cup {Shared} -> 0 .. Len(conns')] /\ text'[Client(p)] = Len(conns) + 1
      /\ \A k \in Prober \cup {Shared} : k # Client(p) => text'[k] = text[k]
  BY <1>1, <1>2 DEF TypeOK, Dial
<1>4. on' \in [Prober -> 0 .. Len(conns')] /\ sync' \in [Prober -> 0 .. Len(conns')]
      /\ dialed' \in [Prober -> 0 .. Len(conns')]
  BY <1>1, <1>2 DEF TypeOK, Dial, Nil
<1>5. \A q \in Prober : pc'[q] \notin {"idle", "dial"} => text'[Client(q)'] # Nil
  BY <1>1, <1>3 DEF TypeOK, Client, Dial, Nil
<1>6. pc' \in [Prober -> Steps]
  BY DEF TypeOK, Dial, Steps
<1> QED
  BY <1>1, <1>3, <1>4, <1>5, <1>6 DEF TypeOK, Onward, Dial

-----------------------------------------------------------------------------
(***************************************************************************)
(* Clients and connections.                                                *)
(***************************************************************************)
(* What every step of a prober does to the calls: those of the others stay *)
(* as they are, its own go on from where they were.                        *)
LEMMA Calls ==
  ASSUME TypeOK, Loaded, NEW p \in Prober, RunCall(p) \/ Run(p)
  PROVE  /\ UNCHANGED own
         /\ \A q \in Prober : q # p =>
              pc'[q] = pc[q] /\ on'[q] = on[q] /\ sync'[q] = sync[q] /\ id'[q] = id[q]
              /\ report'[q] = report[q]
         /\ on'[p] # Nil => on'[p] = text[Client(p)] \/ on'[p] = on[p]
         /\ on'[p] # Nil => pc'[p] \in Calling
         /\ sync'[p] # Nil => sync'[p] = text[Client(p)] \/ sync'[p] = sync[p]
         /\ pc'[p] \in {"answer", "end"} => sync'[p] # Nil
         /\ pc'[p] # "idle" /\ pc[p] = "idle" => RunCall(p)
<1> USE DEF Nil, Calling
<1>0. /\ on[p] # Nil => pc[p] \in Calling
      /\ pc[p] \in {"answer", "end"} => sync[p] # Nil
      /\ pc[p] \notin {"idle", "dial"} => text[Client(p)] # Nil
      /\ pc \in [Prober -> Steps] /\ on \in [Prober -> 0 .. Len(conns)]
      /\ sync \in [Prober -> 0 .. Len(conns)] /\ id \in [Prober -> Nat]
      /\ report \in [Prober -> [state : State, err : BOOLEAN]]
  BY DEF TypeOK, Loaded
<1> HIDE DEF TypeOK, Loaded
<1>1. CASE RunCall(p)
  BY <1>0, <1>1 DEF RunCall
<1>2. CASE Load(p)
  BY <1>0, <1>2 DEF Load
<1>3. CASE Dial(p)
  BY <1>0, <1>3 DEF Dial
<1>4. CASE DialFails(p)
  BY <1>0, <1>4 DEF DialFails, RunReturns
<1>5. CASE GreetingReady(p)
  BY <1>0, <1>5 DEF GreetingReady, Returns
<1>6. CASE GreetingFails(p)
  BY <1>0, <1>6 DEF GreetingFails, Returns
<1>7. CASE CmdSent(p)
  BY <1>0, <1>7 DEF CmdSent, Returns
<1>8. CASE CmdFails(p)
  BY <1>0, <1>8 DEF CmdFails, Returns
<1>9. CASE StartResponse(p)
  BY <1>0, <1>9 DEF StartResponse, Returns
<1>10. CASE DeferEndResponse(p)
  BY <1>0, <1>10 DEF DeferEndResponse
<1>11. CASE AnswerRead(p)
  <2>1. PICK r \in {report'[p]} : report' = [report EXCEPT ![p] = r]
    BY <1>0, <1>11 DEF AnswerRead
  <2> QED
    BY <1>0, <1>11, <2>1 DEF AnswerRead, Returns
<1>12. CASE AnswerFails(p)
  BY <1>0, <1>12 DEF AnswerFails, Returns
<1>13. CASE EndResponse(p)
  BY <1>0, <1>13 DEF EndResponse
<1>14. CASE Close(p)
  BY <1>0, <1>14 DEF Close, RunReturns
<1> QED
  BY <1>1, <1>2, <1>3, <1>4, <1>5, <1>6, <1>7, <1>8, <1>9, <1>10, <1>11, <1>12, <1>13, <1>14
  DEF Run, Connect, Cmd

(* The two sorts of step, and what both do to the connections.             *)
LEMMA ProberType ==
  ASSUME TypeOK, Loaded, NEW p \in Prober, RunCall(p) \/ Run(p)
  PROVE  TypeOK' /\ Onward
BY StepsType, DialType, DialEffect DEF Run, Connect, Cmd

LEMMA HostsEffect ==
  ASSUME TypeOK, NEW c \in 1 .. Len(conns), Host(c) \/ DeadlinePasses(c)
  PROVE  /\ TypeOK' /\ Onward /\ TurnsKept
         /\ UNCHANGED <<own, text, pc, localVars, panicked, crossed>>
<1>1. Onward /\ TurnsKept
  BY HostRepliesEffect, FateEffect DEF Host
<1>2. UNCHANGED <<own, text, pc, localVars, panicked, crossed>>
  BY DEF Host, HostReplies, HostHangsUp, DeadlinePasses
<1> QED
  BY <1>1, <1>2, HostsType

LEMMA LoadedStep ==
  ASSUME TypeOK, Loaded, NEW p \in Prober, RunCall(p) \/ Run(p)
  PROVE  Loaded'
BY Calls DEF Loaded

LEMMA OwnedStep ==
  ASSUME TypeOK, Loaded, Owned, NEW p \in Prober, RunCall(p) \/ Run(p)
  PROVE  Owned'
<1>1. Onward /\ UNCHANGED own /\ Client(p) \in Clients
  BY ProberType, Calls DEF Client, Clients
<1>2. \A d \in 1 .. Len(conns) : conns'[d].host = conns[d].host
  BY <1>1 DEF Onward
<1>3. /\ \A k \in Clients : text[k] # Nil => text[k] \in 1 .. Len(conns)
      /\ \A q \in Prober : /\ on[q] # Nil => on[q] \in 1 .. Len(conns)
                           /\ sync[q] # Nil => sync[q] \in 1 .. Len(conns)
  BY ConnsLength DEF TypeOK, Clients, Nil
<1>4. ASSUME NEW k \in Clients, text'[k] # Nil
      PROVE  Client(conns'[text'[k]].host) = k
  <2>1. CASE text'[k] = text[k]
    BY <1>2, <1>3, <1>4, <2>1 DEF Owned
  <2>2. CASE Dial(p) /\ k = Client(p)
    <3>1. text'[k] = Len(conns) + 1 /\ conns'[Len(conns) + 1].host = p
      BY <2>2, DialEffect DEF Dial, NewConn, TypeOK, Clients
    <3> QED
      BY <2>2, <3>1
  <2>3. Dial(p) /\ k # Client(p) => text'[k] = text[k]
    BY <1>1 DEF Dial, TypeOK, Clients
  <2>4. ~Dial(p) => text' = text
    BY DEF RunCall, Run, Connect, Cmd, Load, DialFails, GreetingReady, GreetingFails, CmdSent,
           CmdFails, StartResponse, DeferEndResponse, AnswerRead, AnswerFails, EndResponse, Close
  <2> QED
    BY <2>1, <2>2, <2>3, <2>4
<1>5. ASSUME NEW q \in Prober, on'[q] # Nil
      PROVE  Client(conns'[on'[q]].host) = Client(q)
  <2>1. on'[q] = on[q] \/ (q = p /\ on'[q] = text[Client(p)])
    BY <1>5, Calls
  <2> QED
    BY <1>1, <1>2, <1>3, <1>5, <2>1 DEF Owned
<1>6. ASSUME NEW q \in Prober, sync'[q] # Nil
      PROVE  Client(conns'[sync'[q]].host) = Client(q)
  <2>1. sync'[q] = sync[q] \/ (q = p /\ sync'[q] = text[Client(p)])
    BY <1>6, Calls
  <2> QED
    BY <1>1, <1>2, <1>3, <1>6, <2>1 DEF Owned
<1> QED
  BY <1>1, <1>4, <1>5, <1>6 DEF Owned, Client, Clients

-----------------------------------------------------------------------------
(***************************************************************************)
(* Runs that cross.                                                        *)
(***************************************************************************)
(* What a step within a run does to the histories.                         *)
LEMMA History ==
  ASSUME TypeOK, NEW p \in Prober, Run(p)
  PROVE  /\ \A q \in Prober : q # p =>
              crossed'[q] = crossed[q] /\ dialed'[q] = dialed[q] /\ heard'[q] = heard[q]
         /\ crossed'[p] = IF pc'[p] = "idle" THEN FALSE ELSE crossed[p]
         /\ crossed[p] => dialed'[p] \in {Nil, dialed[p]} /\ heard'[p] = heard[p]
         /\ pc[p] # "idle"
<1>0. /\ pc \in [Prober -> Steps] /\ crossed \in [Prober -> BOOLEAN]
      /\ dialed \in [Prober -> 0 .. Len(conns)]
      /\ heard \in [Prober -> SUBSET [host : Prober, code : Code]]
  BY DEF TypeOK
<1>1. CASE Load(p)
  BY <1>0, <1>1 DEF Load
<1>2. CASE Dial(p)
  BY <1>0, <1>2 DEF Dial
<1>3. CASE DialFails(p)
  BY <1>0, <1>3 DEF DialFails, RunReturns
<1>4. CASE Close(p)
  BY <1>0, <1>4 DEF Close, RunReturns
<1>5. CASE GreetingReady(p)
  BY <1>0, <1>5 DEF GreetingReady, Returns, ReadResponse
<1>6. CASE GreetingFails(p)
  <2>1. CASE \E code \in Code : ReadResponse(p, code)
    BY <1>0, <1>6, <2>1 DEF GreetingFails, Returns, ReadResponse
  <2>2. CASE UNCHANGED heard
    BY <1>0, <1>6, <2>2 DEF GreetingFails, Returns
  <2> QED
    BY <1>6, <2>1, <2>2 DEF GreetingFails
<1>7. CASE AnswerRead(p)
  <2>1. PICK code \in Code : ReadResponse(p, code)
    BY <1>7 DEF AnswerRead
  <2>2. /\ \A q \in Prober : q # p => heard'[q] = heard[q]
        /\ crossed[p] => heard'[p] = heard[p]
    BY <1>0, <2>1 DEF ReadResponse
  <2> QED
    BY <1>0, <1>7, <2>2 DEF AnswerRead, Returns
<1>8. CASE CmdSent(p)
  BY <1>0, <1>8 DEF CmdSent, Returns
<1>9. CASE CmdFails(p)
  BY <1>0, <1>9 DEF CmdFails, Returns
<1>10. CASE StartResponse(p)
  BY <1>0, <1>10 DEF StartResponse, Returns
<1>11. CASE DeferEndResponse(p)
  BY <1>0, <1>11 DEF DeferEndResponse
<1>12. CASE AnswerFails(p)
  BY <1>0, <1>12 DEF AnswerFails, Returns
<1>13. CASE EndResponse(p)
  BY <1>0, <1>13 DEF EndResponse
<1> QED
  BY <1>1, <1>2, <1>3, <1>4, <1>5, <1>6, <1>7, <1>8, <1>9, <1>10, <1>11, <1>12, <1>13
  DEF Run, Connect, Cmd

LEMMA RunCallHistory ==
  ASSUME TypeOK, NEW p \in Prober, RunCall(p)
  PROVE  /\ pc[p] = "idle" /\ pc'[p] = "dial"
         /\ crossed'[p] <=> Rivals(p) # {}
         /\ dialed'[p] = Nil /\ heard'[p] = {}
         /\ \A q \in Prober : q # p =>
              /\ crossed'[q] <=> crossed[q] \/ q \in Rivals(p)
              /\ dialed'[q] = IF q \in Rivals(p) THEN Nil ELSE dialed[q]
              /\ heard'[q] = IF q \in Rivals(p) THEN {} ELSE heard[q]
BY DEF TypeOK, RunCall

LEMMA CrossingStep ==
  ASSUME TypeOK, Loaded, Crossing, NEW p \in Prober, RunCall(p) \/ Run(p)
  PROVE  Crossing'
<1>0. \A q \in Prober : Client(q)' = Client(q) /\ (q # p => pc'[q] = pc[q])
  BY Calls DEF Client
<1>1. CASE RunCall(p)
  <2>1. ASSUME NEW q \in Prober, NEW r \in Prober, q # r, Client(q) = Client(r),
               pc'[q] # "idle", pc'[r] # "idle"
        PROVE  crossed'[q]
    <3>1. CASE q = p
      <4>1. r \in Rivals(p)
        BY <1>0, <2>1, <3>1 DEF Rivals
      <4> QED
        BY <1>1, <3>1, <4>1, RunCallHistory
    <3>2. CASE r = p
      <4>1. q \in Rivals(p)
        BY <1>0, <2>1, <3>2 DEF Rivals
      <4> QED
        BY <1>1, <2>1, <3>2, <4>1, RunCallHistory
    <3>3. CASE q # p /\ r # p
      BY <1>0, <1>1, <2>1, <3>3, RunCallHistory DEF Crossing
    <3> QED
      BY <3>1, <3>2, <3>3
  <2>2. ASSUME NEW q \in Prober, crossed'[q]
        PROVE  pc'[q] # "idle" /\ dialed'[q] = Nil /\ heard'[q] = {}
    <3>1. CASE q = p
      BY <1>1, <3>1, RunCallHistory
    <3>2. CASE q # p /\ q \in Rivals(p)
      BY <1>0, <1>1, <3>2, RunCallHistory DEF Rivals
    <3>3. CASE q # p /\ q \notin Rivals(p)
      BY <1>0, <1>1, <2>2, <3>3, RunCallHistory DEF Crossing
    <3> QED
      BY <3>1, <3>2, <3>3
  <2> QED
    BY <1>0, <2>1, <2>2 DEF Crossing
<1>2. CASE Run(p)
  <2>1. ASSUME NEW q \in Prober, NEW r \in Prober, q # r, Client(q) = Client(r),
               pc'[q] # "idle", pc'[r] # "idle"
        PROVE  crossed'[q]
    <3>1. pc[q] # "idle" /\ pc[r] # "idle"
      BY <1>0, <1>2, <2>1, History
    <3>2. crossed[q]
      BY <2>1, <3>1 DEF Crossing
    <3> QED
      BY <1>2, <2>1, <3>2, History
  <2>2. ASSUME NEW q \in Prober, crossed'[q]
        PROVE  pc'[q] # "idle" /\ dialed'[q] = Nil /\ heard'[q] = {}
    <3>1. CASE q = p
      BY <1>2, <2>2, <3>1, History DEF Crossing
    <3>2. CASE q # p
      BY <1>0, <1>2, <2>2, <3>2, History DEF Crossing
    <3> QED
      BY <3>1, <3>2
  <2> QED
    BY <1>0, <2>1, <2>2 DEF Crossing
<1> QED
  BY <1>1, <1>2

-----------------------------------------------------------------------------
(***************************************************************************)
(* Runs that are not crossed.                                              *)
(***************************************************************************)
Sound(p) == Alone(p) /\ Hears(p) /\ Tidy(p)

(* Such a run is not affected by the steps of others.                      *)
LEMMA StaysPut ==
  ASSUME TypeOK, Onward, NEW p \in Prober, Sound(p), UNCHANGED own,
         pc'[p] = pc[p], on'[p] = on[p], id'[p] = id[p], sync'[p] = sync[p],
         report'[p] = report[p], dialed'[p] = dialed[p], heard'[p] = heard[p],
         pc[p] \notin {"idle", "dial"} => text'[Client(p)] = text[Client(p)],
         pc[p] \in {"defer", "answer", "end"} => conns'[dialed[p]].turn = conns[dialed[p]].turn
  PROVE  Sound(p)'
<1>1. dialed[p] # Nil => conns'[dialed[p]].host = conns[dialed[p]].host
                         /\ (conns[dialed[p]].fate = "closed" => conns'[dialed[p]].fate = "closed")
  BY OnAndSync DEF Onward
<1>2. Client(p)' = Client(p) /\ Codes(p)' = Codes(p)
  BY DEF Client, Codes
<1>3. Alone(p)'
  BY <1>1, <1>2 DEF Sound, Alone, Nil
<1>4. Hears(p)'
  BY <1>2 DEF Sound, Hears
<1>5. Tidy(p)'
  BY <1>1 DEF Sound, Tidy, Nil
<1> QED
  BY <1>3, <1>4, <1>5 DEF Sound

(* A run that is not crossed has its client for itself.                    *)
LEMMA NoCompany ==
  ASSUME Crossing, NEW p \in Prober, NEW q \in Prober, p # q, ~crossed[p],
         pc[p] # "idle", pc[q] # "idle"
  PROVE  Client(p) # Client(q)
BY DEF Crossing

LEMMA OtherSound ==
  ASSUME TypeOK, Loaded, Owned, Crossing, Uncrossed,
         NEW p \in Prober, RunCall(p) \/ Run(p),
         NEW q \in Prober, q # p, ~crossed'[q]
  PROVE  Sound(q)'
<1>1. /\ TypeOK' /\ Onward /\ UNCHANGED own
      /\ pc'[q] = pc[q] /\ on'[q] = on[q] /\ sync'[q] = sync[q] /\ id'[q] = id[q]
      /\ report'[q] = report[q]
  BY Calls, ProberType
<1>2. ~crossed[q] /\ dialed'[q] = dialed[q] /\ heard'[q] = heard[q]
  <2>1. CASE RunCall(p)
    BY <2>1, RunCallHistory
  <2>2. CASE Run(p)
    BY <2>2, History
  <2> QED
    BY <2>1, <2>2
<1>3. Sound(q)
  BY <1>2 DEF Uncrossed, Sound
<1>4. pc[q] # "idle" /\ pc[p] # "idle" => Client(p) # Client(q)
  BY <1>2, NoCompany
<1>5. ASSUME pc[q] \notin {"idle", "dial"}
      PROVE  text'[Client(q)] = text[Client(q)]
  <2>1. CASE Dial(p)
    <3>1. Client(p) # Client(q) /\ Client(q) \in Prober \cup {Shared}
      BY <1>4, <1>5, <2>1 DEF Dial, Client
    <3> QED
      BY <2>1, <3>1 DEF Dial, TypeOK
  <2>2. ~Dial(p) => text' = text
    BY DEF RunCall, Run, Connect, Cmd, Load, DialFails, GreetingReady, GreetingFails, CmdSent,
           CmdFails, StartResponse, DeferEndResponse, AnswerRead, AnswerFails, EndResponse, Close
  <2> QED
    BY <2>1, <2>2
<1>6. ASSUME pc[q] \in {"defer", "answer", "end"}
      PROVE  conns'[dialed[q]].turn = conns[dialed[q]].turn
  <2>1. dialed[q] \in 1 .. Len(conns) /\ conns[dialed[q]].host = q
    BY <1>3, <1>6, OnAndSync DEF Sound, Alone
  <2>2. CASE EndResponse(p)
    <3>1. sync[p] # Nil /\ Client(conns[sync[p]].host) = Client(p)
      BY <2>2 DEF EndResponse, Loaded, Owned
    <3>2. sync[p] # dialed[q]
      BY <1>4, <1>6, <2>1, <2>2, <3>1 DEF EndResponse
    <3> QED
      BY <2>1, <2>2, <3>1, <3>2, EndResponseEffect
  <2>3. CASE ~EndResponse(p)
    <3>1. TurnsKept
      <4>1. CASE UNCHANGED conns
        BY <4>1, NoneReplaced
      <4>2. CASE \E code \in Code : ReadResponse(p, code) /\ on[p] # Nil
        BY <4>2, ReadEffect
      <4>3. CASE Dial(p) \/ CmdSent(p) \/ CmdFails(p) \/ Close(p)
        BY <4>3, DialEffect, CmdEffect, CloseEffect
      <4> QED
        BY <2>3, <4>1, <4>2, <4>3
        DEF RunCall, Run, Connect, Cmd, Load, DialFails, GreetingReady, GreetingFails,
            StartResponse, DeferEndResponse, AnswerRead, AnswerFails, Code
    <3> QED
      BY <2>1, <3>1 DEF TurnsKept
  <2> QED
    BY <2>2, <2>3
<1> QED
  BY <1>1, <1>2, <1>3, <1>5, <1>6, StaysPut

(* The first step of a run, and the two that end one.                      *)
LEMMA BeginsSound ==
  ASSUME TypeOK, Loaded, NEW p \in Prober, RunCall(p)
  PROVE  Sound(p)'
<1>1. /\ pc'[p] = "dial" /\ dialed'[p] = Nil /\ heard'[p] = {}
      /\ report'[p] = NoReport /\ on'[p] = Nil
  BY RunCallHistory DEF RunCall, TypeOK, Loaded, Calling
<1>2. Alone(p)'
  BY <1>1 DEF Alone
<1>3. Hears(p)'
  BY <1>1 DEF Hears, NoReport
<1>4. Tidy(p)'
  BY <1>1 DEF Tidy
<1> QED
  BY <1>2, <1>3, <1>4 DEF Sound

LEMMA EndsSound ==
  ASSUME TypeOK, Loaded, Crossing, Uncrossed, NEW p \in Prober, DialFails(p) \/ Close(p)
  PROVE  Sound(p)'
<1>1. /\ pc'[p] = "idle" /\ on'[p] = Nil /\ dialed' = dialed /\ heard' = heard /\ Onward
  <2>1. CASE DialFails(p)
    BY <2>1, StepsType DEF DialFails, RunReturns, TypeOK, Loaded, Calling
  <2>2. CASE Close(p)
    BY <2>2, StepsType DEF Close, RunReturns, TypeOK
  <2> QED
    BY <2>1, <2>2
<1>2. CASE crossed[p]
  <2>1. dialed'[p] = Nil /\ heard'[p] = {} /\ report'[p] = NoReport
    <3>1. report'[p] = NoReport
      BY <1>2 DEF DialFails, Close, RunReturns, TypeOK
    <3> QED
      BY <1>1, <1>2, <3>1 DEF Crossing
  <2>2. Alone(p)'
    BY <1>1, <2>1 DEF Alone
  <2>3. Hears(p)'
    BY <1>1, <2>1 DEF Hears, NoReport
  <2>4. Tidy(p)'
    BY <2>1 DEF Tidy
  <2> QED
    BY <2>2, <2>3, <2>4 DEF Sound
<1>3. CASE ~crossed[p]
  <2>1. Sound(p) /\ Codes(p)' = Codes(p)
    BY <1>1, <1>3 DEF Uncrossed, Sound, Codes
  <2>2. dialed[p] # Nil => conns'[dialed[p]].host = conns[dialed[p]].host
    BY <1>1, OnAndSync DEF Onward
  <2>3. Alone(p)'
    BY <1>1, <2>1, <2>2 DEF Sound, Alone
  <2>4. report'[p].state = "OK" => report[p].state = "OK"
    <3>1. CASE DialFails(p)
      BY <1>3, <3>1 DEF DialFails, RunReturns, TypeOK
    <3>2. CASE Close(p)
      <4> DEFINE e == report[p].err /\ (pc[p] = "close" => conns[on[p]].fate = "closed")
      <4>1. report' = [report EXCEPT ![p] = IF crossed[p] THEN NoReport ELSE [report[p] EXCEPT !.err = e]]
        BY <3>2 DEF Close, RunReturns
      <4> HIDE DEF e
      <4>2. report'[p] = [report[p] EXCEPT !.err = e] /\ report[p] \in [state : State, err : BOOLEAN]
        BY <1>3, <4>1 DEF TypeOK
      <4> QED
        BY <4>2
    <3> QED
      BY <3>1, <3>2
  <2>5. Hears(p)'
    BY <1>1, <2>1, <2>4 DEF Sound, Hears
  <2>6. Tidy(p)'
    <3>1. CASE DialFails(p)
      BY <1>1, <2>1, <3>1 DEF DialFails, Sound, Alone, Tidy
    <3>2. CASE Close(p)
      <4>1. on[p] = dialed[p] /\ conns'[on[p]].fate = "closed"
        BY <2>1, <3>2, CloseEffect DEF Close, Sound, Alone
      <4> QED
        BY <1>1, <4>1 DEF Tidy
    <3> QED
      BY <3>1, <3>2
  <2> QED
    BY <2>3, <2>5, <2>6 DEF Sound
<1> QED
  BY <1>2, <1>3

(* The other steps of a run that is not crossed.                           *)
LEMMA CodesHeard ==
  ASSUME NEW p \in Prober, NEW h, NEW c, heard'[p] = heard[p] \cup {[host |-> h, code |-> c]}
  PROVE  Codes(p)' = Codes(p) \cup {c}
<1>1. Codes(p)' = {r.code : r \in heard[p] \cup {[host |-> h, code |-> c]}}
  BY DEF Codes
<1>2. [host |-> h, code |-> c].code = c
  OBVIOUS
<1>3. {r.code : r \in heard[p] \cup {[host |-> h, code |-> c]}} = {r.code : r \in heard[p]} \cup {c}
  BY <1>2, Zenon
<1> QED
  BY <1>1, <1>3 DEF Codes

LEMMA DialSound ==
  ASSUME TypeOK, Loaded, NEW p \in Prober, Sound(p), ~crossed[p], Dial(p)
  PROVE  Sound(p)'
<1>1. /\ pc[p] = "dial" /\ pc'[p] = "greeting" /\ on'[p] = Nil /\ Len(conns) \in Nat
      /\ dialed'[p] = Len(conns) + 1 /\ report' = report /\ heard' = heard /\ own' = own
      /\ Client(p) \in Prober \cup {Shared} /\ text'[Client(p)] = Len(conns) + 1
  BY ConnsLength DEF Dial, TypeOK, Loaded, Calling, Client
<1>2. conns'[Len(conns) + 1].host = p
  <2>1. NewConn(p).host = p
    BY DEF NewConn
  <2> QED
    BY <2>1, DialEffect
<1>3. Alone(p)'
  BY <1>1, <1>2 DEF Alone, Client, Nil
<1>4. Hears(p)'
  BY <1>1 DEF Sound, Hears, Codes
<1>5. Tidy(p)'
  BY <1>1 DEF Tidy
<1> QED
  BY <1>3, <1>4, <1>5 DEF Sound

LEMMA LoadSound ==
  ASSUME TypeOK, NEW p \in Prober, Sound(p), Load(p)
  PROVE  Sound(p)'
<1>1. /\ pc[p] \in Calling /\ pc' = pc /\ on'[p] = text[Client(p)]
      /\ UNCHANGED <<own, text, conns, id, sync, report, dialed, heard>>
  BY DEF Load, TypeOK, Calling
<1>2. Alone(p)'
  BY <1>1 DEF Sound, Alone, Client, Calling
<1>3. Hears(p)' /\ Tidy(p)'
  BY <1>1 DEF Sound, Hears, Tidy, Codes, Calling
<1> QED
  BY <1>2, <1>3 DEF Sound

(* What a call that returns leaves as it is.                               *)
LEMMA AloneAgain ==
  ASSUME TypeOK, Onward, NEW p \in Prober, Alone(p),
         UNCHANGED <<own, text, dialed>>, on'[p] = Nil,
         pc[p] \notin {"idle", "dial"}, pc'[p] \notin {"idle", "dial"},
         pc'[p] \in {"answer", "end"} => sync'[p] = dialed[p],
         pc'[p] \in {"defer", "answer", "end"} => TurnsKept /\ conns[dialed[p]].turn = id'[p]
  PROVE  Alone(p)' /\ Tidy(p)'
<1>1. dialed[p] \in 1 .. Len(conns) /\ dialed[p] = text[Client(p)] /\ conns[dialed[p]].host = p
  BY OnAndSync DEF Alone
<1>2. conns'[dialed[p]].host = p /\ (TurnsKept => conns'[dialed[p]].turn = conns[dialed[p]].turn)
  BY <1>1 DEF Onward, TurnsKept
<1> QED
  BY <1>1, <1>2 DEF Alone, Tidy, Client

LEMMA GreetingSound ==
  ASSUME TypeOK, NEW p \in Prober, Sound(p), ~crossed[p], GreetingReady(p) \/ GreetingFails(p)
  PROVE  Sound(p)'
<1>1. /\ pc[p] = "greeting" /\ on[p] # Nil /\ on[p] = dialed[p] /\ conns[on[p]].host = p
      /\ heard[p] = {} /\ report[p].state # "OK"
  BY DEF Sound, Alone, Hears, GreetingReady, GreetingFails
<1>2. CASE GreetingReady(p)
  <2>1. Onward /\ heard'[p] = {[host |-> p, code |-> "ready"]}
    BY <1>1, <1>2, ReadEffect DEF GreetingReady, Code
  <2>2. pc'[p] = "cmd" /\ on'[p] = Nil /\ report' = report
    BY <1>2 DEF GreetingReady, Returns, TypeOK
  <2>3. Alone(p)' /\ Tidy(p)'
    BY <1>1, <1>2, <2>1, <2>2, AloneAgain DEF Sound, GreetingReady
  <2>4. Codes(p)' = {"ready"}
    BY <2>1 DEF Codes
  <2>5. Hears(p)'
    BY <1>1, <2>1, <2>2, <2>4 DEF Hears
  <2> QED
    BY <2>3, <2>5 DEF Sound
<1>3. CASE GreetingFails(p)
  <2>1. Onward /\ \A r \in heard'[p] : r.host = p
    <3>1. CASE \E code \in Code : ReadResponse(p, code)
      <4>1. PICK code \in Code : ReadResponse(p, code)
        BY <3>1
      <4>2. Onward /\ heard'[p] = {[host |-> p, code |-> code]}
        BY <1>1, <4>1, ReadEffect
      <4> QED
        BY <4>2
    <3>2. CASE UNCHANGED <<conns, heard>>
      BY <1>1, <3>2, NoneReplaced
    <3> QED
      BY <1>3, <3>1, <3>2 DEF GreetingFails
  <2>2. pc'[p] = "notReady" /\ on'[p] = Nil /\ report'[p].state = "CRIT"
    BY <1>3 DEF GreetingFails, Returns, TypeOK
  <2>3. Alone(p)' /\ Tidy(p)'
    BY <1>1, <1>3, <2>1, <2>2, AloneAgain DEF Sound, GreetingFails
  <2>4. Hears(p)'
    BY <2>1, <2>2 DEF Hears
  <2> QED
    BY <2>3, <2>4 DEF Sound
<1> QED
  BY <1>2, <1>3

LEMMA CmdSound ==
  ASSUME TypeOK, Loaded, NEW p \in Prober, Sound(p),
         \/ CmdSent(p) \/ CmdFails(p) \/ StartResponse(p) \/ DeferEndResponse(p) \/ EndResponse(p)
  PROVE  Sound(p)'
<1>1. pc[p] \notin {"idle", "dial"} /\ heard' = heard /\ Codes(p)' = Codes(p) /\ UNCHANGED <<own, text, dialed>>
  BY DEF CmdSent, CmdFails, StartResponse, DeferEndResponse, EndResponse, Codes
<1>2. dialed[p] = text[Client(p)]
  BY <1>1 DEF Sound, Alone
<1>3. CASE CmdSent(p)
  <2>1. pc[p] = "cmd" /\ pc'[p] = "start" /\ on'[p] = Nil /\ report' = report /\ Onward
    BY <1>3, CmdEffect DEF CmdSent, Returns, TypeOK
  <2>2. Alone(p)' /\ Tidy(p)'
    BY <1>1, <2>1, AloneAgain DEF Sound
  <2>3. Hears(p)'
    BY <1>1, <2>1 DEF Sound, Hears
  <2> QED
    BY <2>2, <2>3 DEF Sound
<1>4. CASE CmdFails(p)
  <2>1. pc'[p] = "close" /\ on'[p] = Nil /\ Onward
    BY <1>4, CmdEffect DEF CmdFails, Returns, TypeOK
  <2>2. report'[p].state # "OK"
    BY <1>4 DEF CmdFails, FailedCmd, TypeOK
  <2>3. Alone(p)' /\ Tidy(p)'
    BY <1>1, <2>1, AloneAgain DEF Sound
  <2>4. Hears(p)'
    BY <1>1, <2>1, <2>2 DEF Sound, Hears
  <2> QED
    BY <2>3, <2>4 DEF Sound
<1>5. CASE StartResponse(p)
  <2>1. /\ pc[p] = "start" /\ pc'[p] = "defer" /\ on'[p] = Nil /\ report' = report
        /\ Onward /\ TurnsKept
    BY <1>5, NoneReplaced DEF StartResponse, Returns, TypeOK
  <2>2. conns[dialed[p]].turn = id'[p]
    BY <1>5 DEF StartResponse, Returns, Sound, Alone
  <2>3. Alone(p)' /\ Tidy(p)'
    BY <1>1, <2>1, <2>2, AloneAgain DEF Sound
  <2>4. Hears(p)'
    BY <1>1, <2>1 DEF Sound, Hears
  <2> QED
    BY <2>3, <2>4 DEF Sound
<1>6. CASE DeferEndResponse(p)
  <2>1. /\ pc[p] = "defer" /\ pc'[p] = "answer" /\ on'[p] = Nil /\ report' = report
        /\ sync'[p] = dialed[p] /\ id' = id /\ Onward /\ TurnsKept
    BY <1>2, <1>6, NoneReplaced DEF DeferEndResponse, TypeOK, Loaded, Calling
  <2>2. conns[dialed[p]].turn = id'[p]
    BY <2>1 DEF Sound, Alone
  <2>3. Alone(p)' /\ Tidy(p)'
    BY <1>1, <2>1, <2>2, AloneAgain DEF Sound
  <2>4. Hears(p)'
    BY <1>1, <2>1 DEF Sound, Hears
  <2> QED
    BY <2>3, <2>4 DEF Sound
<1>7. CASE EndResponse(p)
  <2>1. /\ pc[p] = "end" /\ pc'[p] = "close" /\ on'[p] = Nil /\ report' = report /\ Onward
    BY <1>7, EndResponseEffect DEF EndResponse, TypeOK, Loaded, Calling
  <2>2. Alone(p)' /\ Tidy(p)'
    BY <1>1, <2>1, AloneAgain DEF Sound
  <2>3. Hears(p)'
    BY <1>1, <2>1 DEF Sound, Hears
  <2> QED
    BY <2>2, <2>3 DEF Sound
<1> QED
  BY <1>3, <1>4, <1>5, <1>6, <1>7

LEMMA AnswerSound ==
  ASSUME TypeOK, NEW p \in Prober, Sound(p), ~crossed[p], AnswerRead(p) \/ AnswerFails(p)
  PROVE  Sound(p)'
<1>1. /\ pc[p] = "answer" /\ on[p] # Nil /\ on[p] = dialed[p] /\ conns[on[p]].host = p
      /\ \A r \in heard[p] : r.host = p
      /\ Codes(p) = {"ready"} /\ conns[dialed[p]].turn = id[p] /\ sync[p] = dialed[p]
  BY DEF Sound, Alone, Hears, AnswerRead, AnswerFails
<1>2. pc'[p] = "end" /\ on'[p] = Nil /\ UNCHANGED <<own, text, dialed, id, sync>>
  BY DEF AnswerRead, AnswerFails, Returns, TypeOK
<1>3. Onward /\ TurnsKept
  <2>1. CASE \E code \in Code : ReadResponse(p, code)
    BY <1>1, <2>1, ReadEffect
  <2>2. CASE UNCHANGED conns
    BY <2>2, NoneReplaced
  <2> QED
    BY <2>1, <2>2 DEF AnswerRead, AnswerFails
<1>4. Alone(p)' /\ Tidy(p)'
  BY <1>1, <1>2, <1>3, AloneAgain DEF Sound
<1>5. CASE AnswerRead(p)
  <2>1. PICK code \in Code :
          /\ ReadResponse(p, code)
          /\ \E timed \in {"OK", "WARN", "CRIT"} : report' = [report EXCEPT ![p] =
               [state |-> IF code = "expected" THEN timed ELSE "CRIT", err |-> FALSE]]
    BY <1>5 DEF AnswerRead
  <2>2. heard'[p] = heard[p] \cup {[host |-> p, code |-> code]}
    <3>1. heard'[p] = heard[p] \cup {[host |-> conns[on[p]].host, code |-> code]}
      BY <1>1, <2>1, ReadEffect
    <3> QED
      BY <1>1, <3>1
  <2>3. Codes(p)' = {"ready"} \cup {code}
    BY <1>1, <2>2, CodesHeard
  <2>4. report'[p].state = "OK" => code = "expected"
    BY <2>1 DEF TypeOK
  <2>5. \A r \in heard'[p] : r.host = p
    BY <1>1, <2>2
  <2>6. Hears(p)'
    BY <1>2, <2>3, <2>4, <2>5 DEF Hears
  <2> QED
    BY <1>4, <2>6 DEF Sound
<1>6. CASE AnswerFails(p)
  <2>1. report'[p].state # "OK" /\ heard' = heard
    BY <1>6 DEF AnswerFails, FailedCmd, TypeOK
  <2>2. Hears(p)'
    BY <1>1, <1>2, <2>1 DEF Hears
  <2> QED
    BY <1>4, <2>2 DEF Sound
<1> QED
  BY <1>5, <1>6

LEMMA UncrossedStep ==
  ASSUME TypeOK, Loaded, Owned, Crossing, Uncrossed, NEW p \in Prober, RunCall(p) \/ Run(p)
  PROVE  Uncrossed'
<1>1. ASSUME NEW q \in Prober, ~crossed'[q]
      PROVE  Sound(q)'
  <2>1. CASE q # p
    BY <1>1, <2>1, OtherSound
  <2>2. CASE q = p /\ RunCall(p)
    BY <2>2, BeginsSound
  <2>3. CASE q = p /\ (DialFails(p) \/ Close(p))
    BY <2>3, EndsSound
  <2>4. CASE q = p /\ ~(RunCall(p) \/ DialFails(p) \/ Close(p))
    <3>1. crossed' = crossed /\ ~crossed[p]
      BY <1>1, <2>4
      DEF Run, Connect, Cmd, Load, Dial, GreetingReady, GreetingFails, CmdSent, CmdFails,
          StartResponse, DeferEndResponse, AnswerRead, AnswerFails, EndResponse
    <3>2. Sound(p)
      BY <3>1 DEF Uncrossed, Sound
    <3> QED
      BY <2>4, <3>1, <3>2, DialSound, LoadSound, GreetingSound, CmdSound, AnswerSound
      DEF Run, Connect, Cmd
  <2> QED
    BY <2>1, <2>2, <2>3, <2>4
<1> QED
  BY <1>1 DEF Uncrossed, Sound

(* A run that ends its response out of turn is crossed.                    *)
LEMMA PanicStep ==
  ASSUME TypeOK, Loaded, Crossing, Uncrossed, ~panicked, NEW p \in Prober, RunCall(p) \/ Run(p)
  PROVE  PanicIsCrossed'
<1> SUFFICES ASSUME panicked'
             PROVE  \E q \in Prober : crossed'[q]
  BY DEF PanicIsCrossed
<1>1. EndResponse(p)
  BY DEF RunCall, Run, Connect, Cmd, Load, Dial, DialFails, GreetingReady, GreetingFails, CmdSent,
         CmdFails, StartResponse, DeferEndResponse, AnswerRead, AnswerFails, Close
<1>2. conns[sync[p]].turn # id[p] /\ pc[p] = "end" /\ crossed' = crossed
  BY <1>1 DEF EndResponse
<1>3. ~crossed[p] => conns[sync[p]].turn = id[p]
  BY <1>2 DEF Uncrossed, Alone
<1> QED
  BY <1>2, <1>3

-----------------------------------------------------------------------------
LEMMA NextInv == IInv /\ [Next]_vars => IInv'
<1> SUFFICES ASSUME IInv, [Next]_vars PROVE IInv'
  OBVIOUS
<1> USE DEF IInv
<1>1. CASE ~panicked /\ \E p \in Prober : RunCall(p) \/ Run(p)
  BY <1>1, ProberType, LoadedStep, OwnedStep, CrossingStep, UncrossedStep, PanicStep
<1>2. ASSUME NEW c \in 1 .. Len(conns), Host(c) \/ DeadlinePasses(c)
      PROVE  IInv'
  <2>1. /\ TypeOK' /\ Onward /\ TurnsKept
        /\ UNCHANGED <<own, text, pc, localVars, panicked, crossed>>
    BY <1>2, HostsEffect
  <2>2. /\ \A q \in Prober : /\ on[q] # Nil => on[q] \in 1 .. Len(conns)
                             /\ sync[q] # Nil => sync[q] \in 1 .. Len(conns)
                             /\ dialed[q] # Nil => dialed[q] \in 1 .. Len(conns)
        /\ \A k \in Clients : text[k] # Nil => text[k] \in 1 .. Len(conns)
    BY ConnsLength DEF TypeOK, Clients, Nil
  <2>3. Loaded' /\ Crossing' /\ PanicIsCrossed'
    BY <2>1 DEF Loaded, Crossing, PanicIsCrossed, localVars, Client
  <2>4. Owned'
    BY <2>1, <2>2 DEF Owned, Onward, localVars, Client, Clients
  <2>5. ASSUME NEW q \in Prober, ~crossed[q]
        PROVE  Sound(q)'
    <3>1. Sound(q)
      BY <2>5 DEF Uncrossed, Sound
    <3>2. pc[q] \in {"defer", "answer", "end"} => conns'[dialed[q]].turn = conns[dialed[q]].turn
      BY <2>1, <2>2, <3>1 DEF TurnsKept, Sound, Alone
    <3> QED
      BY <2>1, <3>1, <3>2, StaysPut DEF localVars
  <2>6. Uncrossed'
    BY <2>1, <2>5 DEF Uncrossed, Sound
  <2> QED
    BY <2>1, <2>3, <2>4, <2>6
<1>3. CASE UNCHANGED vars
  <2>1. UNCHANGED <<own, text, conns, pc, on, id, sync, report, panicked, crossed, dialed, heard>>
    BY <1>3 DEF vars, localVars
  <2>2. TypeOK' /\ Loaded' /\ Owned' /\ Crossing'
    BY <2>1 DEF TypeOK, Loaded, Owned, Crossing, Client
  <2>3. Uncrossed' /\ PanicIsCrossed'
    BY <2>1 DEF Uncrossed, Alone, Hears, Tidy, PanicIsCrossed, Client, Codes
  <2> QED
    BY <2>2, <2>3
<1> QED
  BY <1>1, <1>2, <1>3 DEF Next, Ended

LEMMA Invariance == Spec => []IInv
BY InitInv, NextInv, PTL DEF Spec

(* Every variable keeps its type, and t.text is not nil where it is used.  *)
THEOREM Typing == Spec => []TypeOK
<1>1. IInv => TypeOK
  BY DEF IInv
<1> QED
  BY <1>1, Invariance, PTL

(* A run that has its client for itself is sound, and only runs that share *)
(* one can make the process panic: however many checks use DefaultClient.  *)
THEOREM Soundness == Spec => []UncrossedIsSound
<1>1. IInv => UncrossedIsSound
  BY DEF IInv, Uncrossed, Hears, Tidy, Codes, PanicIsCrossed, UncrossedIsSound
<1> QED
  BY <1>1, Invariance, PTL
=============================================================================
