------------------------------ MODULE Commands ------------------------------
(***************************************************************************)
(* What the commands without state make of what they see: dns, http, ping, *)
(* junsubpool and ciscoresources (check/command).  A measured quantity     *)
(* is a record [value, warn, crit] of it and its two thresholds.           *)
(***************************************************************************)
EXTENDS Integers, Sequences

CONSTANTS
  Quantity,    \* what dns, http and ping can measure, and the use of a cpu
  Threshold,   \* the thresholds of those; some commands take 0 for none
  Full,        \* 100 percent packet loss
  Amount,      \* how many addresses, how much memory
  Percent,     \* the thresholds of their use
  RoundedUp,   \* quotients <<used, total>> that big.Float rounds, to 64 bits, so
  RoundedDown  \* that 100 times them is above or below the whole number it should be

ASSUME CommandsAssumption ==
  /\ Quantity \subseteq Int /\ Threshold \subseteq Nat /\ Amount \subseteq Nat /\ Percent \subseteq Nat
  /\ \A q \in RoundedDown : q \in Nat \X (Nat \ {0}) /\ (q[1] * 100) % q[2] = 0

Measured == [value : Quantity, warn : Threshold, crit : Threshold]

Kind == {"dns", "http", "ping", "junsubpool", "ciscoresources", "snmp"}

(* The labels of the metrics of a result, in their order.                  *)
Labels(k) ==
  CASE k \in {"dns", "http"} -> <<"resp">>
    [] k = "ping"            -> <<"avg", "jitter", "loss">>
    [] k = "junsubpool"      -> <<"total_pool_usage">>
    [] k = "ciscoresources"  -> <<"cpu", "memory">>
    [] k = "snmp"            -> <<"in.octets", "errors">>

(***************************************************************************)
(* What a command can see; of dns, whether the answer has all expected     *)
(* values; of ciscoresources, whether an object is one not asked for.      *)
(***************************************************************************)
Seen(k) ==
  CASE k = "dns" ->
         [query : {"Host, TXT or PTR", "CNAME or MX"}, got : {"answer", "timeout", "error"},
          expected : {"anything", "listed", "unlisted"}, resp : Measured]
    [] k = "http" ->
         [got : {"answer", "badRequest", "deadline", "badCertificate", "error"},
          expected : BOOLEAN, resp : Measured]
    [] k = "ping" ->
         [got : {"stats", "error"}, loss : Measured, rtt : Measured, jitter : Measured]
    [] k = "junsubpool" ->
         [got : {"objects", "error"}, total : Amount, used : Amount, warn : Percent, crit : Percent]
    [] k = "ciscoresources" ->
         [got : {"objects", "foreign", "notThree", "error"}, cpu : Measured,
          used : Amount, free : Amount, warn : Percent, crit : Percent]
    [] k = "snmp" -> [got : {"objects", "error"}, state : {"OK", "WARN", "CRIT"}]

Over(m) == IF m.value > m.crit THEN "CRIT" ELSE IF m.value > m.warn THEN "WARN" ELSE "OK"

(* The thresholds of a round-trip time and of its deviation count only if  *)
(* they are set.                                                           *)
OverIfSet(m) ==
  IF m.crit > 0 /\ m.value > m.crit THEN "CRIT"
  ELSE IF m.warn > 0 /\ m.value > m.warn THEN "WARN" ELSE "OK"

(* Mutant: a later level replaces an earlier one, OK included.             *)
LastLevel(levels) == levels[Len(levels)]

(* The first of several levels that is not OK: a chain of else-ifs.        *)
FirstNotOk(levels) ==
  LET bad == {i \in DOMAIN levels : levels[i] # "OK"}
  IN  IF bad = {} THEN "OK" ELSE levels[CHOOSE i \in bad : \A j \in bad : i <= j]

Failed(state, err) == [state |-> state, err |-> err, measured |-> FALSE]
Judged(state)      == [state |-> state, err |-> FALSE, measured |-> TRUE]

(* A result with metrics for a state, or one without when nothing came.    *)
RespOutcome(expected, resp) == Judged(IF ~expected THEN "CRIT" ELSE Over(resp))

Panic == Failed("PANIC", TRUE)

(* The entries of a CNAME or MX answer are kept only if the lookup failed. *)
Matches(s) ==
  \/ s.expected = "anything"
  \/ s.expected = "listed" /\ s.query # "CNAME or MX"

DnsOutcome(s) ==
  CASE s.got = "timeout" -> Failed("CRIT", FALSE)
    [] s.got = "error"   -> Failed("UNKNOWN", TRUE)
    [] s.got = "answer"  -> RespOutcome(Matches(s), s.resp)

HttpOutcome(s) ==
  CASE s.got \in {"deadline", "badCertificate"} -> Failed("CRIT", TRUE)
    [] s.got \in {"badRequest", "error"}        -> Failed("UNKNOWN", TRUE)
    [] s.got = "answer"                         -> RespOutcome(s.expected, s.resp)

PingLevels(s) ==
  <<IF s.loss.value = Full THEN "CRIT" ELSE Over(s.loss), OverIfSet(s.rtt), OverIfSet(s.jitter)>>

PingOutcome(s) ==
  IF s.got = "error" THEN Failed("UNKNOWN", TRUE) ELSE Judged(FirstNotOk(PingLevels(s)))

(* The percentage is used * 100 / total, both sides are doubled to make    *)
(* room for the rounding.  A pool without addresses that is in use is      *)
(* infinitely used; zero divided by zero is a panic of Quo.                *)
PoolLevel(s) ==
  Over([value |-> 200 * s.used + (IF <<s.used, s.total>> \in RoundedUp THEN 1 ELSE 0),
        warn |-> 2 * s.warn * s.total, crit |-> 2 * s.crit * s.total])

PoolOutcome(s) ==
  IF s.got = "error" THEN Failed("UNKNOWN", TRUE)
  ELSE IF s.total = 0 /\ s.used = 0 THEN Panic
  ELSE Judged(PoolLevel(s))

(* Memory in whole percent.                                                *)
MemoryPercent(s) ==
  LET total == s.used + s.free
  IN  (s.used * 100) \div total - (IF <<s.used, total>> \in RoundedDown THEN 1 ELSE 0)

CiscoLevels(s) ==
  <<Over(s.cpu), Over([value |-> MemoryPercent(s), warn |-> s.warn, crit |-> s.crit])>>

CiscoOutcome(s) ==
  IF s.got \in {"error", "notThree"} THEN Failed("UNKNOWN", TRUE)
  ELSE IF s.got = "foreign" \/ s.used + s.free = 0 THEN Panic
  ELSE Judged(FirstNotOk(CiscoLevels(s)))

Outcome(k, s) ==
  CASE k = "dns"            -> DnsOutcome(s)
    [] k = "http"           -> HttpOutcome(s)
    [] k = "ping"           -> PingOutcome(s)
    [] k = "junsubpool"     -> PoolOutcome(s)
    [] k = "ciscoresources" -> CiscoOutcome(s)
    [] k = "snmp"           -> IF s.got = "error" THEN Failed("UNKNOWN", TRUE) ELSE Judged(s.state)

-----------------------------------------------------------------------------
(***************************************************************************)
(* What a result should say, from the thresholds alone.                    *)
(***************************************************************************)
Within(m, set) == \A t \in {m.warn, m.crit} : m.value <= t \/ (set /\ t = 0)

(* Memory counts in whole percent, and one less if it is rounded down.     *)
MemoryOver(s, t) ==
  LET total == s.used + s.free
  IN  /\ s.used * 100 >= (t + 1) * total
      /\ <<s.used, total>> \in RoundedDown => s.used * 100 # (t + 1) * total

(* An answer came, as expected, with every quantity within its thresholds. *)
Healthy(k, s) ==
  CASE k = "dns"  -> s.got = "answer" /\ s.expected # "unlisted" /\ Within(s.resp, FALSE)
    [] k = "http" -> s.got = "answer" /\ s.expected /\ Within(s.resp, FALSE)
    [] k = "ping" -> /\ s.got = "stats" /\ s.loss.value # Full /\ Within(s.loss, FALSE)
                        /\ Within(s.rtt, TRUE) /\ Within(s.jitter, TRUE)
    [] k = "junsubpool" ->
         s.got = "objects" /\ s.total > 0 /\ \A t \in {s.warn, s.crit} : s.used * 100 <= t * s.total
    [] k = "ciscoresources" ->
         /\ s.got = "objects" /\ s.used + s.free > 0 /\ Within(s.cpu, FALSE)
         /\ ~MemoryOver(s, s.warn) /\ ~MemoryOver(s, s.crit)
    [] k = "snmp" -> s.got = "objects" /\ s.state = "OK"

(* Some quantity that came is over its critical threshold.                 *)
Critical(k, s) ==
  CASE k \in {"dns", "http"} -> s.got = "answer" /\ s.resp.value > s.resp.crit
    [] k = "ping" -> /\ s.got = "stats"
                        /\ \/ s.loss.value = Full \/ s.loss.value > s.loss.crit
                           \/ \E m \in {s.rtt, s.jitter} : m.crit > 0 /\ m.value > m.crit
    [] k = "junsubpool" -> s.got = "objects" /\ s.used * 100 > s.crit * s.total
    [] k = "ciscoresources" ->
         s.got = "objects" /\ (s.cpu.value > s.cpu.crit \/ MemoryOver(s, s.crit))
    [] k = "snmp" -> s.got = "objects" /\ s.state = "CRIT"

(* What is known to be reported worse than it is: a CNAME or MX answer with*)
(* any expectation, and a pool at a threshold, above which it is rounded.  *)
FalseAlarm(k, s) ==
  \/ k = "dns" /\ s.query = "CNAME or MX" /\ s.expected = "listed"
  \/ /\ k = "junsubpool" /\ <<s.used, s.total>> \in RoundedUp
     /\ \E t \in {s.warn, s.crit} : s.used * 100 = t * s.total
=============================================================================
