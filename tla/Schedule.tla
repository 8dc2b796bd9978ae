------------------------------ MODULE Schedule ------------------------------
(***************************************************************************)
(* When a check is due (check/check.go: DueAt, IsDue, PeriodicSchedule),   *)
(* in ticks of which there are several to a second: a schedule counts in   *)
(* seconds, but the clock and LastCheck are finer than that, and           *)
(* time.Time.Unix rounds down.                                             *)
(***************************************************************************)
EXTENDS Integers

CONSTANTS
  Check,           \* the checks
  IntervalSeconds, \* PeriodicSchedule.IntervalSeconds of each check
  TicksPerSecond,  \* the resolution of the clock
  Never            \* the nil LastCheck of a check that never ran

ASSUME ScheduleAssumption ==
  /\ IntervalSeconds \in [Check -> Nat]
  /\ TicksPerSecond \in Nat \ {0}
  /\ Never \notin Nat

(* Unix(): the second of a time.                                           *)
Unix(t) == t \div TicksPerSecond

(* DueAt of check c whose LastCheck is lastCheck, asked at time now.       *)
DueAt(c, lastCheck, now) ==
  IF lastCheck = Never THEN now ELSE lastCheck + IntervalSeconds[c] * TicksPerSecond

IsDue(c, lastCheck, now) == DueAt(c, lastCheck, now) <= now
=============================================================================
