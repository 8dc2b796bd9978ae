------------------------------ MODULE Counter ------------------------------
(***************************************************************************)
(* snmp.CalculateCounterDiff (snmp/snmp.go), with the widths of Counter32  *)
(* and Counter64 as parameters: 32 and 64 bits in the code.                *)
(***************************************************************************)
EXTENDS Integers

CONSTANTS
  Size32,  \* how many values a Counter32 has: 2^32
  Size64   \* how many values a Counter64 has: 2^64

ASSUME CounterAssumption ==
  /\ Size32 \in Nat \ {0} /\ Size64 \in Nat \ {0}
  /\ 2 * Size32 <= Size64

MaxCounter32 == Size32 - 1
MaxCounter64 == Size64 - 1

(* Mutant: a rollover of 64 bits is taken for one of 32.                   *)
CounterDiff32(lastValue, currentValue) ==
  LET diff == currentValue - lastValue
  IN  IF diff >= 0 THEN diff ELSE diff + MaxCounter32

CalculateCounterDiff(lastValue, currentValue) ==
  LET diff == currentValue - lastValue
  IN  IF diff >= 0 THEN diff
      ELSE IF lastValue >= MaxCounter32 THEN diff + MaxCounter64
      ELSE diff + MaxCounter32
=============================================================================
