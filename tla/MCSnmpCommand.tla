--------------------------- MODULE MCSnmpCommand ---------------------------
(* SnmpCommand with a counter of each width, four and eight values wide,   *)
(* and a gauge, for a check due every second and for one always due.       *)
EXTENDS SnmpCommand

CONSTANTS everySecond, always, c32, c64, gauge

MCCheck    == {everySecond, always}
MCInterval == [c \in MCCheck |-> IF c = everySecond THEN 1 ELSE 0]
MCMonitors == <<c32, gauge, c64>>
MCType ==
  [m \in {c32, c64, gauge} |->
     CASE m = c32 -> "Counter32" [] m = c64 -> "Counter64" [] OTHER -> "Gauge"]

MCLimits ==
  [m \in {c32, c64, gauge} |->
     IF m = gauge
     THEN [critStatus |-> {7}, warnStatus |-> {}, critMin |-> NoLimit, warnMin |-> 0,
           critMax |-> 5, warnMax |-> NoLimit]
     ELSE [critStatus |-> {}, warnStatus |-> {}, critMin |-> NoLimit, warnMin |-> NoLimit,
           critMax |-> 2, warnMax |-> 1]]

MCMaxCount == [m \in {c32, c64} |-> IF m = c32 THEN 5 ELSE 9]

(* Below warnMin, in order, above critMax and, again, a status value.      *)
MCGaugeValue == {-1, 3, 7}
=============================================================================
