CONSTANTS
  c1 = c1
  c2 = c2
  c3 = c3
  e1 = e1
  e2 = e2
  NoCheck = NoCheck
  Never = Never
  Check <- MCCheck
  Enqueuer <- MCEnqueuer
  IntervalSeconds <- MCInterval
  TicksPerSecond = 2
  MaxInt64 = 99
  MaxNow = 5
SPECIFICATION Spec
INVARIANT TopNotDueNothingDue
