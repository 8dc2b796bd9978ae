CONSTANTS
  c1 = c1
  c2 = c2
  w1 = w1
  w2 = w2
  NoCheck = NoCheck
  Never = Never
  MainLoop = MainLoop
  Check <- MCCheck
  Worker <- MCWorker
  IntervalSeconds <- MCInterval
  MaxRunningChecks = 1
  TicksPerSecond = 1
  MaxInt64 = 99
  MaxNow = 2
SPECIFICATION FairSpec
INVARIANTS
  ViewsAgree
  DueWhereFiled
PROPERTIES
  NeverEarly
  DueIsExecuted
  ShutdownCompletes
