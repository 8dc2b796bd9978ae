CONSTANTS
  c1 = c1
  c2 = c2
  c3 = c3
  w1 = w1
  w2 = w2
  w3 = w3
  NoCheck = NoCheck
  Check <- TwoChecks
  Worker <- TwoWorkers
  MaxRunningChecks = 2
SPECIFICATION Spec
INVARIANT StopWaitsForRunning
