CONSTANTS
  c1 = c1
  c2 = c2
  c3 = c3
  w1 = w1
  w2 = w2
  w3 = w3
  NoCheck = NoCheck
  Check <- ThreeChecks
  Worker <- ThreeWorkers
  MaxRunningChecks = 2
SYMMETRY Symmetry
SPECIFICATION Spec
INVARIANTS
  TypeOK
  ExclusiveOwner
  SendNeverBlocks
  CountsExact
  TrackingExact
  ReturnedMeansQuiescent
  StartsAfterCancelBounded
PROPERTY ImplementsDispatch
