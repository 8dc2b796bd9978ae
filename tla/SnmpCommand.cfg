CONSTANTS
  everySecond = everySecond
  always = always
  c32 = c32
  c64 = c64
  gauge = gauge
  NoLimit = NoLimit
  Foreign = Foreign
  NoTime = NoTime
  Never = Never
  Size32 = 4
  Size64 = 8
  Check <- MCCheck
  IntervalSeconds <- MCInterval
  TicksPerSecond = 2
  Monitors <- MCMonitors
  Type <- MCType
  Limits <- MCLimits
  MaxOids = 2
  GaugeValue <- MCGaugeValue
  MaxCount <- MCMaxCount
  MaxNow = 4
SPECIFICATION Spec
INVARIANTS
  ResultIsWorst
  BaselineFromLastExecution
  
  PanicsOnlyWithoutInterval
