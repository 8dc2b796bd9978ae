CONSTANTS
  c1 = c1
  c2 = c2
  c3 = c3
  Check <- MCCheck
SPECIFICATION FairSpec
INVARIANTS
  TypeOK
  NowhereTwiceNeverLost
  FlushedMeansStored
  ExecutedTellsRan
PROPERTY ComesRound
