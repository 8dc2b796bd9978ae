CONSTANTS
  Check = {c1, c2}
  SharedFile = SharedFile
  MaxNow = 2
  MaxExecutions = 3
  Quantity = {0, 1, 2}
  Threshold = {0, 1}
  Full = 2
  Amount = {0, 3, 5, 47, 53}
  Percent = {49, 50, 52, 53, 60, 100}
  RoundedUp <- MCRoundedUp
  RoundedDown <- MCRoundedDown
SYMMETRY Symmetry
SPECIFICATION Spec
INVARIANTS
  
  StoredIsReported
  
