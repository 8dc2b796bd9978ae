CONSTANTS
  Prober = {p1, p2}
  Shared = Shared
  MaxDials = 2
SPECIFICATION FairSpec
INVARIANTS
  TypeOK
  UncrossedIsSound
PROPERTY UncrossedRunEnds
