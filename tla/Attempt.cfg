SPECIFICATION FairSpec
CONSTANTS
  HardCap = 3
  Grace = 2
INVARIANTS
  NothingOutlives
  FetchedFirst
PROPERTIES
  GraceRestarts
  Resolves
