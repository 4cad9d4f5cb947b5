SPECIFICATION FairSpec
CONSTANTS
  Nodes <- MCNodes
  Shapes <- MCShapes
  Cached <- MCCached
  Limits <- MCLimits
INVARIANTS
  ValidateExact
  FailureIsolated
  ReverseOrder
PROPERTIES
  Returns
