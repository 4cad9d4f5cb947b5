SPECIFICATION Spec
CONSTANTS
  a = a
  b = b
  Dims <- MCDims
  U64Max = 15
  Runs <- TwoRuns
  Allocatable <- FourCpus
  Budget <- Budgets
  MinViable <- OneCpu
  Elastic = Elastic
  Prompt = TRUE
  KeepPods = FALSE
  None = None
  Scenarios <- MCScenarios
SYMMETRY Swap
INVARIANTS
  LeaseCoversRun
  PodsWithinReservation
PROPERTIES
  QuietGrowthNeverOvercommits
