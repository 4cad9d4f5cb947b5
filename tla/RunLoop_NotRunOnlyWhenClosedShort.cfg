SPECIFICATION LoopSpec
CONSTANTS
  Dims <- MCDims
  U64Max = 15
  Tests <- MCTests
  ServiceAccounts = {"sa"}
  Footprint <- MCFootprint
  Sa <- MCSa
  Unlimited = Unlimited
  Items <- MCItems
  Retries <- MCRetries
  Configs <- MCConfigs
  Shares <- MCShares
  MaxPublished = 2
  NoCeiling = NoCeiling
INVARIANT
  NotRunOnlyWhenClosedShort
