SPECIFICATION Spec
CONSTANTS
  Dims <- MCDims
  U64Max = 7
  Tests <- MCTests
  ServiceAccounts <- MCAccounts
  Footprint <- MCFootprint
  Sa <- MCSa
  Unlimited = Unlimited
  Ceilings <- MCCeilings
  BudgetChoices <- MCBudgets
  MaxRequests = 5
INVARIANTS
  NoQueuedFits
  CommittedIsTheSumOfLeases
PROPERTIES
  NoOverload
  NoOvertaking
