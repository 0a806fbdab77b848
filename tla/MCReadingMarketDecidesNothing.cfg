CONSTANTS
  None = None
  LastDay = 3
  Holdings = {1, 3}
  DaysPerWeek = 2
  Budget = 1
  Ceiling = 2
  Returns <- MCReturns

SPECIFICATION Spec

INVARIANT
  MarketDecidesNothing

CHECK_DEADLOCK FALSE
