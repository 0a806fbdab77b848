CONSTANTS
  None = None
  LastDay = 3
  Holdings = {1, 3}
  DaysPerWeek = 2
  Budget = 1
  Ceiling = 2
  Returns <- MCReturns

SPECIFICATION Spec

INVARIANTS
  TypeOK
  HurdleNeedsEvidence
  BtcIsHeldWithinTheRun
  SignIsOfTheCompoundedReturn

CHECK_DEADLOCK FALSE
