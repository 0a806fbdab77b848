CONSTANTS
  A = A
  B = B
  Symbols <- MCSymbols
  LastDay = 3
  HoldingDays = 2

SPECIFICATION Spec

INVARIANT TradesAtNothingAreMarked
CHECK_DEADLOCK FALSE
