CONSTANTS
  A = A
  B = B
  Symbols <- MCSymbols
  LastDay = 3
  HoldingDays = 2

SPECIFICATION FairSpec

INVARIANTS
  TypeOK
  LastPriceIsCurrent
  PositionsAccountedFor
  SelectionsFollowPlan
  ExitPricesWereReachable
  ReportedPathEndsAtLiquidation

PROPERTIES
  WalkEndsFlat

CHECK_DEADLOCK FALSE
