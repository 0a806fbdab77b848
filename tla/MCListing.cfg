CONSTANTS
  NSymbols = 3
  Quoted <- MCQuoted
  LastDay = 6
  DaysPerMonth = 3
  WindowStart = 0
  WindowEnd = 7
  ArchiveFloor = 1
  MaxKeys = 2
  MaxPages = 4
  Trades <- MCTrades
  MaxPublished = 2

SPECIFICATION Spec

INVARIANTS
  TypeOK
  WalkMissesNothing
  CoverageIsComplete
  NoDayIsLost

CHECK_DEADLOCK FALSE
