CONSTANTS
  Ids <- MCIds
  Symbols <- MCSymbols
  Tickers <- MCTickers
  LastDay = 5
  DaysPerMonth = 3
  Excluded = {}
  VenueListed = {1, 2, 3}
  Bracket = "tokocrypto"
  FloorUsd = 1
  WindowDays = 2
  Lookback = 1
  HoldingDays = 1
  QuantileNum = 1
  QuantileDen = 2
  MinUniverse = 1
  MaxStaleness = 2
  Histories <- MCHistories
  Panels <- MCPanels
  Tables <- MCTables
  BarsSeen <- MCBarsSeen
  RowsSeen <- MCRowsSeen
  MaxRestated = 1

SPECIFICATION Spec

INVARIANTS
  TypeOK
  DecisionReadsOnlyPresence
  OneAssetPerName
  SpellsLeaveNoHole
  NamesAreNeverReassigned
  TopQuantileIsSelected

CHECK_DEADLOCK FALSE
