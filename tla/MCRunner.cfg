CONSTANTS
  Invocations = {1, 2}
  Asked <- MCAsked
  Runs <- MCRuns
  Grids <- MCGrids
  Faithful = "faithful"
  Venue = "venue"
  Code = "code"
  Kind <- MCKind
  Shared <- MCShared
  NCells = 2
  MaxCommits = 3
  MaxEdits = 1

SPECIFICATION MCSpec

INVARIANTS
  TypeOK
  CellsBesideTheirGrid
  UncommittedIsFiledApart
  CountsAreOfAPrefix
  CellsCountOneAnother
  GridSummaryMatchesLog
  AtMostOneUncounted
  TrialsHaveTheirResults

PROPERTIES
  InvocationsEnd

CHECK_DEADLOCK FALSE
