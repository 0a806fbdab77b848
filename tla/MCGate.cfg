CONSTANTS
  None = None
  NCells = 3
  Sharpes = {1, 3}
  Legs = {"long_short", "long_only"}
  Published <- MCPublished
  MinSpearmanTenths = 7
  LiquidationTolerance = 1
  MinSignAgreement = 2
  BestSharpe = 3
  SharpeTolerance = 1

SPECIFICATION Spec

INVARIANTS
  TypeOK
  PassNeedsEveryCell
  VerdictIgnoresTheOrder

CHECK_DEADLOCK FALSE
