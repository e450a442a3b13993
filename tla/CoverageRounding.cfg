CONSTANTS
  Imports = {"a"}
  Fine = 1
  RoundsUp <- FloatsRoundUp
  NaN = NaN
  Excluded = {}
  CoverageThreshold = 6540
  PackageThreshold = 0
  NumStmts = {692, 1308}
  MaxBlocks = 2
SPECIFICATION Spec
INVARIANT MetThresholdPasses
CHECK_DEADLOCK FALSE
