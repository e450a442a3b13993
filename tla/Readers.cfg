CONSTANTS
  Pkg = {1, 2}
  Top = {1, 2}
  Sub = {1}
  NoPkg = 0
  maxFailureOutputBytes = 4
  MaxStream = 4
  Output <- Texts
  Alphabet <- Events
  Imports = {"a", "b", "x"}
  Fine = 10
  RoundsUp = {}
  NaN = NaN
  Excluded = {"x"}
  CoverageThreshold = 66667
  PackageThreshold = 33333
  NumStmts = {0, 1, 2}
  MaxBlocks = 4
SPECIFICATION ReadersSpec
INVARIANTS ParserTypeOK FailureBookkeeping OutputExact CompileAndPanicExact
INVARIANTS CountsExact  BadgeHonest
PROPERTIES ImplementsTally GateMonotone
CHECK_DEADLOCK FALSE
