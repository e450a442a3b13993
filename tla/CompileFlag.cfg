CONSTANTS
  Pkg = {1, 2}
  Top = {1}
  Sub = {1}
  NoPkg = 0
  maxFailureOutputBytes = 1
  MaxRuns = 2
  Output <- AllOutput
  PlainText <- None
  BuildText <- Build
  TestPrint <- BuildOnly
  PackagePrint <- BuildOnly
SPECIFICATION RunSpec
INVARIANT CompileFlagHonest
CHECK_DEADLOCK FALSE
