CONSTANTS
  Pkg = {1, 2, 3}
  Top = {1}
  Sub = {}
  NoPkg = 0
  maxFailureOutputBytes = 2
  Output <- Texts
  Plain <- PlainText
  BuildFailed <- BuildText
  Fine = 1
  RoundsUp = {}
  NaN = NaN
  Path <- Paths
  Module <- M
  DefaultMaxFailures = 20
  DefaultMaxPackages = 500
  MaxFailures = 1
  MaxPackages = 1
  Configs <- OneConfig
  Requests <- FewRequests
  Outcomes = {"pass", "fail"}
  Counts <- FullOnly
SPECIFICATION Spec
INVARIANT ExcludedAbsent
CHECK_DEADLOCK FALSE
