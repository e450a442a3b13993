CONSTANTS
  Pkg = {1, 2, 3}
  Top = {1}
  Sub = {}
  NoPkg = 0
  maxFailureOutputBytes = 2
  Output <- Texts
  Plain <- PlainText
  BuildFailed <- BuildText
  Fine = 1
  RoundsUp = {}
  NaN = NaN
  Path <- Paths
  Module <- M
  DefaultMaxFailures = 20
  DefaultMaxPackages = 500
  MaxFailures = 1
  MaxPackages = 1
  Configs <- AllConfigs
  Requests <- AllRequests
  Outcomes = {"pass", "fail", "crash", "early", "broken", "none", "chatty", "cut", "cutlate", "unstarted"}
  Counts <- SomeCounts
SPECIFICATION Spec
INVARIANTS FailureVerdictExact CoverageVerdictExact ReportMatchesRun MarkdownAccountsForAll SummaryTellsVerdict WrittenIsPrefix
CHECK_DEADLOCK FALSE
