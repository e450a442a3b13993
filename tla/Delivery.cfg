CONSTANTS
  Commit = {"c1", "c2"}
  Marked = {"c2"}
  Version = {"v1", "rc"}
  Stable = {"v1"}
  Tip <- Heads
  Default = "main"
  None = None
  MaxRuns = 3
  MaxRunsInstall = 2
  MaxCommits = 3
  MaxReports = 3
SPECIFICATION Spec
INVARIANTS AssetsOfOneBuild InstalledIsOneBuild ReportOfParent
PROPERTIES ClobberedByTagOnly MajorFollowsRelease ReleaseGetsAssets
CHECK_DEADLOCK FALSE
