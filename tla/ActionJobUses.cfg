CONSTANTS
  Event = {"push", "push_branch", "workflow_dispatch", "pull_request"}
  Data = {1, 2}
  Codes = {0, 10, 21}
  Prestaged = TRUE
  SaveFaults = TRUE
  ExtractFaults = TRUE
  MaxUses = 2
  MaxPushes = 1
SPECIFICATION Spec
INVARIANTS JobVerdictExact CommittedReportsAgree CommittedMeansPushed StaleMeansError
PROPERTY CommitJustified
CHECK_DEADLOCK FALSE
