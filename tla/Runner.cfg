CONSTANTS
  Kinds = {"output", "noise", "empty", "long"}
  MaxOut = 3
  MaxErr = 2
  OutCap = 1
  ErrCap = 1
  Codes = {0, 1}
  MayCancel = TRUE
  JsonlFaults = TRUE
  LogFaults = TRUE
SPECIFICATION FairSpec
INVARIANTS TypeOK LogNotTorn JsonlPrefix ReturnsEverything ExitCodeExact
PROPERTIES SilentAfterReturn Terminates CancelUnblocks
CHECK_DEADLOCK FALSE
