CONSTANTS
  Kinds = {"output", "long"}
  MaxOut = 3
  MaxErr = 0
  OutCap = 1
  ErrCap = 1
  Codes = {0, 1}
  MayCancel = FALSE
  JsonlFaults = FALSE
  LogFaults = FALSE
SPECIFICATION FairSpec
PROPERTY ResultIsReturned
CHECK_DEADLOCK FALSE
