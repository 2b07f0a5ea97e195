SPECIFICATION RowsSpec
CONSTANTS
  Processes = {p1, p2}
  Builds <- MCBuilds
  MaxRows = 1
  Messages <- MCMessages
  Sends <- MCSends
  Here = Here
  There = There
  None = None
  PageSize = 1
  MaxCalls = 2
  MaxSwitches = 1
  MaxFeed = 2
INVARIANT StepsFit
 
INVARIANT OneConnection
PROPERTY RowsKept
SYMMETRY Symmetry
CHECK_DEADLOCK FALSE
