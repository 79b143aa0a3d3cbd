SPECIFICATION Spec
CONSTANTS
  Runner = {r1}
  None = None
  Msg <- MCMsg
  ReceivedOn <- MCReceivedOn
  InitialBoxes <- MCBoxes
  Window = 2
  PageSize = 1
  FirstDay = 2
  LastDay = 3
  MaxLog = 2
  MaxClock = 3
CONSTRAINT MCBound
INVARIANTS
  NothingSkipped
PROPERTIES
  ReconcileSparesVisible
CHECK_DEADLOCK FALSE
