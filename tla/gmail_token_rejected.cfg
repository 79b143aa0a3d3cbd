SPECIFICATION Spec
CONSTANTS
  Runner = {r1}
  None = None
  Msg <- MCMsg
  ReceivedOn <- MCSameDay
  InitialBoxes <- MCFullBox
  Window = 1
  PageSize = 1
  FirstDay = 1
  LastDay = 3
  MaxLog = 0
  MaxClock = 3
PROPERTY ResyncSparesVisible
CHECK_DEADLOCK FALSE
