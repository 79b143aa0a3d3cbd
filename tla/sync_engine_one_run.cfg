SPECIFICATION Spec
CONSTANTS
  Runner = {r1}
  a = a
  b = b
  Row = {a, b}
  c1 = c1
  c2 = c2
  Checkpoint = {c1, c2}
  wide = wide
  narrow = narrow
  Scope = {wide, narrow}
  None = None
  Page <- MCPage
  UnitKey <- MCUnitKey
  Covers <- MCCovers
  RunningStale = 1
  BackoffBase = 1
  BackoffMax = 2
  FailureCap = 2
  MaxClock = 4
INVARIANTS
  TypeOK
  CheckpointOnlyAfterApply
PROPERTIES
  OwnRowsSurviveReconcile
  SettledOnlyWhenReconciled
CHECK_DEADLOCK FALSE
