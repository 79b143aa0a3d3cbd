SPECIFICATION FairSpec
CONSTANTS
  c1 = c1
  c2 = c2
  c3 = c3
  create = create
  dismiss = dismiss
  i1 = i1
  i2 = i2
  i3 = i3
  h = h
  p1 = p1
  None = None
  Call = {c1, c2, c3}
  ActionType = {create, dismiss}
  ActionOf <- MCActionOf
  MAX_ACTION_ATTEMPTS = 3
  Client = c1
  MaxCrash = 3
  Processor = {p1}
  Item = {i1, i2, i3}
  HashOf <- MCHashOf
  MAX_INGEST_ATTEMPTS = 2
  MaxRuns = 3
  MaxDocument = 3
  MaxFaults = 1
INVARIANTS
  SameAnswer
  OneThreadPerKey
  OneDocument
  ProcessedIsComplete
PROPERTIES
  KeySettles
  ItemSettles
CHECK_DEADLOCK FALSE
