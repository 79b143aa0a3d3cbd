SPECIFICATION MCSpec
CONSTANTS
  u1 = u1
  u2 = u2
  google = google
  bank = bank
  mailbox = mailbox
  Users <- MCUsers
  AccountsOf <- MCAccountsOf
  CapabilitiesOf <- MCCapabilitiesOf
  Backlog <- MCBacklog
  NonResumable = {"bank"}
  Budget = 8
  MinBudget = 3
  MaxPageTime = 2
  MaxEvents = 2
  Runner = {r1}
  MaxGrants = 2
  MaxKills = 1
  MaxRevoked = 1
  MaxCuts = 2
  None = None
  Workers = {w1, w2}
  NItems = 3
  MAX_REFRESHES_PER_RUN = 2
  MaxHiccups = 2
  one = one
  two = two
  Values = {one, two, three, other}
  Pieces <- MCPieces
  GAP_TOLERANCE = 2
  MaxOps = 4
  Panels = {p1, p2}
  Mailboxes = {m1}
  Items = {i1}
  LINK_TIMEOUT = 1
  LINK_STATE_TTL = 2
  MaxTime = 2
  MaxAttempts = 2
  MaxChanges = 1
INVARIANTS
  RelinkReactivates
  DisconnectDropsSecret
  BudgetRespected
  OnlyRevokedParks
  RefreshesWithTheLatest
  RefusalIsReported
  ConnectedIsTrue
  ReadsWhole
  NothingStranded
PROPERTIES
  BrokenIsNoticed
  SyncsEveryPair
CHECK_DEADLOCK FALSE
