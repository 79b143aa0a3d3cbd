SPECIFICATION Spec
CONSTANTS
  Device = {d1, d2, d3}
  MaxKills = 2
  None = None
  Version = {v1, v2}
  MaxChanges = 3
  MaxUser = 2
  MaxSyncKills = 1
  Instants = {0, 7, 25, 49, 100}
  Starts <- MCStarts
  Importances = {40, 50}
  Zones <- MCZones
  MaxDecisions = 3
  eric = eric
  erik = erik
  brand = brand
  Person <- MCPerson
  Thread <- MCThread
  NameOf <- MCNameOf
  Fit <- MCFit
  Document = {doc}
  Transaction = {tx}
  Mails = 2
  MAIL_ATTACHMENT_SCAN = 2
  MaxWrites = 3
  MaxCommands = 1
  Shares = {s1, s2, s3}
  Files = {s1, s2}
  MaxFailures = 2
  MaxMounts = 2
  Hooks = {"now", "thread"}
  Watched = {"threads", "context_events"}
  Subject = {doc}
  MaxRevision = 1
  MaxCalls = 1
  MaxMoves = 1
  MaxLoads = 2
  Caller = {c1}
  Contracts <- MCContracts
  clientVersion <- MCClientVersion
  CacheTime = 2
  ProbeTimeout = 1
  RequestTimeout = 1
  Interval = 2
  MaxTicks = 3
  MaxSwitches = 2
  Broken = Broken
INVARIANTS
  TooLateIsRefused
  OneVersionShown
  DismissalRespected
  DecisionsHold
  SharesKept
  ShowsWhatItHeard
  SaidIsFresh
PROPERTIES
  DebtsDoNotFade
  MergeKeepsAnswers
  NeverBack
CHECK_DEADLOCK FALSE
