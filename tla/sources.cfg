SPECIFICATION SourcesSpec
CONSTANTS
  primary = primary
  team = team
  e = e
  s1 = s1
  s2 = s2
  m = m
  Calendar = {primary, team}
  Rank <- MCRank
  Primary = primary
  Event = {e, s1, s2}
  Master = {m}
  CalendarOf <- MCCalendarOf
  MasterOf <- MCMasterOf
  DayOf <- MCDayOf
  Ahead = 1
  DeltaSources = {"mail", "calendar", "bank"}
  Item = {1, 2}
  ItemDay <- DayOfItem
  Span = 1
  MaxAge = 0
  MaxAttempts = 2
  LastDay = 1
  MaxChanges = 2
  MaxExpiries = 1
  DeltaExpiries = 2
  MaxKills = 1
  None = None
INVARIANTS
  MirrorsSource
PROPERTIES
  ResumableFinishes
CHECK_DEADLOCK FALSE
