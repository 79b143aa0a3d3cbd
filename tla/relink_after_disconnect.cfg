SPECIFICATION Spec
CONSTANTS
  Runner = {r1}
  MaxGrants = 2
  MaxKills = 0
  MaxRevoked = 0
  MaxCuts = 1
  None = None
INVARIANT RelinkReplacesSecret
CHECK_DEADLOCK FALSE
