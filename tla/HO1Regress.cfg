CONSTANTS
  Tools = {t1}
  TokenBudget = 3
  TurnLimit = 2
  FollowupMin = 1
  ContractMax = 2
  MaxInput = 1
  Modes = {"enforce"}
  RateLimited = FALSE
  MaxFaults = 1
SPECIFICATION Spec
PROPERTY TerminalStays
CHECK_DEADLOCK FALSE
