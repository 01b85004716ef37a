CONSTANTS
  Tools = {t1, t2}
  TokenBudget = 4
  TurnLimit = 3
  FollowupMin = 1
  ContractMax = 3
  MaxInput = 2
  Modes = {"enforce", "warn", "off"}
  RateLimited = TRUE
  MaxFaults = 2
SPECIFICATION Spec
INVARIANTS TypeOK ToolsTraced CostIsCharged OverspendBounded
PROPERTY ImplementsWorkOrder
CHECK_DEADLOCK FALSE
