CONSTANTS
  Modes = {"enforce", "warn", "off"}
  Keys <- WithAgent
  Limits = {2}
  NoTurnLimit = NoTurnLimit
  TurnLimits = {2}
  Requests = {1}
  Extra = 1
  Burst = 1
  Window = 1
  MaxDebits = 2
  MaxNow = 1
  MaxErrors = 1
SPECIFICATION Spec
INVARIANTS TypeOK ReplayMatches WithinBudget RateRespected
