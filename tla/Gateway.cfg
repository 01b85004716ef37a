CONSTANTS
  FailureThreshold = 3
  RecoveryTimeout = 2
  HalfOpenMax = 2
  MaxRetries = 2
  BudgetMode = "warn"
  MaxRoutes = 5
  MaxNow = 5
  MaxFaults = 2
SPECIFICATION FairSpec
INVARIANT TypeOK
INVARIANT MarkedBeforeSend
INVARIANT ChargedOnce
INVARIANT TripsOnStreak
INVARIANT TestsAccounted
PROPERTY RouteReturns
CHECK_DEADLOCK FALSE
