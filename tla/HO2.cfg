CONSTANTS
  MaxRetries = 1
  HO3Enabled = TRUE
  MaxTurns = 2
  MaxCandidates = 1
  MaxFaults = 2
SPECIFICATION FairSpec
INVARIANTS TypeOK ChainsClosed NeverTwice SummaryHolds
PROPERTIES ImplementsConversation TurnReturns
CHECK_DEADLOCK FALSE
