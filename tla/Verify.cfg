CONSTANTS
  Modules = {"shell", "ledger_client"}
  Commands <- MCCommands
  Planes <- MCPlanes
  MaxChanges = 1
SPECIFICATION FairSpec
INVARIANTS TypeOK PassIsEarned ExitAgrees
PROPERTY VerifyEnds
CHECK_DEADLOCK FALSE
