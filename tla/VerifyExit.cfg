CONSTANTS
  Modules = {"shell", "ledger_client"}
  Commands <- MCCommands
  Planes <- MCPlanes
  MaxChanges = 0
SPECIFICATION FairSpec
INVARIANT ExitTellsReport
CHECK_DEADLOCK FALSE
