CONSTANTS
  Sessions = {s1, s2}
  Signals = {g}
  Artifacts = {a}
  Tags = {t}
  NoArtifact = NoArtifact
  NoSignal = NoSignal
  NoTag = NoTag
  Global = Global
  Never = Never
  CountThreshold = 2
  SessionThreshold = 2
  Window = 0
  MaxTime = 1
  MaxEdits = 3
  MaxRetries = 1
  BiasBudget = 1
  SectionBudget = 3
  ScanBudget = 4
  Enforce = FALSE
  MaxTurns = 3
  MaxCalls = 4
  MaxFaults = 1
SYMMETRY SessionSymmetry
SPECIFICATION Spec
INVARIANTS TypeOK OneIntent ConsolidatedOnce
PROPERTY InjectedInForce
CHECK_DEADLOCK FALSE
