CONSTANTS
  Sessions = {s1, s2}
  Signals = {g}
  Artifacts = {a}
  Tags = {t}
  NoArtifact = NoArtifact
  NoSignal = NoSignal
  NoTag = NoTag
  Global = Global
  Never = Never
  CountThreshold = 2
  SessionThreshold = 2
  Window = 0
  MaxTime = 1
  MaxEdits = 0
  MaxRetries = 1
  BiasBudget = 1
  SectionBudget = 3
  ScanBudget = 4
  Enforce = FALSE
  MaxTurns = 3
  MaxCalls = 4
  MaxFaults = 0
SYMMETRY SessionSymmetry
SPECIFICATION Spec
PROPERTY LearnedShown
CHECK_DEADLOCK FALSE
