CONSTANTS
  Clients = {c1, c2}
  Subs = {s1, s2}
  BatchSize = 2
  BatchInterval = 1
  RotateBytes = 2
  RotateDaily = TRUE
  DayLength = 2
  MaxEntries = 3
  MaxNow = 2
  MaxErrors = 1
SPECIFICATION Spec
INVARIANTS TypeOK TwiceOnlyAfterError ChainIntact FastReadSound VerifiersAgree AckedDurable
SYMMETRY Symmetry
CHECK_DEADLOCK FALSE
