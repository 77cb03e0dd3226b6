SPECIFICATION FairSpec
CHECK_DEADLOCK FALSE
CONSTANTS
  b1 = b1
  b2 = b2
  r1 = r1
  Backups = {b1, b2}
  Restores = {r1}
  SourceOf <- AllFromB1
  Retained = {}
  Malformed = {}
  Lag = FALSE
  MaxFaults = 1
PROPERTIES OperationsEnd DeletionEnds
