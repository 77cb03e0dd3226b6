SPECIFICATION Spec
CHECK_DEADLOCK FALSE
CONSTANTS
  b1 = b1
  b2 = b2
  r1 = r1
  Backups = {b1, b2}
  Restores = {r1}
  SourceOf <- AllFromB1
  Retained = {b2}
  Malformed = {b2, r1}
  Lag = TRUE
  MaxFaults = 1
INVARIANTS TypeOK
PROPERTIES DeletedWithItsData RestoringWhileRunning ImplementsContract
