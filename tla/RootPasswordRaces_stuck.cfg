SPECIFICATION FairRunningSpec
CHECK_DEADLOCK FALSE
CONSTANTS
  Passwords = {p1, p2, p3}
  NoPassword = NoPassword
  MaxFaults = 1
  MaxEdits = 2
PROPERTIES EditIsApplied
