SPECIFICATION FairRunningSpec
CHECK_DEADLOCK FALSE
CONSTANTS
  Passwords = {p1, p2, p3}
  NoPassword = NoPassword
  MaxFaults = 0
  MaxEdits = 4
INVARIANTS AppliedWorks EditsKept
PROPERTIES EditIsApplied PublishedSettles
