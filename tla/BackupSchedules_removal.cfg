SPECIFICATION FairSpec
CHECK_DEADLOCK FALSE
CONSTANTS
  Schedules = {1, 2}
  Keep <- KeepOne
  Expiring = {}
  Broken = {2}
  Late = {1, 2}
  HistoryLimit = 1
  KeptFailedRuns = 1
  MaxRuns = 1
  MaxEdits = 1
  MaxFaults = 0
PROPERTIES RemovalStopsRuns
