SPECIFICATION FairSpec
CHECK_DEADLOCK FALSE
CONSTANTS
  Schedules = {1, 2}
  Keep <- CountAndTime
  Expiring = {2}
  Broken = {2}
  Late = {1}
  HistoryLimit = 1
  KeptFailedRuns = 1
  MaxRuns = 2
  MaxEdits = 2
  MaxFaults = 1
INVARIANTS TypeOK
PROPERTIES RetentionLeavesNewest DeletedWithItsData CronJobsFollow RetentionSettles ImplementsContract
