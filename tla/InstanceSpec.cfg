SPECIFICATION FairSpec
CHECK_DEADLOCK FALSE
CONSTANTS
  l1 = l1
  Locations = {l1}
  Buckets = {k1, k2}
  Missing = Missing
  ConfBuckets = {k3}
  Sizes = {1, 2, 3}
  DefaultSize = 2
  Versions = {1, 2}
  Starts <- AllStarts
  Lag = TRUE
  MaxEdits = 3
  MaxMoves = 1
INVARIANTS TypeOK AppliedStaysValid
PROPERTIES SpecSettles DataStays
