SPECIFICATION FairSpec
CONSTANTS
  Keys = {k1, k2, k3, k4}
  UIDs = {u1, u2, u3}
  None = None
  MaxEdits = 3
  MaxFaults = 2
INVARIANTS TypeOK SecretsComeFirst
PROPERTIES StorageKeysStay UserMonitorStays ObjectsSettle
