SPECIFICATION FairSpec
CHECK_DEADLOCK FALSE
CONSTANTS
  blue = blue
  green = green
  etcd = etcd
  Deployments = {blue, green, etcd}
  Workload <- WorkloadOf
  Bundled = {etcd}
  Green = {green}
  Pods <- PodsOf
  Restores = {r1}
  Seed = r1
  MaxEdits = 1
  MaxFaults = 1
INVARIANTS TypeOK
PROPERTIES SeededFirst RestoreHidesInstance StatusSettles
