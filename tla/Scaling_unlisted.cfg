SPECIFICATION Spec
CONSTANTS
  Components = {"queryNode", "streamingNode"}
  ReplicaHosts = {"queryNode", "streamingNode"}
  Autoscalable = {"queryNode"}
  Collections = {k1}
  ResourceGroups = {g1, g2}
  MaxNodes = 2
  MaxEdits = 2
  MaxLoads = 2
  MaxFaults = 1
PROPERTIES LoweringIsRejected
