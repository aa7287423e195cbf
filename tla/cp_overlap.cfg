SPECIFICATION Spec
CONSTANTS
  Replicas = 3
  Seeded = TRUE
  AnyOrder = FALSE
  ClusterIters = {c1, c2}
  NodeIters = {n1}
  Agent <- SeededAgents
  Readings <- TwoReadings
  MayRestart = TRUE
INVARIANTS OneBootstrapper JoinListsPredecessors StagedGrowth NextNodeIsDue
PROPERTIES HeartbeatNeverLost ActiveIsLeftAlone GrowsInStages
