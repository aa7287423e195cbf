SPECIFICATION BringUpSpec
CONSTANTS
  Replicas = 3
  Seeded = TRUE
  AnyOrder = FALSE
  ClusterIters = {c1}
  NodeIters = {n1, calm}
  Undisturbed = {calm}
  Agent <- AllAgents
  Readings <- TwoReadings
  MayRestart = FALSE
PROPERTIES ClusterComesUp
