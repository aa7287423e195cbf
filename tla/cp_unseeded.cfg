SPECIFICATION Spec
CONSTANTS
  Replicas = 2
  Seeded = FALSE
  AnyOrder = TRUE
  ClusterIters = {c1, c2}
  NodeIters = {n1, n2}
  Agent <- UnseededAgents
  Readings <- ThreeReadings
  MayRestart = TRUE
SYMMETRY Symmetry
INVARIANTS TypeOK UnseededStalls
