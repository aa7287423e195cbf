SPECIFICATION K8sSpec
CONSTANTS
  Replicas = 3
  Seeded = TRUE
  AnyOrder = TRUE
  ClusterIters = {c1}
  NodeIters = {}
  Agent <- TwoAgents
  Readings <- TwoReadings
  MayRestart = TRUE
  Cluster = {"my-galera-cluster", "other"}
  SeedCluster = "my-galera-cluster"
  Versions = {"v1alpha1"}
INVARIANTS AskedIsServed
