SPECIFICATION OperatorSpec
CONSTANTS
  Replicas = 2
  Seeded = TRUE
  AnyOrder = TRUE
  ClusterIters = {c1}
  NodeIters = {n1}
  Agent <- AllAgents
  Readings <- TwoReadings
  MayRestart = TRUE
  None = None
  Mortal = {2}
CONSTRAINT OneAtATime
VIEW WithoutHistory
INVARIANTS StartsInTurn GrowsOnRunning JoinersKnowPredecessors
PROPERTIES DownUntilForgotten SettledStays
