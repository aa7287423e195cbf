SPECIFICATION FairSpec
CONSTANTS
  p0 = p0
  p1 = p1
  p2 = p2
  Peers <- AllPeers
  Targets <- AllTargets
  NoFile = NoFile
  Torn = Torn
  None = None
INVARIANTS ConfigInForce PreparedMeansStarted
PROPERTIES OnlyStaleFactsRestart ConvergedStays PromiseKept Settles GetsPrepared
