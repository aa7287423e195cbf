SPECIFICATION FairSpec
CONSTANTS
  Caller = {c1, c2, c3}
  Process = {p1, p2}
  NoProc = NoProc
INVARIANTS TypeOK AliveIsRunning RunAlwaysStarts
PROPERTIES Supervised StopReaches RunReturns
