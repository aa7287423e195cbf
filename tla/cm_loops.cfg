SPECIFICATION FairSpec
CONSTANTS
  Controller <- Controllers
  Places = 2
  MaxResources = 3
  MaxEarlier = 2
  Request = {r1}
INVARIANTS TypeOK LeavesNoneOut
PROPERTIES IterationsEnd EndsWhenTold
CHECK_DEADLOCK FALSE
