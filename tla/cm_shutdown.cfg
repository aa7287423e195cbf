SPECIFICATION Spec
CONSTANTS
  Controller <- Controllers
  Places = 2
  MaxResources = 3
  MaxEarlier = 2
  Request = {r1}
INVARIANTS ShutdownIsGraceful
CHECK_DEADLOCK FALSE
