SPECIFICATION Spec
CONSTANTS
  Keys = {k1}
  Requests = {r1}
  Deployments = {}
  Callers = {c1, c2}
  Faults = {}
  StaleReads = FALSE
  Lifespan = 1
  MaxRecords = 1
  MaxPreparations = 2
  MaxHeight = 2
  MaxCrashes = 1
INVARIANTS
  ExpiredIsNotOnChain
CHECK_DEADLOCK FALSE
