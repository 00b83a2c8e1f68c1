SPECIFICATION Spec
CONSTANTS
  Keys = {k1, k2}
  Requests = {r1}
  Deployments = {}
  Callers = {c1}
  Faults = {"write", "power"}
  StaleReads = FALSE
  Lifespan = 1
  MaxRecords = 2
  MaxPreparations = 2
  MaxHeight = 2
  MaxCrashes = 1
SYMMETRY Symmetry
INVARIANTS
  RelayedIsDurable
CHECK_DEADLOCK FALSE
