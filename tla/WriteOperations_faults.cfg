SPECIFICATION FairSpec
CONSTANTS
  Keys = {k1}
  Requests = {r1, r2}
  Deployments = {r2}
  Callers = {c1, c2}
  Faults = {"write", "fsync", "crash"}
  StaleReads = TRUE
  Lifespan = 1
  MaxRecords = 1
  MaxPreparations = 2
  MaxHeight = 2
  MaxCrashes = 1
INVARIANTS
  TypeOK
  AtMostOneTransaction
  OnlyApprovedIsRelayed
  ClosedIsNeverRelayed
  SubmittedWasAccepted
  Exclusive
PROPERTIES
  VerdictIsFinal
  ExpiredStaysOffChain
  CallsSettle
  ImplementsIntent
CHECK_DEADLOCK FALSE
