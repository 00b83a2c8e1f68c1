SPECIFICATION Spec
CONSTANTS
  Requests = {r1}
  Tools = {}
  WithLog = {}
  MaxWaits = 1
  RpcTimeout = 2
  Timeouts = {1, 3}
  Interval = 2
  Grace = 1
  Late = 1
  MaxStart = 1
INVARIANTS
  EndsByItsTimeout
CHECK_DEADLOCK FALSE
