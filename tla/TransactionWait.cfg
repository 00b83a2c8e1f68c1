SPECIFICATION FairSpec
CONSTANTS
  Requests = {r1, r2}
  Tools = {t1}
  WithLog = {r1}
  MaxWaits = 2
  RpcTimeout = 2
  Timeouts = {3}
  Interval = 2
  Grace = 1
  Late = 1
  MaxStart = 1
INVARIANTS
  TypeOK
  SlotsAreExact
  OverrunIsOneTimeout
  AbortFreesSlot
PROPERTIES
  UnconfirmedIsLate
  EverythingEnds
CHECK_DEADLOCK FALSE
