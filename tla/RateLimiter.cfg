SPECIFICATION Spec
CONSTANTS
  Clients = {a}
  Stdio = stdio
  Scopes = {s1, s2, s3}
  Limits = {1, 2}
  HourLimits = {2}
  Windows = {2}
  HourWindow = 3
  MaxTime = 4
  MaxCharges = 2
SYMMETRY Symmetry
INVARIANTS
  TypeOK
  MinuteBound
  HourBound
  QuietIsForgiven
CHECK_DEADLOCK FALSE
