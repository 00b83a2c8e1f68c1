SPECIFICATION Spec
CONSTANTS
  Keys = {k1}
  Requests = {q1}
  NoRequest = none
  Principals = {}
  Approver = approver
  Tx <- OneTxEach
  NoTx = noTx
PROPERTIES
  DeclinedIsNotRelayed
