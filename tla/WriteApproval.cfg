SPECIFICATION Spec
CONSTANTS
  Keys = {k1, k2}
  Requests = {q1, q2}
  NoRequest = none
  Principals = {caller, approver}
  Approver = approver
  Tx <- OneTxEach
  NoTx = noTx
SYMMETRY Symmetry
INVARIANTS
  TypeOK
  RelayedWithConsent
PROPERTIES
  ClosedByRefusal
  ClosedIsFinal
