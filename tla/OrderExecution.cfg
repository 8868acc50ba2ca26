SPECIFICATION Spec
CONSTANTS
  Workers = {w1, w2}
  Keys = {k1}
  None = None
  Requests <- MCRequests
  Settings <- LiveSettings
  Faults <- AllFaults
INVARIANTS
  TypeOK
  AtMostOneOrderPerKey
  StoredStatusIsTrue
PROPERTIES
  StopDrains
  KeepsItsPromise
