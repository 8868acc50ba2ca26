SPECIFICATION Spec
CONSTANTS
  Workers = {w1}
  Keys = {k1}
  None = None
  Requests <- MCRequests
  Settings <- LiveSettings
  Faults <- BrokerFaults
INVARIANT UnknownOrdersAreMarked
