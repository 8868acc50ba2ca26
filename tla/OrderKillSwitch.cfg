SPECIFICATION Spec
CONSTANTS
  Workers = {w1}
  Keys = {k1}
  None = None
  Requests <- SettingsRequests
  Settings <- LiveSettings
  Faults = {}
INVARIANT KillSwitchBlocksOrders
