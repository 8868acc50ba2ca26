SPECIFICATION Spec
CONSTANTS
  api = api
  script = script
  Sessions = {api, script}
  Modes = {"SHADOW_LIVE", "LIVE_AUTONOMOUS"}
  LiveModes = {"LIVE_AUTONOMOUS"}
  Environment <- MCEnvironment
  None = None
  RiskRejectedError = RiskRejectedError
INVARIANTS
  TypeOK
PROPERTIES
  NoOperationUndoesAnother
  LiveModeNeedsSafetyFlags
  GetStateFailsClosed
  CallsReturn
