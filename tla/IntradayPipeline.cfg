SPECIFICATION Spec
CONSTANTS
  server = server
  loop = loop
  w1 = w1
  w2 = w2
  main = main
  Processes = {server, loop}
  Threads = {w1, w2, main}
  RunsIn <- Owners
  Snapshots <- MCSnapshots
  Universe = {"TCS"}
  AllowedRisk = 32
  HardCap = 31
  Slippage = 1
  MaxOpenPositions = 1
  MinRewardRisk = 15
  MinScore = 70
  AllowShorts = FALSE
  AllowHighVolatility = FALSE
  AgenticEnabled = TRUE
  MaxCalls = 2
  MaxStarts = 1
  None = None
INVARIANTS
  TypeOK
  JournalExplainsPositions
  OpenPositionsBounded
  AgentsOnlyNarrow
PROPERTY KillSwitchLatches
CHECK_DEADLOCK FALSE
