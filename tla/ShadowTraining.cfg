SPECIFICATION Spec
CONSTANTS
  l1 = l1
  l2 = l2
  api = api
  script = script
  Loops = {l1, l2}
  Alone = TRUE
  Callers = {}
  Scripts = {script}
  Watchlist <- OneSymbol
  Quotes <- MCQuotes
  FxRates = {1, 5}
  TicksPerDay = 3
  OpenTicks = {0, 1}
  Budgets = {20, 10}
  BookingProgress = 45
  BookingPnl = 6
  BookingPct = 30
  LockPnl = 3
  LockPct = 40
  Giveback = 25
  Cooldown = 1
  Lookback = 2
  SymbolSamples = 2
  SymbolLossRate = 60
  SymbolLoss = 4
  SymbolLossPct = 30
  MarketSamples = 3
  MarketWinRate = 35
  MarketLoss = 5
  PreviousDays = 1
  PreviousLoss = 4
  PreviousLossPct = 20
  MaxTime = 4
  MaxCycles = 4
  None = None
SYMMETRY Symmetry
INVARIANTS
  TypeOK
  OneOpenObservation
  ExitRecordedOnce
  MarkedOnItsDay
  CooldownKept
  
  NoExitIsMissed
