SPECIFICATION Spec
CONSTANTS
  l1 = l1
  l2 = l2
  api = api
  script = script
  Loops = {l1}
  Alone = FALSE
  Callers = {api}
  Scripts = {}
  Watchlist <- OneSymbol
  Quotes <- MCQuotes
  FxRates = {1}
  TicksPerDay = 3
  OpenTicks = {0, 1}
  Budgets = {20}
  BookingProgress = 45
  BookingPnl = 6
  BookingPct = 30
  LockPnl = 3
  LockPct = 40
  Giveback = 25
  Cooldown = 1
  Lookback = 2
  SymbolSamples = 2
  SymbolLossRate = 60
  SymbolLoss = 4
  SymbolLossPct = 30
  MarketSamples = 3
  MarketWinRate = 35
  MarketLoss = 5
  PreviousDays = 1
  PreviousLoss = 4
  PreviousLossPct = 20
  MaxTime = 5
  MaxCycles = 3
  None = None
INVARIANT OneOpenObservation
