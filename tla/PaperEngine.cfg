SPECIFICATION EngineSpec
CONSTANTS
  s1 = s1
  s2 = s2
  Symbols = {s1, s2}
  Days = {1, 2}
  Buys <- MCBuys
  Sells <- MCSells
  Bars <- MCBars
  Base = 10
  Slippage = 1
  CostRate = 1
  FlatCost = 12
  StartingCash = 2600
  MaxTradesPerDay = 2
  MaxDailyLoss = 299
  MinCashBuffer = 100
  MaxJournal = 5
  symbol = s1
  market = "INDIA"
  Candles <- MCCandles
  Signals <- MCSignals
  NumCandles = 4
  close_open_positions_on_end = TRUE
  None = None
INVARIANTS
  TypeOK
  JournalTellsTheAccount
  DailyEntryCap
  EquityIsExplained
  DrawdownIsWorstDecline
PROPERTY EachCallBalances
CHECK_DEADLOCK FALSE
