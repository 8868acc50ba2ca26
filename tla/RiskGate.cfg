SPECIFICATION Spec
CONSTANTS
  None = None
  Threads = {t1, t2}
  TradingThread = t1
  t1 = t1
  t2 = t2
  Symbols = {"i1", "u1"}
  Market <- MCMarket
  Prices <- MCPrices
  FxRates = {1, 2}
  StartingCash = 9
  Scale = 10
  RiskConfig <- MCRiskConfig
  QuoteLimits <- MCQuoteLimits
  Candidates <- MCCandidates
  Inputs <- MCInputs
  Answers <- MCAnswers
  CacheTtl = 1
  MaxProbe = 1
  MaxTime = 3
  MaxOrders = 2
INVARIANTS TypeOK HealthIsRecent
PROPERTIES ApprovedOrdersFit OverdraftIsTheMove
