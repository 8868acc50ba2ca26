SPECIFICATION Spec
CONSTANTS
  loop = loop
  api = api
  crash = crash
  rally = rally
  Cycles = {loop, api}
  Loop = loop
  Articles = {crash, rally}
  About <- MCAbout
  Symbols = {"TITAN"}
  MarketOf <- MCMarketOf
  GoldSensitive = {"TITAN"}
  Interval = 1
  Window = 4
  FeedSize = 2
  Limit = 2
  MaxCycle = 1
  None = None
INVARIANT TypeOK
PROPERTIES
  NoEntryOnOldBadNews
  CyclesComplete
  NewsIsLearned
