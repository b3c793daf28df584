SPECIFICATION Spec
CONSTANTS
  Catalogue <- MCCatalogue
  Priced <- MCPriced
  Askers = {1, 2}
  QuotedSyms = {"a", "h", "u"}
  TypeOf <- MCTypeOf
  MicroTTL = 1
  LastGoodTTL = 2
  PortfolioTTL = 1
  CallLimit = 1
  MaxQuoteClock = 6
  Indices = {"a", "f"}
  Mainland = {"a"}
  IndexCallers = {1, 2}
  MaxIndexRounds = 4
  SpotCallers = {"x", "y", "z"}
  MaxSpotFetches = 4
  Writers = {1, 2}
  CacheReaders = {1, 2}
  Ttl = 1
  MaxWrites = 3
  MaxCacheClock = 4
  FirstDays = 2
  LastDay = 4
  TradingDays = {1, 2, 4}
  SkipGate = 2
  MaxIcStarts = 2
  EtfEnough = 2
  LeastAmount = 2
  LeastScale = 2
  TopN = 2
  CoreWords = {"wide"}
  DefenseWords = {"gold"}
  IndexLength <- MCIndexLength
  Stem <- MCStem
  Shown = 3
  OfEach = 2
  Budget = 6
  OneWait = 3
  LeastLeft = 1
  AtOnce = 2
  LeastBars = 2
  MoodWeights <- MCMoodWeights
  RegimeBias <- MCRegimeBias
  RollingKept = 3
  BreadthTTL = 2
  LongAverage = 3
  ShortAverage = 2
  StaleAfter = 3
  HsgtFreshDays = 1
  LeverageDays = 3
  FewConcepts = 2
  MaxChange = 20
  NewsThreads = 2
  FreshHours = 2
  NewsShown = 2
CHECK_DEADLOCK FALSE
INVARIANTS UnmarkedIsRecent NeverBackInTime ReplayLeavesNoTrace
PROPERTY PricesOutliveOutages
