SPECIFICATION Spec
CONSTANTS
  Instruments <- MCInstruments
  Info <- MCInfo
  CoreAnchors = {"HS300", "A500"}
  DefenseAnchors = {"GOLD", "BOND"}
  MaxPerLayer <- MCMaxPerLayer
  Markets <- MCMarkets
  Gold = "GOLD"
  Star50 = "STAR50"
  Upsets <- MCUpsets
  r1 = r1
  r2 = r2
  r3 = r3
  Requests = {r1, r2, r3}
  Scripts <- MCScripts
  Topics = {"A", "HK"}
  Capacity = 2
  MaxRestarts = 1
  Holdables = {"s1", "s2"}
  BookTypes = {"on", "off"}
  Orders = {1, 2}
  Prices = {3}
  Deltas <- MCDeltas
  Files <- MCFiles
  MaxRows = 3
  MaxEdits = 2
  Funds = {"f1", "f2"}
  Strange = "x"
  Books <- MCBooks
  Capitals = {1, 2}
  Samples <- MCSamples
  ReportTTL = 1
  MaxClock = 1
  MaxChecks = 2
  Callers = {1, 2, 3}
  Scans = {0, 2, 8}
  Anchors = 2
  MaxPool = 8
  TTL = 2
  Cooldown = 1
  WaitLimit = 4
  MaxHubClock = 6
  MaxHubRestarts = 1
  Syms = {"s1", "s2"}
  Rounds = {"r1", "r2"}
  Buckets = {"headlines", "macro"}
  Readers = {"n1", "n2"}
  Day = 3
  MaxFetches = 5
CHECK_DEADLOCK FALSE
PROPERTY SnapshotReusable
