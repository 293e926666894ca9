SPECIFICATION MCSpec
CONSTANTS
  DioBase = 9000
  EngineBase = 8000
  ProxyPort = 18101
  SeedCounts = {1, 2}
  MaxRuns = 2
  Calls = {c1, c2, c3, c4}
  Prefixes = {p1, p2}
  MaxConcurrency = 2
INVARIANTS FreshGateway RightConfiguration EnginesOutliveCells NothingOutlivesMain FinishedBlocksAreKept PairsAreSeeds GaugesAreExact
PROPERTY ScriptsEnd
CHECK_DEADLOCK FALSE
