SPECIFICATION MCSpec
CONSTANTS
  NoBackend = NoBackend
  Backends = {b1, b2}
  Requests = {r1, r2, r3}
  FailThreshold = 2
  InflightCap = 2
  MaxGeneration = 2
  MaxResets = 1
SYMMETRY Symmetry
INVARIANTS TypeOK NoPhantomLoad PendingIsExact ShortOnlyPastCap StatsAddUp
PROPERTIES EvictionIsEarned ImplementsLedger
