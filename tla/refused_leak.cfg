SPECIFICATION MCSpec
CONSTANTS
  NoBackend = NoBackend
  Backends = {b1, b2}
  Requests = {r1, r2, r3}
  FailThreshold = 2
  InflightCap = 3
  MaxGeneration = 2
  MaxResets = 0
SYMMETRY Symmetry
INVARIANT RefusedSlotIsClosed
