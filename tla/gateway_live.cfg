SPECIFICATION MCFairSpec
CONSTANTS
  NoBackend = NoBackend
  Backends = {b1}
  Requests = {r1, r2}
  FailThreshold = 2
  InflightCap = 2
  MaxGeneration = 2
  MaxResets = 0
PROPERTIES EveryRequestEnds SlotsComeBack HealthConverges
