SPECIFICATION MCSpec
CONSTANTS
  NumWorkers = 2
  PromptKeys = {k1, k2, k3}
  Tokens <- MCTokens
  Lines <- MCLines
  AvgMs = {400}
  FreeLevels = {1500, 24000}
  Snapshots <- MCSnapshots
  CacheSize = 2
  MaxPending = 1
  MaxPicks = 4
  AdmissionModes = {"rank_only", "strict", "empirical", "absolute"}
  SloMs = 500
  TailPercent = 70
  Warmup = 3
  Window = 4
  Samples = {300, 600, 900}
  Fields <- MCFields
  MaxOutstanding = 2
  MaxDecisions = 2
  Workloads <- MCWorkloads
  Modes = {"DUAL", "SINGLE", "STATIC"}
  InitialSlope = 2000
  InitialIntercept = 150000
  SlopeMax = 200000
  InterceptMax = 1000000000
  WindowMin = 4
  WindowMax = 8
  NoModel = NoModel
  NoBudget = NoBudget
  ShortTexts <- MCShortTexts
  Deployments <- MCDeployments
  Bodies <- MCBodies
  HotBackends <- MCHotBackends
  MaxTokensCap = 100
  PromptCap = 400
  BodyCap = 800
  FeatureCap = 150
  MaxAdds = 2
  Requests <- MCRequests
  Engines <- MCEngines
  None = None
  Garbled = Garbled
  MaxChunk = 6
INVARIANT NeverTheWrongModel
CHECK_DEADLOCK FALSE
