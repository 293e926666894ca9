SPECIFICATION MCSpec
CONSTANTS
  NoModel = NoModel
  ShortTexts = {}
  Files <- MCFiles
  FlagSets <- MCFlagSets
  LocalEngines <- MCEngines
  Listings <- MCListings
  NonStringNames <- MCNonString
  NoFile = NoFile
  NoGateway = NoGateway
  NoEngine = NoEngine
  Unset = Unset
  MaxCommands = 2
  Script <- MCScript
  MaxLines = 2
  v1 = v1
  h1 = h1
  r1 = r1
  r2 = r2
  NoWorker = NoWorker
  Workers <- MCWorkers
  Vllm = {v1}
  Requests = {r1, r2}
  Profile <- MCProfile
  TierOf <- MCTier
  Strategies = {"NLMS", "LeastLoaded", "LatencyBased", "RoundRobin"}
  Latencies = {2000}
  InitialMs = 200
  SloMs = 2000
  BatchSize = 2
  TierMismatchMs = 500
  CacheBonusMs = 200
  VRAMHardLimitMB = 2400
  VRAMSoftLimitMB = 4096
  DefaultVRAMMB = 24576
  FreeMB = {1500}
  TotalMB = 24576
  WorkerVramGB = 6
  ScaleAbove = 0
  Threshold = 1
  MaxRestarts = 2
  MaxAttempts = 1
INVARIANTS InitServesWhatItFound CommandsAgree RepliesMatchRequests QueueErrorIsBounded
PROPERTIES EveryLineIsServed ProxiesReturn
CHECK_DEADLOCK FALSE
