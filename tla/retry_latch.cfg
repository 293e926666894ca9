SPECIFICATION GateSpec
CONSTANTS
  AdmissionModes = {"strict", "empirical"}
  SloMs = 500
  TailPercent = 70
  Warmup = 3
  Window = 5
  Samples = {300, 600, 900}
  Fields <- MCOneBackend
  MaxOutstanding = 2
  MaxDecisions = 3
INVARIANT RetryCanSucceed
