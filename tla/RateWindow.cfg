SPECIFICATION WFairSpec
CONSTANTS
  GLimiters = {"g"}
  PLimiters = {"p", "q"}
  Burst <- MCBurst
  Every <- MCEvery
  IPs = {a, b}
  a = a
  b = b
  NoIP = NoIP
  Horizon = 3
INVARIANTS NoDetachedBucket PerIPRateHolds GlobalRateHolds
PROPERTIES RefinesPermanentBuckets IdleForgotten AllowReturns
