SPECIFICATION FairSpec
CONSTANTS
  Conns = {c1, c2, c3, c4}
  c1 = c1
  c2 = c2
  c3 = c3
  c4 = c4
  Max = 1
  HardMax = 3
  LossRatio = 50
  MaxSucc <- Disabled
  HardMaxSucc = 1
  SuccLossRatio = 0
  DefaultMaxConnections = 100
  DefaultHardMaxConnections = 65535
  DefaultMaxSuccessConnections = 5
  DefaultHardMaxSucessConnections = 10
INVARIANT CountersExact
INVARIANT HardLimitsHold
PROPERTY NoLossBelowMax
PROPERTY SlotsRecovered
