SPECIFICATION Spec
CONSTANTS
  Conns = {c1, c2, c3}
  c1 = c1
  c2 = c2
  c3 = c3
  Max = 1
  HardMax = 2
  LossRatio = 0
  MaxSucc = 1
  HardMaxSucc = 2
  SuccLossRatio = 50
  DefaultMaxConnections = 100
  DefaultHardMaxConnections = 65535
  DefaultMaxSuccessConnections = 5
  DefaultHardMaxSucessConnections = 10
PROPERTY LossReachesOneAtHardMax
