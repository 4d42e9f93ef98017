SPECIFICATION WSpec
CONSTANTS
  GLimiters = {"g"}
  PLimiters = {"p"}
  Burst <- MCBurst
  Every <- MCEvery
  IPs = {a, b}
  a = a
  b = b
  NoIP = NoIP
  Horizon = 3
INVARIANT RefusedUsesNothing
