SPECIFICATION FairSpec
CONSTANTS
  Sessions = {s1, s2}
  s1 = s1
  s2 = s2
  MaxGitShellProcesses = 1
INVARIANT ProcessLimit
INVARIANT NoStraySignal
INVARIANT ObserverJoined
INVARIANT OkMeansDelivered
INVARIANT CompletionWins
INVARIANT NoOrphans
PROPERTY CancelReturns
