SPECIFICATION Spec
CONSTANTS
  MaxSyntaxTokens = 6
  MaxSyntaxOperators = 1
  MaxRedirectionsPerCommand = 2
  MaxInputArgs = 1
  MaxInputTokenBytes = 3
  MaxSessionEnvEntries = 2
  MaxSessionEnvBytes = 4
  MaxDynamicEntries = 2
  MaxDynamicPathLen = 4
  Home <- MCHome
  MaxLogEventBytes = 6
  MaxLogEventsPerSession = 5
  MaxLogBytesPerSession = 18
  TruncationMarkerReserve = 3
  MarkerBytes = 2
  TooLargeBytes = 3
  EventBytes = 2
  MetadataBytes = 2
  MaxRootFSEntries = 3
  MaxRootFSFileBodyBytes = 2
  MaxRootFSTotalBodyBytes = 2
  MaxRootFSTarStreamBytes = 9
  HeaderBytes = 1
  MaxRootFSZipCentralDirectoryBytes = 2
  MaxHostChanges = 2
  MaxInputLineBytes = 9
  MaxCommandsPerReadCycle = 2
  MaxTyped = 5
  Scenes <- MCScenes
INVARIANTS CommandsAsTyped LogTellsAll RootFSSound
CHECK_DEADLOCK FALSE
