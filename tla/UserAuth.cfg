SPECIFICATION MCSpec
CONSTANTS
    Logins = {self, other}
    GitKeys = {"k1", "k2"}
    GitUser = "git"
    MaxEdits = 1
    Files <- MCFiles
    Policies <- MCPolicies
    Verdict <- MCVerdict
    VerifiedVerdict <- MCVerifiedVerdict
    Self = self
    MaxAttempts = 6
    Accounts <- MCAccounts
    Credentials <- MCCredentials
    ClientConfigs <- MCClientConfigs
    MaxTried = 4
    AnyPackets <- MCAnyPackets
    MaxPackets = 5
    Entitled <- MCEntitled
    Width = 3
INVARIANTS AuthSound CapableGetsIn SnapshotFresh
PROPERTY AuthEnds
CHECK_DEADLOCK FALSE
