SPECIFICATION Spec
CONSTANTS
    WindowSize = 2
    MaxPacket = 1
    Width = 3
    Opener = client
    Other = server
    MaxChannels = 2
    ChanSize = 1
    Callers = {"r1", "r2"}
    StrayPackets <- MCStrayPackets
    Scenarios <- MCScenarios
INVARIANTS ChannelsSound WindowsAgree DeliveredInOrder
PROPERTY CallsReturn
CHECK_DEADLOCK FALSE
