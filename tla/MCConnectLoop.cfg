CONSTANTS
    wire1 = wire1
    wire2 = wire2
    peer1 = peer1
    Wires <- MCWires
    Apps <- MCApps
    AppOf <- MCAppOf
    MaxRetries = 2
    FoundCap = 1
    UnseeCap = 2
    MaxLosses = 1
    MaxInbound = 1
    MaxFaults = 1
SPECIFICATION FairSpec
CHECK_DEADLOCK FALSE
INVARIANTS
    IgnoredIsConnected
    NoPeerForgotten
PROPERTY LostPeerIsDialled
