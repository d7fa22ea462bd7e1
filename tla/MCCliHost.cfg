CONSTANTS
    p1 = p1
    p2 = p2
    Peers <- MCPeers
    Adverts <- MCAdverts
    MaxRetries = 2
    PeerCap = 1
    EventCap = 2
    MaxInbound = 1
    MaxLosses = 1
SPECIFICATION MCSpec
CHECK_DEADLOCK FALSE
INVARIANTS OneReader SkipHasReason
PROPERTY FailedDialIsRetried
