CONSTANTS
    peer1 = peer1
    peer2 = peer2
    Subscribers <- MCSubscribers
    IdSpace = 2
    MaxCalls = 3
    MaxStreams = 2
    Chunks = 2
    Written <- MCWritten
    MaxOps = 3
SPECIFICATION FairSpec
INVARIANTS
    AnswersItsOwn
    WaitersExact
    StreamWhole
    PublishedOnceToAll
PROPERTY EveryCallReturns
CHECK_DEADLOCK FALSE
