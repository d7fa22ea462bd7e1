CONSTANTS
    HeaderLen = 2
    BodyLen = 1
    PipeCap = 3
    MaxFrames = 2
    MaxCancels = 1
SPECIFICATION FairSpec
INVARIANTS
    FramesIntact
PROPERTIES
    WritesEnd
    HalfOpenEnds
CHECK_DEADLOCK FALSE
