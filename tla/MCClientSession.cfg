CONSTANTS
    r1 = r1
    Rooms <- MCRooms
    MaxSockets = 3
    MaxConnects = 2
    MaxRequests = 2
    MaxEvents = 1
    MaxDrops = 1
SPECIFICATION FairSpec
CHECK_DEADLOCK FALSE
INVARIANTS RoomsAgree NoOrphanRequest
PROPERTY ComesBack
