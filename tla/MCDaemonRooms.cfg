CONSTANTS
    c1 = c1
    c2 = c2
    r1 = r1
    Clients <- MCClients
    Rooms <- MCRooms
    MaxMsgs = 2
    MaxRestarts = 1
    MaxIoErrors = 1
    QueueCap = 2
    OutCap = 1
    BusCap = 1
SPECIFICATION Spec
SYMMETRY ClientSymmetry
INVARIANTS
    ExactlyOnceSinceJoin
    SubscribedIsMember
    HashesFollowRooms
    OrphanBacklogBounded
CHECK_DEADLOCK FALSE
PROPERTY CrashKeepsRooms
