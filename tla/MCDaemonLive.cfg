CONSTANTS
    c1 = c1
    c2 = c2
    r1 = r1
    Clients <- MCClients
    Rooms <- MCRooms
    MaxMsgs = 1
    MaxRestarts = 1
    MaxIoErrors = 0
    QueueCap = 2
    OutCap = 1
    BusCap = 1
SPECIFICATION FairSpec
PROPERTIES
    RoutedFramesArrive
    EverythingSettles
CHECK_DEADLOCK FALSE
