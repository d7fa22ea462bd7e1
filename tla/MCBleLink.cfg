CONSTANTS
    central1 = central1
    central2 = central2
    Centrals <- MCCentrals
    MaxSubs = 3
    MaxFrames = 2
    QueueCap = 1
SPECIFICATION FairSpec
INVARIANTS
    ReadsItsOwnCentral
    NoLostWakeup
    OpenMeansSubscribed
PROPERTY CloseReachesPeripheral
CHECK_DEADLOCK FALSE
