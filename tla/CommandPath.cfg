SPECIFICATION PathSpec
CONSTANTS
    N = 2
    Packets <- AllPackets
    Capacity = 2
    Sent <- OneSetting
    Others <- Strangers
    Robot <- TwoJointRobot
    Period = 1
    MaxLate = 1
    CommandTimeout = 1
    Delay = 1
    MaxAir = 2
INVARIANTS
    PathTypeOK
    SeesWhatWasSent
    DrivesOnRecentData
PROPERTIES
    NewestIsStored
    MatchesReference
