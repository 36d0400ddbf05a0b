SPECIFICATION FairSpec
CONSTANTS
    RoomActions = {"Join", "Open", "ForceOpen"}
    MaxFaults = 2
    MaxRoomOps = 2
    MaxIo = 2
INVARIANTS
    OneOutageReport
    JoinedTruthful
PROPERTIES
    Relogin
    Rejoin
CHECK_DEADLOCK FALSE
