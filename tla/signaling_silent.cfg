SPECIFICATION FairSpec
CONSTANTS
    RoomIds = {r1}
    RoomTypes = {"VideoBroadcasting", "VideoConference"}
    MaxSessions = 2
    LateRequests = FALSE
PROPERTIES
    SilentFreeRooms
CHECK_DEADLOCK FALSE
