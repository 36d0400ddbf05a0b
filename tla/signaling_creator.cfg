SPECIFICATION Spec
CONSTANTS
    RoomIds = {r1}
    RoomTypes = {"VideoConference"}
    MaxSessions = 2
    LateRequests = FALSE
INVARIANTS
    CreatorPresent
CHECK_DEADLOCK FALSE
