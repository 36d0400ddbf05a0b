SPECIFICATION Spec
CONSTANTS
    RoomIds = {r1, r2}
    RoomTypes = {"VideoBroadcasting", "VideoConference"}
    MaxSessions = 3
    LateRequests = TRUE
SYMMETRY MCSymmetry
INVARIANTS
    RoomsSound
    MembersInformed
    GhostsUnanswered
CHECK_DEADLOCK FALSE
