SPECIFICATION ScenesSpec
CONSTANTS
    Sessions = {s1, s2}
    NoSession = none
    Messages <- MCMessages
    WatchdogMs = 2
    StateIntervalMs = 1
    MaxPendingEvents = 2
    AllowWatchdogRecovery = TRUE
    AllowInterfaceRecovery = TRUE
    MaxElapsed = 2
    MaxOverlap = 0
    MaxDogActions = 3
    MCSeqs = {1, 2}
    MCRequests = {1, 2}
    MCActions = {"goal", "lateralMove"}
    MCKinds = {"drive", "gear", "dog", "malformed"}
    MCScenes = {{"drive", "malformed"}, {"drive", "gear"}, {"firstDrive", "lateralMove"}, {"goal"}}
SYMMETRY MCSymmetry
INVARIANTS MotionGuarded WatchdogBound NoReplay AcksSound
PROPERTY HardLatch
