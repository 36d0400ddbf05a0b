SPECIFICATION ScenesFairSpec
CONSTANTS
    Sessions = {s1}
    NoSession = none
    Messages <- MCMessages
    WatchdogMs = 2
    StateIntervalMs = 1
    MaxPendingEvents = 2
    AllowWatchdogRecovery = TRUE
    AllowInterfaceRecovery = TRUE
    MaxElapsed = 2
    MaxOverlap = 1
    MaxDogActions = 1
    MCSeqs = {1}
    MCRequests = {1}
    MCActions = {"lateralMove", "lateralStop", "goal"}
    MCKinds = {"drive", "dog", "gear", "malformed"}
    MCScenes = {{"drive", "dog"}, {"drive", "gear", "malformed"}}
INVARIANT PeerInformed
PROPERTY SilenceStops
