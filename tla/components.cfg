SPECIFICATION ComponentsSpec
CONSTANTS
    BUFFER_NUM = 2
    JetSizes = 3
    MaxInputs = 4
    kMaxPendingFrames = 2
    SrcBuffers = 1
    CodecFrames = 1
    SinkBuffers = 2
    MaxRaspFrames = 6
    MaxRaspErrors = 1
    PacketBlocks = 2
    kMaxCaptureQueued = 1
    kMaxPlaybackQueued = 2
    Callers = {"signaling", "worker"}
    MaxBlocks = 7
    MaxStarts = 2
    Span = 2
    kTrackHoldFrames = 1
    kTrackMaxMissedFrames = 2
    kMaxStabilizedDetections = 3
    MaxTrackIds = 3
    Remotes = {"a", "b"}
    MaxConns = 2
    MaxQueue = 3
    MaxOutages = 1
    Vehicles = {"v", "w"}
    Sources = {"front"}
    Parts = {"buffer"}
    MaxDials = 2
    MaxFrames = 2
    MaxAnswers = 3
    Edges = {1, 2}
    SlotDevices = {"car_1", "car_2"}
    MaxLinks = 2
    Streams = {"stereo", "surround_grid"}
    MaxReceived = 2
    MaxEpochs = 2
    MaxClears = 1
INVARIANTS
    BuffersAccounted
    PacketMatchesFrame
    FramesUnbroken
    AudioThreadsApart
    IdentitiesUnique
    PeersConsistent
    DelaysAreMeans
    DrivesWhatIsSeen
    OldSessionForgotten
PROPERTY
    SwitchesDecodable
CHECK_DEADLOCK FALSE
