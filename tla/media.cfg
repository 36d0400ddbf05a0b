SPECIFICATION MediaSpec
CONSTANTS
    CamKinds = {"single", "yolo", "file"}
    Buffers = 4
    MaxFrames = 4
    MaxSwitches = 1
    Surround = {"front"}
    Consoles = {"a"}
    MaxSelects = 2
    MainStreams = {TRUE, FALSE}
    HwSessions = {1, 2}
    MaxSize = 2
    MaxLives = 2
    MaxCalls = 3
    Rates = 2
    RateCap = 2
    RateFloor = 1
    Vbr = TRUE
    MaxRateCalls = 2
    MaxRefusals = 2
    MaxTakeovers = 1
INVARIANTS
    CameraFrames
    CallbackLease
PROPERTIES
    SubscriptionsDeliverLatest
    PlanCatchesUp
    MediaStops
    GraceKept
    HardwareFreed
    RatesReachHardware
CHECK_DEADLOCK FALSE
