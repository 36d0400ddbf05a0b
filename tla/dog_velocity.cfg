SPECIFICATION Spec
CHECK_DEADLOCK FALSE
CONSTANTS
    MaxCommands = 3
    MaxGoals = 0
    MaxGenerations = 5
    MaxPings = 1
INVARIANTS FirstFrameIsZero StopHolds CleanShutdownStops
PROPERTY VelocityInOrder
