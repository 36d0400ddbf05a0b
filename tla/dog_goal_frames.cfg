SPECIFICATION Spec
CHECK_DEADLOCK FALSE
CONSTANTS
    MaxCommands = 1
    MaxGoals = 1
    MaxGenerations = 1
    MaxPings = 0
PROPERTY GoalFramesKept
