SPECIFICATION FairSpec
CHECK_DEADLOCK FALSE
CONSTANTS
    MaxCommands = 1
    MaxGoals = 2
    MaxGenerations = 2
    MaxPings = 0
INVARIANTS AnsweredOnce
PROPERTIES GoalsAnswered CloseReturns
