CONSTANTS
    MaxItems = 2
    MaxGS = 3
    MaxTurns = 1
    Serial = FALSE
    CustomPriorities <- MCCustomPriorities
SPECIFICATION OverlapSpec
INVARIANTS StartedOnce
PROPERTIES OwnSessionUntilLate GSOutlivesUnlessStale
CHECK_DEADLOCK FALSE
