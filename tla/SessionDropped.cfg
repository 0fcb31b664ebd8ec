CONSTANTS
    MaxItems = 2
    MaxGS = 3
    MaxTurns = 2
    Serial = TRUE
    CustomPriorities <- MCCustomPriorities
SPECIFICATION Spec
INVARIANTS InputIsHeard
