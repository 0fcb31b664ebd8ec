CONSTANTS
    MaxItems = 2
    MaxGS = 3
    MaxTurns = 3
    Serial = TRUE
    CustomPriorities <- MCCustomPriorities
SPECIFICATION Spec
PROPERTIES CompletedWhenSpoken
