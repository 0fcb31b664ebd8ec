CONSTANTS
    MaxItems = 2
    MaxGS = 2
    MaxTurns = 2
    Serial = TRUE
    CustomPriorities <- MCCustomPriorities
SPECIFICATION FairSpec
INVARIANTS TypeOK
PROPERTIES OwnSessionCompletes QuietGSEnds BoundaryEndsPending
