CONSTANTS
    MaxItems = 3
    CustomPriorities <- MCCustomPriorities
    ModuleOrder <- MCModuleOrder
    MaxWakers = 2
    LoadsFail = TRUE
SPECIFICATION FairSpec
INVARIANTS TypeOK SleepIsConsistent
PROPERTY WakingEnds
