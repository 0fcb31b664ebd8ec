CONSTANTS
    Tasks <- MCTasks
    Workers = 1
    Faults = {"settings", "read", "player"}
    Controlled = {"t1"}
    MaxCommands = 2
    MaxMishaps = 1
SPECIFICATION Spec
INVARIANTS TypeOK PoolKnowsItsMonitors EndedIsWritten CarriedOutInOrder
CHECK_DEADLOCK FALSE
