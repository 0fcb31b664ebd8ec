CONSTANTS
    Chains <- MCChains
    Faults = {"step", "answer", "llm"}
    MaxEvents = 2
SPECIFICATION FairSpec
INVARIANTS TypeOK NothingSkipped NeverForgotten CompleteMeansDone
PROPERTY ComesToRest
CHECK_DEADLOCK FALSE
