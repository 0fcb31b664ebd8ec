CONSTANTS
    MaxItems = 3
    CustomPriorities <- MCCustomPriorities
SPECIFICATION FairQueueSpec
INVARIANTS QueueTypeOK QueueOrdered StateFollowsItem NoDuplicates
PROPERTIES DrainingIdlesStateManager ImplementsServer ServedUnlessBlocked
