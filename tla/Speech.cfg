CONSTANTS
    Replies <- MCReplies
    Mischief <- MCMischief
    Chunks <- MCChunks
    Faulty <- MCFaulty
    Unplayable <- MCUnplayable
    Player = TRUE
SPECIFICATION FairSpec
INVARIANTS TypeOK HeardAsTold
PROPERTIES SpeechEnds
CHECK_DEADLOCK FALSE
