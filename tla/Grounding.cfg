SPECIFICATION FairSpec
CHECK_DEADLOCK FALSE
CONSTANTS
    MaxPages = 3
INVARIANTS
    NothingIsHeld
    AnswerIsTrue
PROPERTIES
    GroundingEnds
