SPECIFICATION ReviewSpec
CHECK_DEADLOCK FALSE
CONSTANTS
    Reading <- MCReading
    Cut <- MCCut
    Shown <- MCShown
    Null = Null
    Blank = Blank
INVARIANTS
    HandoffIsEarned
    OfferedIsServed
    ReviewedOrReady
    ReplayIsExpected
