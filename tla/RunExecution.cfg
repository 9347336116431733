SPECIFICATION FairSpec
CONSTANTS
    Lease = 2
    MaxTime = 3
    FullCost = 2
    ExactCost = 1
    Fields = 2
    MaxFaults = 2
    Cancellable = TRUE
INVARIANTS
    NoOrphanBlob
    CallsAreCharged
    PaidAsUsed
    VerdictsAgree
PROPERTIES
    AdmittedRunCloses
