SPECIFICATION Spec
CONSTANTS
    Lease = 2
    MaxTime = 3
    FullCost = 2
    ExactCost = 1
    Fields = 1
    MaxFaults = 0
    Cancellable = TRUE
INVARIANTS
    CancelledRunIsClosed
