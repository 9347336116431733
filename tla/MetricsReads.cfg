SPECIFICATION Spec
CONSTANTS
    Reader = {r1, r2, r3}
    Process = {p1, p2}
    Bucket = {b1, b2, b3}
    Change = {c1}
    Sources = 2
    TTL = 1
    Window = 1
    Keep = 1
    BucketLimit = 1
    GlobalLimit = 2
    MaxTime = 2
    MaxFaults = 1
SYMMETRY Symmetry
INVARIANTS
    LimitsHold
    SnapshotsAreFresh
    PromisesAreKept
CHECK_DEADLOCK FALSE
