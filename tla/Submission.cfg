SPECIFICATION Spec
CONSTANTS
    Request = {p1, p2, p3}
    Key = {k1, k2}
    Quota = 2
    ClaimTicks = 1
    MaxTime = 2
    MaxFaults = 1
SYMMETRY Symmetry
INVARIANTS
    TypeOK
    OneExecutor
    DrawsAreUsed
CHECK_DEADLOCK FALSE
