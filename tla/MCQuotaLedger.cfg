SPECIFICATION Spec
CONSTANTS
    r1 = r1
    r2 = r2
    b1 = b1
    Reservation = {r1, r2}
    Bucket = {b1}
    Cost = {2, 3}
    Actual = {1, 5}
    Budget = 4
    Lease = 2
    DayLength = 3
    Limit <- MCLimit
    GlobalLimit <- MCGlobalLimit
    Skew = 1
    MaxTime = 4
SYMMETRY Symmetry
INVARIANTS
    TypeOK
    BudgetRespected
    SpendIsSettledCost
    AnswersAsInMemory
PROPERTIES
    ClosedIsFinal
    SweepKeepsDispatched
    ActsAsInMemory
