SPECIFICATION Spec
CONSTANTS
    File = {f1, f2}
    MaxRequests = 4
INVARIANTS
    ShownIsActive
    OneRunAtATime
PROPERTIES
    RepeatedWasValidated
CHECK_DEADLOCK FALSE
