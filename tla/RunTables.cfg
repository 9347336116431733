SPECIFICATION SpecReading
CONSTANTS
    Stage = {"extracting"}
    Action = {"approve_and_stage", "retry_processing"}
    FailedAction = {"retry_processing"}
    Reviewer = {r1, r2}
    Expiry = 1
    MaxTime = 1
    MaxSteps = 1
SYMMETRY Symmetry
INVARIANTS
    HandledOnce
    ReadIsWhole
PROPERTIES
    ImplementsStore
CHECK_DEADLOCK FALSE
