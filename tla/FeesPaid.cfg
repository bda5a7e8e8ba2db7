SPECIFICATION Spec
CONSTANTS
    Raws <- SomeRaws
    Estimates = {4, 6}
    BaseFees = {0, 1}
    GasCap = 5
    MaxRows = 2
INVARIANTS
    PaidWithinFeeCap
CHECK_DEADLOCK FALSE
