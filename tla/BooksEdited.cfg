CONSTANTS
    r1 = r1
    r2 = r2
    r3 = r3
    Receipts = {r1, r2, r3}
    Amounts = {1}
    MaxRows = 2
    MaxCrashes = 2
    MaxEdits = 1
    MaxRemovals = 1
SYMMETRY Symmetry
SPECIFICATION RSpec
INVARIANTS
    LawfulSpendVerifies
    NothingIsPaperedOver
    UntornAuditVerifies
    RefusedOnlyWithCause
PROPERTIES
    AppliedVerifies
CHECK_DEADLOCK FALSE
