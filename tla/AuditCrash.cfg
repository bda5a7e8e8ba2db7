CONSTANTS
    r1 = r1
    Receipts = {r1}
    Amounts = {1}
    MaxRows = 3
    MaxCrashes = 1
    MaxEdits = 0
    MaxRemovals = 0
SPECIFICATION Spec
INVARIANTS
    AuditVerifies
CHECK_DEADLOCK FALSE
