CONSTANTS
    r1 = r1
    r2 = r2
    sweep = sweep
    none = none
    Receipts = {r1, r2}
    Labels = {sweep}
    NoReceipt = none
    Endpoints = 4
    Worlds <- MCWorlds
    MaxSpurious = 1
SPECIFICATION Spec
INVARIANTS
    TypeOK
    OneEndpointIsEnough
PROPERTIES
    RefinesOracle
