CONSTANTS
    d1 = d1
    d2 = d2
    s1 = s1
    s2 = s2
    c1 = c1
    sweepLabel = sweepLabel
    Debits = {d1, d2}
    Expires = {}
    Sweeps = {s1, s2}
    Amounts = {1}
    Fees = {2}
    ChannelOf <- MCChannelOf
    Deadline <- MCDeadline
    Caps <- MCCaps
    MaxGasOnly = 1
    W10m = 1
    W1h = 1
    W24h = 2
    Tol = 1
    MaxNonce = 2
    MaxTime = 2
    MaxSeq = 3
SYMMETRY MCSymmetry
SPECIFICATION MCSpec
INVARIANTS
    LTypeOK
    NonceOwnership
    UnitsWithinCaps
    DebitsWithinCaps
    GasOnlyWithinCap
PROPERTIES
    ReservesWithinFeeCap
