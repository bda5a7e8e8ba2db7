CONSTANTS
    d1 = d1
    d2 = d2
    e1 = e1
    s1 = s1
    s2 = s2
    c1 = c1
    c2 = c2
    sweepLabel = sweepLabel
    Debits = {d1, d2}
    Expires = {}
    Sweeps = {}
    Amounts = {1}
    Fees = {1}
    ChannelOf <- MCChannelOf
    Deadline <- MCDeadline
    Caps <- NoCaps
    MaxGasOnly <- NoLimit
    W10m = 1
    W1h = 2
    W24h = 3
    Tol = 0
    MaxNonce = 2
    MaxTime = 3
    RejectsAreFinal = TRUE
    MayRevert = FALSE
    NodesLag = FALSE
    MinSkew = 0
    MaxTtl = 5
    GiveUp = 2
    ClockAhead = 0
    MaxCrashes = 2
    MaxClockSteps = 0
SPECIFICATION Spec
INVARIANTS
    TypeOK
    KnownTxRecorded
    LandedIsCounted
    DeadCannotLand
    OneTxPerReceipt
    NoUnsignedGap
