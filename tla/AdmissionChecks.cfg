SPECIFICATION Spec
CONSTANTS
    Bytes = {0, 2, 3, 5}
    DebitSelector = 5
    ExpireSelector = 3
    Offset = 5
    SigLen = 3
    N = 7
    Vs = {3, 5}
    Scenarios <- MCScenarios
    Addresses = {"us", "them", "alice", "zero", "usdc", "dai"}
    Us = "us"
    Token = "usdc"
    Unbound = "zero"
    GasCap = 2
    MinAmount = 2
    MaxAmount = 4
    Cent = 2
    MinSkew = 1
    MaxTtl = 3
    MinRemaining = 1
    SettleWindow = 3
    MaxTime = 5
    MaxMoves = 1
INVARIANTS
    ForbiddenIsAlarmed
    AcceptsExactlyEncodings
    ReencodingMatches
    OneCalldataPerAuthorisation
    ChecksAnticipateContract
    DebitOrExpiry
    AdmittedPaysUs
CHECK_DEADLOCK FALSE
