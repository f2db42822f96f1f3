CONSTANTS
    Caller = {c1, c2}
    MinCalls = 2
    WindowSeconds = 1
    OpenSeconds = 1
    HalfOpenMaxCalls = 2
    SuccessThreshold = 2
    SlowCallSeconds = 1
    RateNum = 1
    RateDen = 2
    None = None
    MaxWindow = 2
    MaxLost = 2
    MaxAttempts = 2
    MaxTokens = 4
    EarnRate = 2
SPECIFICATION Spec
INVARIANTS CallsInv RetriesArePaidFor
PROPERTY BreakerMovesOn
CHECK_DEADLOCK FALSE
