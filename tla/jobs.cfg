CONSTANTS
    j1 = j1
    Job = {j1}
    Worker = {w1, w2}
    Interval <- MCInterval
    Priority <- MCPriority
    Misfire <- MCMisfire
    CatchUpLimit = 1
    MaxAttempts = 3
    Backoff <- MCBackoff
    Lease = 1
    None = None
    MaxSlots = 1
    MaxStale = 1
    ResponseTTL = 2
    InProgressTTL = 2
SPECIFICATION Spec
INVARIANTS JobsInv ClaimsAreExclusive
PROPERTIES ResponseStands RunsEnd
CHECK_DEADLOCK FALSE
