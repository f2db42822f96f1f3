CONSTANTS
    Owner = {c1, c2}
    Resource = {r1, r2}
    None = None
    TTL = 2
    MaxTime = 4
    MaxToken = 4
SPECIFICATION LockSpec
INVARIANT FencingInv
PROPERTY ImplementsTurns
CHECK_DEADLOCK FALSE
