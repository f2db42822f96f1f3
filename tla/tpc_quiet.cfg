CONSTANTS
    t1 = t1
    t2 = t2
    p1 = p1
    p2 = p2
    x = x
    y = y
    None = None
    Recoverer = Recoverer
    Tx = {t1, t2}
    Participant = {p1, p2}
    Key = {x, y}
    Plan <- MCPlan
    Delta <- MCDelta
    Balance <- MCBalance
    Floor = 0
    MaxFaults = 2
SPECIFICATION FairQuietSpec
INVARIANT DeliveredMeansReleased
PROPERTY DoubtsAreResolved
CHECK_DEADLOCK FALSE
