CONSTANTS
    n1 = n1
    n2 = n2
    n3 = n3
    a = a
    b = b
    None = None
    Follower = Follower
    Candidate = Candidate
    Leader = Leader
    Node = {n1, n2, n3}
    Command = {a}
    MaxTerm = 2
    MaxLog = 1
    MaxInFlight = 2
    MaxCrashes = 1
SYMMETRY Symmetry
SPECIFICATION Spec
INVARIANTS LeaderKnows ElectionSafety
CHECK_DEADLOCK FALSE
