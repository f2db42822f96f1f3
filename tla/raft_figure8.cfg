CONSTANTS
    n1 = n1
    n2 = n2
    n3 = n3
    a = a
    b = b
    None = None
    Follower = Follower
    Candidate = Candidate
    Leader = Leader
    Node = {n1, n2, n3}
    Command = {a}
    MaxTerm = 4
    MaxLog = 1
    MaxInFlight = 1
    MaxCrashes = 0
SYMMETRY Symmetry
SPECIFICATION Spec
INVARIANT CommittedIsAgreed
PROPERTY CommittedIsKept
CHECK_DEADLOCK FALSE
