CONSTANTS
    a = a
    b = b
    c = c
    d = d
    Order <- MCOrder
    N = 2
    W = 1
    R = 2
    Client = {c1}
    MaxWrites = 3
    MaxFails = 3
SPECIFICATION Spec
INVARIANTS ReplicasInv ReadsOverlap
PROPERTY Converges
CHECK_DEADLOCK FALSE
