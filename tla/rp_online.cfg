CONSTANTS
    n1 = n1
    n2 = n2
    n3 = n3
    Order <- ThreeReplicas
    FirstLeader = n1
    MinInsync = 2
    MaxLag = 1
    MaxRecords = 4
    MaxFaults = 3
    Stalled = {n3}
SPECIFICATION FairOnlineSpec
INVARIANTS PartitionInv AckedIsKept
PROPERTIES VisibleIsStable LossIsUnacked AllIsCommitted
