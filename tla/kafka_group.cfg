CONSTANTS
    m1 = m1
    m2 = m2
    k1 = k1
    Idle = Idle
    NoKey = NoKey
    Members <- MCMembers
    Producer = {r1}
    Key = {k1}
    PartitionOf <- MCPartitionOf
    NumPartitions = 3
    Attempts = 2
    MaxPoll = 2
    Reset = "earliest"
    Retention = 1
    MaxSends = 2
    MaxClock = 2
    MaxGeneration = 3
SPECIFICATION FairTopicSpec
INVARIANT BrokerInv
PROPERTIES CommitIsDelivered DeliveredOnce AllIsConsumed
CHECK_DEADLOCK FALSE
