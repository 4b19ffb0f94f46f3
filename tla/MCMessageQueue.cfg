SPECIFICATION FairSpec
CONSTANTS
    c1 = c1
    c2 = c2
    None = None
    NoItem = None
    Consumers <- MCConsumers
    Counts <- MCCounts
    MaxQueueSize = 3
    MaxPuts = 4
INVARIANTS
    Accounting
    OverCapacityOnlyAlone
    NoLostWakeup
PROPERTIES
    ImplementsLossyFifo
    ShutdownReleases
