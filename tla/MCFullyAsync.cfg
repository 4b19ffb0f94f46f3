SPECIFICATION FairSpec
CONSTANTS
    T = T
    TheTrainer = T
    None = None
    NoItem = None
    Consumers <- MCConsumers
    MaxQueueSize = 4
    TotalRolloutSteps = 3
    RequiredSamples = 2
    TriggerSync = 2
    EstimatedPoints = 2
    Servers = 1
    PendingCap = 1
    Outcomes <- TwoPoints
    MayCrash = TRUE
    MaxStaleness = 0
    TestFreq = 2
INVARIANTS
    StopsOnlyAtTheEnd
    BackpressureBound
    EveryChunkOnce
    BatchIsFresh
PROPERTIES
    CrashFailsTheRun
    Terminates
