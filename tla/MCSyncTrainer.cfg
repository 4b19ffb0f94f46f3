SPECIFICATION TrainersSpec
CONSTANTS
    Configurations <- MCConfigurations
    TotalSteps = 4
    Batches = 5
    ValBatches = 2
    MaxRounds = 2
    MaxRestarts = 2
INVARIANTS
    OnPolicy
    DeviceFree
    EachBatchOnce
    SavedInTime
    OneStepAhead
CHECK_DEADLOCK FALSE
