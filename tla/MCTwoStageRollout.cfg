CONSTANTS
    Configurations <- SomeConfigurations
    MaxFound = 3
SPECIFICATION TwoStageSpec
INVARIANTS
    EveryInputAnswered
    LookupsTrue
    GroupsComplete
    HistoryOfBranches
CHECK_DEADLOCK FALSE
