CONSTANTS
    Parts <- ActorAndCritic
    Keep <- KeepTwoAndThree
    SaveFreq = 2
    Trigger = 2
    MaxSteps = 8
    MaxAhead = 1
    MaxRestarts = 2
SPECIFICATION Spec
INVARIANTS
    NothingSavedIsLost
    LossBound
CHECK_DEADLOCK FALSE
