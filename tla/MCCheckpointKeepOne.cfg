CONSTANTS
    Parts <- ActorOnly
    Keep <- KeepOne
    SaveFreq = 1
    Trigger = 1
    MaxSteps = 2
    MaxAhead = 1
    MaxRestarts = 0
SPECIFICATION Spec
INVARIANTS
    EndsResumable
CHECK_DEADLOCK FALSE
