CONSTANTS
    Tools = {search, python}
    PromptLength = 2
    ResponseLength = 4
    TotalLength = 6
    TurnLimits <- SomeLimits
    MaxParallelCalls = 2
    PromptLengths <- SomePrompts
    ObservationLengths <- SomeObservations
    InstructionLength = 1
    MaxCalls = 3
SPECIFICATION Spec
INVARIANTS
    OutputAligned
    BudgetsKept
    FinalTurnInstructed
    InstancesReleased
PROPERTIES
    Ends
CHECK_DEADLOCK FALSE
