SPECIFICATION PromptSpec
CONSTANTS
    k1 = k1
    k2 = k2
    k3 = k3
    k4 = k4
    Calls <- MCCalls
    Size <- MCSize
    Rate = 2
    MaxTokens = 3
    LastCall = 4
    MaxLate = 1
    MaxTime = 16
INVARIANTS
    WindowBound
PROPERTY
    EveryCallReturns
