SPECIFICATION FairSpec
CONSTANTS
    q1 = q1
    q2 = q2
    Conversations <- MCConversations
    NumServers = 2
    Replicas <- MCReplicas
    CacheSize = 2
    MaxUpdates = 2
    EnginePauses = TRUE
    PartialRolloutOn = TRUE
    HasLimit = TRUE
    ResponseLength = 2
    PromptRoom = 2
INVARIANTS
    SpanCoversTokens
    AsUninterrupted
PROPERTIES
    EveryGenerationEnds
    ImplementsAtomicUpdate
