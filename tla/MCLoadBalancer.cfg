SPECIFICATION ClientsSpec
CONSTANTS
    q1 = q1
    q2 = q2
    q3 = q3
    q4 = q4
    Conversations <- MCConversations
    NumServers = 2
    CacheSize = 2
INVARIANTS
    CountsRequests
PROPERTIES
    Sticky
