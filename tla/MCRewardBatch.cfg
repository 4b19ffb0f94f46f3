SPECIFICATION FairSpec
CONSTANTS
    Requests <- Four
    NumWorkers = 1
    Home <- OneWorker
    MaxConcurrent = 2
    Threads = 2
    MaxHangs = 2
    ScoreKeys <- DictKeys
INVARIANTS
    PermitsAccounted
PROPERTIES
    AnsweredOnce
    EveryBatchEnds
