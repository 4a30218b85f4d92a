SPECIFICATION FairSpecUpdates
CONSTANTS
    Users = {u1}
    DedupeKeys = {k1, k2}
    NoKey = NoKey
    Plans <- ReportPlans
    MaxTasks = 5
    MaxConcurrency = 1
    ResultRetention = 1
    PendingOrphanTtl = 0
    WorkerTimeout = 1
    ProgressThrottle = 1
    LastRequestTime = 0
    MaxTime = 6
INVARIANTS
    ProgressCatchesUp
    NotifierForgets
PROPERTIES
    FinalIsTheLastWord
    EveryTaskAnswered
    EveryTaskForgotten
CHECK_DEADLOCK FALSE
