SPECIFICATION SpecUpdates
CONSTANTS
    Users = {u1, u2}
    DedupeKeys = {k1}
    NoKey = NoKey
    Plans <- CallPlans
    MaxTasks = 4
    MaxConcurrency = 1
    ResultRetention = 1
    PendingOrphanTtl = 1
    WorkerTimeout = 2
    ProgressThrottle = 1
    LastRequestTime = 2
    MaxTime = 4
SYMMETRY Symmetry
INVARIANTS
    TypeOK
    SlotsUsed
    PagesAccounted
    SubtasksAccounted
    ParentSumsUp
    MappingsHold
    OnePendingTaskPerKey
    FinalIsTrue
PROPERTIES
    OneCleanupPassSuffices
    RepliesNeverRegress
CHECK_DEADLOCK FALSE
