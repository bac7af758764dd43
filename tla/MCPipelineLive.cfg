CONSTANTS
    w1 = w1
    w2 = w2
    Urls = {"u"}
    Locales = {"en"}
    SourceLang = "en"
    MaxTasks = 1
    MaxJobs = 2
    Workers = {w1, w2}
    MaxAttempts = 2
    FaultKinds = {"crash", "raise", "stall"}
    MaxFaults = 1
SPECIFICATION FairSpec
CHECK_DEADLOCK FALSE
INVARIANTS
    QueueMatchesHandoff
    OneQueuedJobPerKey
PROPERTIES
    EveryJobResolves
