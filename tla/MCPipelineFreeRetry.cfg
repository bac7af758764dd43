CONSTANTS
    w1 = w1
    Urls = {"u"}
    Locales = {"en"}
    SourceLang = "en"
    MaxTasks = 1
    MaxJobs = 1
    Workers = {w1}
    MaxAttempts = 2
    FaultKinds = {"raise"}
    MaxFaults = 2
SPECIFICATION Spec
CHECK_DEADLOCK FALSE
INVARIANTS
    RefundedStaysFailed
