CONSTANTS
    w1 = w1
    w2 = w2
    Urls = {"u"}
    Locales = {"en", "zh"}
    SourceLang = "en"
    MaxTasks = 2
    MaxJobs = 2
    Workers = {w1, w2}
    MaxAttempts = 2
    FaultKinds = {"crash", "raise"}
    MaxFaults = 2
    BasicLimit = 1
    ProLimit = 2
    Credits = 1
    Month = 2
    Period = 2
    MaxClock = 3
    MaxVideos = 2
    MaxOrders = 2
    MaxTroubles = 1
SYMMETRY WorkerSymmetry
SPECIFICATION SubmissionSpec
CONSTRAINT MixedOrders
CHECK_DEADLOCK FALSE
INVARIANTS
    TypeOK
    NoStrandedTask
    AttemptsBounded
    AllowanceHolds
    PaymentsSettle
    ShownIsWhatCounts
PROPERTIES
    CompletesWithSummary
    CompletedIsFinal
    ArchivedAfterTerminal
    AdvanceMovesForward
