SPECIFICATION AnswerSpec
CONSTANTS
    MaxTurns = 2
    MaxDrops = 1
    MaxRetries = 1
    MaxQueue = 2
    MaxCalls = 2
    MaxSteps = 2
    Budget = 3
    PerCall = 2
    Lengths = {0, 3}
    Segments = 2
    PublicSources = 1
    MaxParts = 4
    Blocks = {b1, b2}
    k1 = k1
    k2 = k2
    k3 = k3
    Codes = {k1, k2, k3}
    KeyOf <- KeyDef
    Raw = Raw
    NoText = NoText
    MaxRenders = 4
    MaxHighlightFaults = 1
    Paragraphs <- ParagraphsDef
    Scripts <- ScriptsDef
    RawScripts <- RawScriptsDef
    Segment = 6
    Overlap = 2
    MaxHits = 2
    Budgets = {4, 20}
    s1 = s1
    s2 = s2
    NoTask = NoTask
    ViewTasks = {s1, s2}
    Histories <- HistoriesDef
    MaxReplyParts = 1
    MaxViewSteps = 2
CONSTRAINTS
    OneFault
    QuietSecond
    ShortHistories
CHECK_DEADLOCK FALSE
INVARIANTS
    ShowsWhatIsStored
    AnswersWithinAllowance
    HighlightIsSound
    EvidenceIsWhole
PROPERTIES
    RepliesKept
    KeepsPromise
    PageIsHonest
