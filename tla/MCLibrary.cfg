CONSTANTS
    Paths = {p1, p2}
    Home = p1
    Sources = {s1}
    Words = {word}
    MaxPage = 2
    MaxRemembered = 3
    MaxHistory = 3
    MaxMoves = 5
    Shows = {"a", "b"}
    MaxStart = 4
    PageSize = 2
    LastPage = 2
    PreviewLimit = 2
    PreviewCandidates = 3
    FeaturedCount = 4
    EditorialFrom = 4
    MaxChanges = 1
    MaxRequests = 2
    MaxWrites = 5
    MaxVisits = 2
    Urls = {video}
    MaxLines = 2
    MaxRuns = 2
SPECIFICATION LibraryPageSpec
CHECK_DEADLOCK FALSE
INVARIANTS
    DigestsAreAsPublished
    PluginAnswers
PROPERTIES
    BoxAndListAgree
    CatalogIsHonest
