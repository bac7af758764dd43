CONSTANTS
    c1 = c1
    c2 = c2
    Cards = {c1, c2}
    MaxVer = 6
    MaxOut = 2
    MaxFaults = 2
    MaxRetries = 2
    MaxMoves = 3
    CardTexts = {"", "0:10", "a", "b", "c"}
    MaxEvidence = 4
    EvidenceShown = 2
    MaxCardSteps = 3
SYMMETRY CardSymmetry
SPECIFICATION TaskPageSpec
CONSTRAINT FiveTroubles
CHECK_DEADLOCK FALSE
INVARIANTS
    ViewsConverge
    CardIsHonest
PROPERTIES
    CardsNeverGoBack
