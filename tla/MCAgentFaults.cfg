CONSTANTS
    Nobody = Nobody
    h1 = h1
    k1 = k1
    w1 = w1
    w2 = w2
    r1 = r1
    r2 = r2
    Threads = {h1}
    MaxTurns = 2
    MaxGens = 2
    Tasks = {k1}
    Workers = {w1, w2}
    Requests = {r1, r2}
    MaxAttempts = 1
    FaultKinds = {"stall", "raise", "crash"}
    MaxFaults = 1
    MaxRedo = 1
SYMMETRY ProcessSymmetry
SPECIFICATION Spec
CONSTRAINT OneDifficulty
CHECK_DEADLOCK FALSE
INVARIANTS
    TypeOK
    NoLostWakeup
    SubmittedNeverReruns
    ClaimsBounded
    OneOpenTurn
PROPERTIES
    EndedIsFinal
    RetryGetsItsAttempts
