CONSTANTS
    Nobody = Nobody
    h1 = h1
    k1 = k1
    w1 = w1
    r1 = r1
    r2 = r2
    Threads = {h1}
    MaxTurns = 1
    MaxGens = 1
    Tasks = {k1}
    Workers = {w1}
    Requests = {r1, r2}
    MaxAttempts = 2
    FaultKinds = {"crash", "raise"}
    MaxFaults = 1
    MaxRedo = 0
SPECIFICATION FairSpec
CHECK_DEADLOCK FALSE
PROPERTIES
    EveryContinuationResolves
