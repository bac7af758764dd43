SPECIFICATION ChatPageSpec
CONSTANTS
    A = A
    B = B
    n1 = n1
    n2 = n2
    tA = tA
    ex = ex
    None = None
    Stored = {A, B}
    Spare = {n1, n2}
    Tasks = {tA, ex}
    Example = ex
    Linked <- LinkedDef
    Links <- LinksDef
    MaxMoves = 3
    MaxFaults = 1
    c1 = c1
    c2 = c2
    c3 = c3
    Threads = {c1, c2, c3}
    Nobody = Nobody
    Batch = 1
    MaxWrites = 4
    MaxListFaults = 1
CHECK_DEADLOCK FALSE
SYMMETRY Symm
INVARIANTS
    SwitchesHold
    ListIsHonest
PROPERTIES
    ScreenFollowsReader
