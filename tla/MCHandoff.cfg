CONSTANTS
    None = None
    t1 = t1
    t2 = t2
    k1 = k1
    h1 = h1
    Tabs = {t1, t2}
    Tasks = {k1}
    Threads = {h1}
    MaxMessages = 2
    MaxVisits = 2
    MaxFresh = 2
SPECIFICATION FairSpec
CHECK_DEADLOCK FALSE
INVARIANTS
    SentOnceWhereWritten
PROPERTIES
    WrittenIsSent
