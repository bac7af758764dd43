CONSTANTS
    None = None
    t1 = t1
    t2 = t2
    k1 = k1
    h1 = h1
    Tabs = {t1}
    Tasks = {k1}
    Threads = {h1}
    MaxMessages = 1
    MaxVisits = 0
    MaxFresh = 2
SPECIFICATION FairSpec
CHECK_DEADLOCK FALSE
PROPERTIES
    LandingIsSent
