SPECIFICATION FairSpec
CONSTANTS
    t1 = t1
    t2 = t2
    t3 = t3
    h1 = h1
    h2 = h2
    None = None
    Tasks = {t1, t2, t3}
    Hosts = {h1, h2}
    Capacity = 2
    Base = 3
    Lo = 2
    Hi = 3
    CrawlDelays = {0, 1, 5}
INVARIANTS
    TypeOK
    LocksExact
    OneRequestPerHost
    SpacingHeld
    PermitsConserved
PROPERTIES
    AskServed
    KeepsPromise
