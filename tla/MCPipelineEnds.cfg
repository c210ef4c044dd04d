SPECIFICATION FairSpec
CONSTANTS
    a = a
    b = b
    c = c
    p = p
    q = q
    None = None
    Urls = {a, b, c}
    Pages = {p}
    Inputs <- ThreeUrls
    Filtered = {c}
    Blocking = {p}
    FetchCodes = {}
    MaxConcurrency = 2
    MaxLlm = 1
    Faults = {"raise", "interrupt"}
    LiveRequeue = {"failed_fetch", "classified"}
    MaxSessions = 2
PROPERTIES
    SessionEnds
    RunSurvives
    FinishedStays
