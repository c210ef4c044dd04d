SPECIFICATION BothSpec
CONSTANTS
    a = a
    b = b
    p = p
    None = None
    Urls = {a}
    Pages = {p}
    Inputs <- File
    Filtered = {}
    Blocking = {}
    FetchCodes = {"E_TIMEOUT"}
    MaxConcurrency = 1
    MaxLlm = 1
    Faults = {"crash", "store"}
    LiveRequeue = {}
    MaxSessions = 2
    MaxSessions2 = 1
INVARIANTS
    JointlyDrained
    FetchingHasOwner
PROPERTIES
    JointlyFinishedStays

