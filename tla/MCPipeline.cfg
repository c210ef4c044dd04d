SPECIFICATION Spec
CONSTANTS
    a = a
    b = b
    c = c
    p = p
    q = q
    None = None
    Urls = {a, b}
    Pages = {p, q}
    Inputs <- MixedInputs
    Filtered = {}
    Blocking = {q}
    FetchCodes = {"E_TIMEOUT"}
    MaxConcurrency = 2
    MaxLlm = 0
    Faults = {"crash", "interrupt", "write", "raise", "store"}
    LiveRequeue = {}
    MaxSessions = 2
INVARIANTS
    TypeOK
    EvidenceBacksVerdict
    FetchingIsOwned
    DoneMatchesOutput
    StatsAddUp
    RunDrains
PROPERTIES
    FollowsLifecycle
