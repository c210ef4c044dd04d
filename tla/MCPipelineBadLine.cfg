SPECIFICATION Spec
CONSTANTS
    a = a
    b = b
    c = c
    p = p
    q = q
    None = None
    Urls = {a}
    Pages = {p, q}
    Inputs <- BrokenLine
    Filtered = {}
    Blocking = {q}
    FetchCodes = {"E_TIMEOUT"}
    MaxConcurrency = 2
    MaxLlm = 0
    Faults = {}
    LiveRequeue = {}
    MaxSessions = 2
PROPERTY PopulateSurvives
