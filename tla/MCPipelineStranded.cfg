SPECIFICATION Spec
CONSTANTS
    a = a
    b = b
    c = c
    p = p
    q = q
    None = None
    Urls = {a}
    Pages = {p, q}
    Inputs <- OneUrl
    Filtered = {}
    Blocking = {q}
    FetchCodes = {"E_TIMEOUT"}
    MaxConcurrency = 2
    MaxLlm = 0
    Faults = {"crash"}
    LiveRequeue = {}
    MaxSessions = 2
INVARIANT ResumeContinues
