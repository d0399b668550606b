SPECIFICATION Spec
CONSTANTS
    k1 = k1
    k2 = k2
    k3 = k3
    c1 = c1
    c2 = c2
    t1 = t1
    t2 = t2
    e1 = e1
    e2 = e2
    None = None
    NoOpinion = NoOpinion
    Keys = {k1, k2, k3}
    Seeded = {k1}
    Clients = {c1, c2}
    ReplacementKeys = {k3}
    Tabs = {t1, t2}
    Submissions <- Rated
    Exporters = {e1, e2}
    MaxRequests = 2
    MaxOutages = 0
    MaxTime = 3
    RateLimit = 2
CHECK_DEADLOCK FALSE
INVARIANT NothingStranded
