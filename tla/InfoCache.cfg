SPECIFICATION FairInfoSpec
CONSTANTS
    Backends = {a, b}
    Models = {m1, m2}
    Callers = {c1, c2}
    NoModel = NoModel
    TTL = 2
    Timeout = 1
INVARIANT InfoFresh
PROPERTY TellsServedModels
