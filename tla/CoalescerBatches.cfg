SPECIFICATION HistorySpec
CONSTANTS
    a = a
    b = b
    Ids = {a}
    Static = {}
    UnhealthyThreshold = 1
    TrafficEjectThreshold = 2
    Cooldown = 1
    MaxOverlap = 1
    UrlOf <- OwnUrl
    FastUrls = {}
    Requests = 3
    MaxTexts = 2
    Target = 3
    MinTexts = 2
    Parallel = 2
    MaxHops = 2
    RemoteUrl = b
    Answers = {"ok", "miscounted", "garbled", "refused", "failed", "thrown"}
INVARIANT OwnVectors
PROPERTY FailingBackendEjected
