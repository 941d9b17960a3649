SPECIFICATION FairSpec
CONSTANTS
    a = a
    b = b
    Ids = {a, b}
    Static = {a, b}
    UnhealthyThreshold = 1
    TrafficEjectThreshold = 1
    Cooldown = 1
    MaxOverlap = 1
    UrlOf <- OwnUrl
    FastUrls = {}
    Requests = 3
    MaxTexts = 1
    Target = 2
    MinTexts = 2
    Parallel = 2
    MaxHops = 2
    RemoteUrl = b
    Answers = {"ok", "thrown"}
INVARIANTS NoLostWakeup NoRequestLost CountersExact RejectedOnlyAfterFailover
PROPERTIES SettledOnce EverySubmissionSettles
