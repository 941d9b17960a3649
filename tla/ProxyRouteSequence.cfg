SPECIFICATION Spec
CONSTANTS
    a = a
    b = b
    c1 = c1
    c2 = c2
    Ids = {a, b}
    Static = {a}
    UnhealthyThreshold = 1
    TrafficEjectThreshold = 2
    Cooldown = 1
    MaxOverlap = 1
    UrlOf <- OwnUrl
    FastUrls = {b}
    Clients = {c1, c2}
    Answers <- SequenceDisabled
PROPERTY EmbedFallbackWorks
