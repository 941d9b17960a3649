SPECIFICATION Spec
CONSTANTS
    a = a
    b = b
    c = c
    b1 = b1
    Ids = {a, b, c}
    Static = {a, b, c}
    UnhealthyThreshold = 1
    TrafficEjectThreshold = 1
    Cooldown = 1
    MaxOverlap = 1
    UrlOf <- OwnUrl
    FastUrls = {}
    Bundles = {b1}
    MaxInputs = 3
    Latencies = {0, 2}
    MaxHops = 2
    Answers = {"ok", "miscounted", "failed"}
INVARIANTS ReassembledInOrder InflightExact FailureJustified
PROPERTIES AnsweredOnce
