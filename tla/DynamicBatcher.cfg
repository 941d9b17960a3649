SPECIFICATION FairSpec
CONSTANTS
    Requests = 3
    MaxInputs = 2
    Tasks = {"query"}
    Dims = {1, 2, 3}
    Steps = {2, 3}
    MaxBatch = 3
    Settings = {TRUE, FALSE}
    MaxMulti = 1
INVARIANTS EventMeansFullBatch OnePlace OwnResults EmbedSerialised
PROPERTIES SetOnce FailureStaysInGroup EveryFutureSet
