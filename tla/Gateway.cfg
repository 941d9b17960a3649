SPECIFICATION Spec
CONSTANTS
    Requests = {r1, r2}
    SequenceMaxTokens = 5
    TokenBatchSize = 2
    MaxTokens = 6
    Text = Text
    None = None
INVARIANTS TokensAligned CountersMatchAnswers
CHECK_DEADLOCK FALSE
