SPECIFICATION LoopSpec
CONSTANTS
    MaxLength = 7
    MaxNodes = 4
    MaxLatency = 4
INVARIANTS LoopIsSplit ShardsPartitionInputs SharesProportional
CHECK_DEADLOCK FALSE
