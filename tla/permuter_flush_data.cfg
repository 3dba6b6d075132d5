SPECIFICATION Spec
CONSTANTS
    MaxLog = 2
    Kinds = {"plain", "fua", "flush"}
    LongKinds = {"plain", "fua", "flush"}
    Sectors = {0}
    NumRounds = 1
    kMinRetries = 1
    kRetryMultiplier = 2
    NoData = NoData
    Payload <- MCPayload
    Logs <- MCLogs
    Garbage <- MCGarbage
INVARIANTS
    FlushDataInNextEpoch
