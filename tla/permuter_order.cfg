SPECIFICATION Spec
CONSTANTS
    MaxLog = 3
    Kinds = {"plain", "fua", "flush", "seq", "soft", "flushFua", "noWrite"}
    LongKinds = {"plain", "fua", "flush", "flushFua"}
    Sectors = {0}
    NumRounds = 2
    kMinRetries = 1
    kRetryMultiplier = 2
    NoData = NoData
    Payload <- MCPayload
    Logs <- MCLogs
    Garbage <- MCGarbage
INVARIANTS
    TypeOK
    BarrierOrder
    ForcedWriteLast
    FlushBeforeData
    LogKept
