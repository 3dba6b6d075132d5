SPECIFICATION Spec
CONSTANTS
    Radix = 2
    MaxRecords = 2
    MaxSize = 2
    Logs <- MCLogs
    OldLogs <- MCOldLogs
INVARIANTS
    TypeOK
    RoundTrip
    LoadedIsPrefix
