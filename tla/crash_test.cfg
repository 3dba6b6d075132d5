SPECIFICATION FairTestSpec
CONSTANTS
    SECTOR_SIZE = 2
    DiskBytes = 3
    NumRounds = 2
    kMinRetries = 2
    kRetryMultiplier = 3
    NoData = NoData
    Base = Base
    Other = Other
    DataErrors = {"kFileMissing", "kOldFilePersisted"}
    CheckReturns <- MCCheckReturns
    Payload <- MCPayload
    Logs <- MCLogs
    Garbage <- MCGarbage
INVARIANTS
    TestTypeOK
    CrashStateReplayed
    TestedImagePossible
    ResultsTruthful
    NoFalseDuplicate
    NoRepeatedTest
PROPERTIES
    Terminates
