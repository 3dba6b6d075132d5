SPECIFICATION FairSpec
CONSTANTS
    Word = 2
    Radix = 4
    Capacity = 5
    Expected = 4
    ExpectedDone = 5
    Messages <- MCMessages
    Strings <- MCStrings
    Strays <- MCStrays
INVARIANTS
    TypeOK
    MessageIntact
    StreamDrained
    ResultTruthful
PROPERTIES
    ConnectionEnds
