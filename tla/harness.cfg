SPECIFICATION Spec
CONSTANTS
    Client = {c1, c2}
    NoClient = NoClient
    Options <- MCOptions
    MaxRuns = 2
    num_rounds = 2
CHECK_DEADLOCK FALSE
INVARIANTS
    TypeOK
    ReadyForCommand
    ExitClean
    LogOnItsBase
PROPERTIES
    DoneTruthful
    Served
