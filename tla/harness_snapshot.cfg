SPECIFICATION Spec
CONSTANTS
    Client = {c1, c2}
    NoClient = NoClient
    Options <- SaveAndLoad
    MaxRuns = 2
    num_rounds = 1
CHECK_DEADLOCK FALSE
INVARIANTS
    BaseImageRestored
