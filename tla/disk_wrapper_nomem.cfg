SPECIFICATION Spec
CONSTANTS
    a = a
    b = b
    Payload = {a, b}
    NoData = NoData
    Node = {n1, n2, n3}
    NULL = NULL
    Thread = {t1}
    Bios <- MCBios
    Settled = TRUE
    MaxBios = 4
    MaxSessions = 2
    MaxRead = 5
CHECK_DEADLOCK FALSE
INVARIANTS
    TailIsLast
