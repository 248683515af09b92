CONSTANTS
    Requests <- OneRequest
    Keys = {k1, k2}
    Procs = {p1, p2}
    Expiry = 2
    Day = 3
    Quota = 2
    MaxClock = 2
    PendingLifetime = 1
    StaleAfter = 3
    Retries = 0
    MissingWaits = 0
    MaxLate = 0
VIEW Outcomeless
SYMMETRY KeySymmetry
SPECIFICATION Spec
INVARIANT RunsInv
PROPERTY EndsTruthfully
