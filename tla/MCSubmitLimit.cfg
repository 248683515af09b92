CONSTANTS
    Requests <- OneRequest
    Keys = {k1, k2}
    Procs = {p1}
    Expiry = 2
    Day = 3
    Quota = 1
    MaxClock = 1
    PendingLifetime = 1
    StaleAfter = 3
    Retries = 0
    MissingWaits = 0
    MaxLate = 0
SPECIFICATION Spec
PROPERTY CutRunIsResumed
