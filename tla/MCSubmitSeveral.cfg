CONSTANTS
    Requests <- SeveralRequests
    Keys = {k1, k2}
    Procs = {p1}
    Expiry = 2
    Day = 3
    Quota = 2
    MaxClock = 2
    PendingLifetime = 1
    StaleAfter = 3
    Retries = 0
    MissingWaits = 0
    MaxLate = 1
VIEW Outcomeless
SYMMETRY KeySymmetry
SPECIFICATION Spec
INVARIANT KeyOfOneRequest
PROPERTY LedgerSpec
