CONSTANTS
    Requests <- OneRequest
    Keys = {k1, k2, k3}
    Procs = {p1}
    Expiry = 2
    Day = 3
    Quota = 2
    MaxClock = 2
    PendingLifetime = 1
    StaleAfter = 3
    Retries = 1
    MissingWaits = 1
    MaxLate = 0
SPECIFICATION StepsSpec
PROPERTIES EveryRunEnds DeliveredInTheEnd
